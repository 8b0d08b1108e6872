------------------------------- MODULE Deploys -------------------------------
(***************************************************************************)
(* The record of deploys: internal/deploy's jobs and JobRegistry, in       *)
(* memory, and the update_history rows of internal/history, on disk.       *)
(***************************************************************************)
EXTENDS Docker

VARIABLES
    jobs,    \* JobRegistry.jobs, in order of registration
    active,  \* JobRegistry.byContainer: key -> job, 0 when absent
    rows     \* statuses of the update_history rows, in order of insertion

deployVars == <<jobs, active, rows>>

\* A job's ContainerName: the executor gives the container's name, the
\* webhook handler the image it was told about.
JobKey == {"container", "image"} \X Name

Job == [key: JobKey, status: {"queued", "running", "success", "failed"}]

RowStatus == {"running", "success", "failed", "skipped"}

DeploysTypeOK ==
    /\ jobs \in Seq(Job)
    /\ active \in [JobKey -> Nat]
    /\ \A k \in JobKey : active[k] <= Len(jobs)
    /\ rows \in Seq(RowStatus)

\* Variant with a bug: the job is indexed by its name only.
RegisterNameOnly(k, s) ==
    active' = [active EXCEPT ![k] = Len(jobs) + 1] /\ UNCHANGED jobs

\* NewJob and Register.
Register(k, s) ==
    /\ jobs' = Append(jobs, [key |-> k, status |-> s])
    /\ active' = [active EXCEPT ![k] = Len(jobs) + 1]

\* DeployJob.Transition: a terminal job stays as it is.
Transition(j, s) ==
    jobs' = IF jobs[j].status \in {"success", "failed"}
            THEN jobs
            ELSE [jobs EXCEPT ![j] = [@ EXCEPT !.status = s]]

RecordRow(s) == rows' = Append(rows, s)

\* History.FinishDeploy on the row of the deploy.
FinishRow(r, s) == rows' = [rows EXCEPT ![r] = s]

\* JobRegistry.Finish: drops whatever job its container name has now.
FinishJob(j) == active' = [active EXCEPT ![jobs[j].key] = 0]

NoJobs == jobs' = <<>> /\ active' = [k \in JobKey |-> 0]
=============================================================================
