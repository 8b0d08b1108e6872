---------------------------- MODULE PipelineLife ----------------------------
(***************************************************************************)
(* Theorems about what the pipeline promises of a service and what it says *)
(* of itself: the index of active deploys, the digests it reports and      *)
(* keeps, and that a service is not left down.                             *)
(***************************************************************************)
EXTENDS PipelineSafety

-----------------------------------------------------------------------------
(* The index of active deploys.                                            *)

\* A job under another key does not disturb the update under way.
LEMMA JobAdded ==
    ASSUME TypeInv, ActiveInv, NEW n \in Name, NEW st \in {"queued"},
           Register(<<"image", n>>, st), exec' = exec
    PROVE  ActiveInv'
<1>1. /\ active \in [JobKey -> Nat] /\ jobs \in Seq(Job)
      /\ Len(jobs) \in Nat
  BY DEF TypeInv, Typed, DeploysTypeOK
<1>2. PICK k \in JobKey : k = <<"image", n>>
  BY DEF JobKey
<1>3. PICK j \in Job : j = [key |-> k, status |-> st]
  BY DEF Job
<1>4. jobs' = Append(jobs, j) /\ active' = [active EXCEPT ![k] = Len(jobs) + 1]
  BY <1>2, <1>3 DEF Register
<1>5. \A i \in DOMAIN jobs : i \in DOMAIN jobs' /\ jobs'[i] = jobs[i]
  BY <1>1, <1>4
<1>6. \A m \in Name : <<"container", m>> \in JobKey /\ <<"container", m>> # k
  BY <1>2 DEF JobKey
<1>7. \A m \in Name : active'[<<"container", m>>] = active[<<"container", m>>]
  BY <1>1, <1>4, <1>6
<1> QED BY <1>5, <1>7 DEF ActiveInv, JobInHand, ActiveIsApplying

\* handle() registers its job under the name it works on.
LEMMA ApplyActive ==
    ASSUME TypeInv, ActiveInv, Exec, ExecApply
    PROVE  ActiveInv'
<1>1. /\ active \in [JobKey -> Nat] /\ jobs \in Seq(Job) /\ Len(jobs) \in Nat
  BY DEF TypeInv, Typed, DeploysTypeOK
<1>2. PICK p \in ImageUpdated : p = Head(qImage)
  <2>1. qImage \in Seq(ImageUpdated) /\ qImage # <<>>
    BY DEF ExecApply, TypeInv, Typed, TopicsTypeOK
  <2> HIDE DEF ImageUpdated
  <2> QED BY <2>1
<1>3. PICK k \in JobKey : k = <<"container", p.name>>
  BY DEF ImageUpdated, JobKey
<1>4. PICK j \in Job : j = [key |-> k, status |-> "running"]
  BY DEF Job
<1>5. jobs' = Append(jobs, j) /\ active' = [active EXCEPT ![k] = Len(jobs) + 1]
  BY <1>2, <1>3, <1>4 DEF ExecApply, Register
<1>6. exec'.pc = "apply" /\ exec'.p = p /\ exec'.job = Len(jobs) + 1
  BY <1>2 DEF ExecApply
<1>7. Len(jobs) + 1 \in DOMAIN jobs' /\ jobs'[Len(jobs) + 1] = j
  BY <1>1, <1>5
<1>8. JobInHand'
  BY <1>3, <1>4, <1>6, <1>7 DEF JobInHand
<1>9. ASSUME NEW n \in Name
      PROVE  active'[<<"container", n>>] # 0 <=> n = p.name
  <2>1. <<"container", n>> \in JobKey
    BY DEF JobKey
  <2>2. CASE n = p.name
    BY <1>1, <1>3, <1>5, <2>1, <2>2
  <2>3. CASE n # p.name
    <3>1. <<"container", n>> # k
      BY <1>3, <2>3
    <3>2. active[<<"container", n>>] = 0
      BY DEF ExecApply, ActiveInv, ActiveIsApplying
    <3> QED BY <1>1, <1>5, <2>1, <2>3, <3>1, <3>2
  <2> QED BY <2>2, <2>3
<1> QED BY <1>6, <1>8, <1>9 DEF ActiveInv, ActiveIsApplying

\* The deferred Finish drops the key of the update that has ended.
LEMMA FinishActive ==
    ASSUME TypeInv, ActiveInv, exec.pc # "idle", FinishJob(exec.job),
           exec' = ExecIdle
    PROVE  ActiveInv'
<1>1. active \in [JobKey -> Nat]
  BY DEF TypeInv, Typed, DeploysTypeOK
<1>2. active' = [active EXCEPT ![<<"container", exec.p.name>>] = 0]
  BY DEF FinishJob, ActiveInv, JobInHand
<1>3. ASSUME NEW n \in Name PROVE active'[<<"container", n>>] = 0
  <2>1. <<"container", n>> \in JobKey
    BY DEF JobKey
  <2> QED BY <1>1, <1>2, <2>1 DEF ActiveInv, ActiveIsApplying
<1> QED BY <1>3 DEF ActiveInv, JobInHand, ActiveIsApplying, ExecIdle

\* A job's status changes, its key does not.
LEMMA TransitionActive ==
    ASSUME TypeInv, ActiveInv, NEW j \in Nat, NEW st \in {"success", "failed"},
           Transition(j, st), UNCHANGED active,
           exec'.pc # "idle", exec.pc # "idle",
           exec'.p = exec.p, exec'.job = exec.job
    PROVE  ActiveInv'
<1>1. jobs \in Seq(Job)
  BY DEF TypeInv, Typed, DeploysTypeOK
<1>2. \A i \in DOMAIN jobs : i \in DOMAIN jobs' /\ jobs'[i].key = jobs[i].key
  <2>1. CASE jobs' = jobs
    BY <2>1
  <2>2. CASE jobs' = [jobs EXCEPT ![j] = [jobs[j] EXCEPT !.status = st]]
    <3>1. ASSUME NEW i \in DOMAIN jobs
          PROVE  i \in DOMAIN jobs' /\ jobs'[i].key = jobs[i].key
      <4>1. jobs[i] \in Job
        BY <1>1
      <4>2. PICK e : e = [jobs[i] EXCEPT !.status = st]
        OBVIOUS
      <4>3. e.key = jobs[i].key
        BY <4>1, <4>2 DEF Job
      <4>4. i \in DOMAIN jobs' /\ jobs'[i] = IF i = j THEN e ELSE jobs[i]
        BY <2>2, <3>1, <4>2
      <4> QED BY <4>3, <4>4
    <3> QED BY <3>1
  <2> QED BY <2>1, <2>2 DEF Transition
<1> QED BY <1>2 DEF ActiveInv, JobInHand, ActiveIsApplying

LEMMA ActiveKept == TypeInv /\ ActiveInv /\ [Next]_vars => ActiveInv'
<1> SUFFICES ASSUME TypeInv, ActiveInv, [Next]_vars PROVE ActiveInv'
  OBVIOUS
<1>1. CASE exec' = exec /\ UNCHANGED <<jobs, active>>
  BY <1>1 DEF ActiveInv, JobInHand, ActiveIsApplying
<1>2. CASE Exec
  <2>1. CASE ExecApply
    BY <1>2, <2>1, ApplyActive
  <2>2. CASE ExecFail \/ ExecPublish
    BY <2>2, FinishActive DEF ExecFail, ExecPublish
  <2>3. CASE ExecSucceed
    <3>1. exec'.pc = "rekey" /\ exec'.p = exec.p /\ exec'.job = exec.job
          /\ exec.job \in Nat
      BY <2>3 DEF ExecSucceed, TypeInv, Typed, ExecutorTypeOK
    <3> QED BY <2>3, <3>1, TransitionActive DEF ExecSucceed
  <2>4. CASE ExecRekey
    <3>1. /\ exec'.pc = "push" /\ exec'.p = exec.p /\ exec'.job = exec.job
          /\ exec.pc = "rekey"
      BY <2>4 DEF ExecRekey, TypeInv, Typed, ExecutorTypeOK
    <3> QED BY <2>4, <3>1
         DEF ExecRekey, deployVars, ActiveInv, JobInHand, ActiveIsApplying
  <2>5. CASE ExecIgnore
    BY <1>1, <2>5 DEF ExecIgnore, deployVars
  <2> QED BY <1>2, <2>1, <2>2, <2>3, <2>4, <2>5 DEF Exec, ExecutorStep
<1>3. CASE Panic \/ Crash
  <2>1. /\ exec' = ExecIdle /\ \A k \in JobKey : active'[k] = 0
    BY <1>3 DEF Panic, Crash, Down, MemoryEmpty, NoJobs
  <2>2. \A n \in Name : <<"container", n>> \in JobKey
    BY DEF JobKey
  <2> QED BY <2>1, <2>2 DEF ActiveInv, JobInHand, ActiveIsApplying, ExecIdle
<1>4. ASSUME NEW s \in Slot, Serve(s) PROVE ActiveInv'
  <2>1. exec' = exec
    BY <1>4 DEF Serve
  <2>2. CASE SendDone(s)
    <3>1. CASE req[s].kind = "push"
      <4>1. req[s].name \in Name
        BY <2>2 DEF SendDone, TypeInv, ReqsKnown, ReqKnown
      <4>2. Register(<<"image", req[s].name>>, "queued")
        BY <2>2, <3>1 DEF SendDone
      <4> QED BY <2>1, <4>1, <4>2, JobAdded
    <3>2. CASE req[s].kind # "push"
      BY <1>1, <2>1, <2>2, <3>2 DEF SendDone
    <3> QED BY <3>1, <3>2
  <2>3. CASE UNCHANGED deployVars
    BY <1>1, <2>1, <2>3 DEF deployVars
  <2> QED BY <1>4, <2>2, <2>3 DEF Serve, RequestStep, SendOne, SweepHead, SweepDone,
          ServiceHead, CompareRead, CompareSeed, CompareAct, UpdateHead, RollbackSend
<1>5. ASSUME NEW s \in Slot, Ask(s) PROVE ActiveInv'
  BY <1>1, <1>5 DEF Ask, PushBegin, HubBegin, SweepBegin, ServiceBegin, UpdateBegin,
     RollbackBegin, deployVars
<1>6. CASE Seed \/ Subscribe \/ Rb \/ Watch \/ Monitor \/ UNCHANGED vars
  BY <1>1, <1>6 DEF Seed, Subscribe, Rb, Watch, Monitor, vars, deployVars
<1>7. CASE (\E a \in Actor : Calls(a)) \/ CallError
  BY <1>1, <1>7 DEF Calls, CallError, deployVars
<1>8. CASE Release \/ HostPull \/ Sicken \/ HandRemove \/ HandRestart \/ HandRun
  BY <1>1, <1>8 DEF Release, HostPull, Sicken, HandRemove, HandRestart, HandRun,
     deployVars
<1> QED BY <1>2, <1>3, <1>4, <1>5, <1>6, <1>7, <1>8 DEF Next, Rest

\* No job, no update.
LEMMA ActiveInit == Init => ActiveInv
<1> SUFFICES ASSUME Init PROVE ActiveInv
  OBVIOUS
<1>1. exec = ExecIdle /\ active = [k \in JobKey |-> 0]
  BY DEF Init
<1>2. \A n \in Name : active[<<"container", n>>] = 0
  BY <1>1 DEF JobKey
<1> QED BY <1>1, <1>2 DEF ActiveInv, JobInHand, ActiveIsApplying, ExecIdle

\* IsRunning is true of a container exactly while the executor applies an
\* update to it, however webhooks register jobs of their own meanwhile and
\* wherever the deploy fails or the process ends.
THEOREM ActiveIsApplyingHolds == Spec => []ActiveIsApplying
<1>1. ActiveInv => ActiveIsApplying
  BY DEF ActiveInv
<1> QED BY <1>1, TypeInvHolds, ActiveInit, ActiveKept, PTL DEF Spec

-----------------------------------------------------------------------------
(* What containers run.                                                    *)

\* A container keeps its image, and has run for good once it was started.
KeepsRuns ==
    \A i \in Id :
        /\ ctr[i].st # "none" => ctr'[i].runs = ctr[i].runs
        /\ ctr[i].st # "none" /\ ctr[i].ran => ctr'[i].ran
        /\ ctr'[i].ran => ctr'[i].st # "none"

\* The same for one step of a Recreate, which leaves its reference alone and
\* creates what it pulled.
LEMMA CallRuns ==
    ASSUME TypeInv, RanBorn, NEW a \in Actor, TaskRuns(task[a]),
           RecreateStep(a) \/ CallFails(a)
    PROVE  /\ KeepsRuns /\ TaskRuns(task[a])'
           /\ task'[a].ref = task[a].ref
<1>1. /\ task \in [Actor -> Task] /\ ctr \in [Id -> Container]
      /\ task[a] \in Task /\ TaskKnown(task[a])
  BY DEF TypeInv, Typed, RecreateTypeOK, DockerTypeOK, TasksKnown
<1>2. ASSUME ctr' = ctr PROVE KeepsRuns
  BY <1>2 DEF KeepsRuns, RanBorn
<1>3. ASSUME Abandon(a)
      PROVE  KeepsRuns /\ TaskRuns(task[a])' /\ task'[a].ref = task[a].ref
  <2>1. task'[a].pc = "failed" /\ task'[a].ref = task[a].ref
    BY <1>1, <1>3 DEF Abandon, Goto, Task
  <2>2. KeepsRuns
    BY <1>2, <1>3 DEF Abandon
  <2> QED BY <2>1, <2>2 DEF TaskRuns
<1>4. CASE InspectCall(a) /\ ~Abandon(a)
  <2>1. PICK n : n = ctr[task[a].id].name
    OBVIOUS
  <2>2. PICK t : t = [task[a] EXCEPT !.pc = "pull", !.name = n]
    OBVIOUS
  <2>3. task' = [task EXCEPT ![a] = t] /\ ctr' = ctr
    BY <1>4, <2>1, <2>2 DEF InspectCall
  <2>4. t.pc = "pull" /\ t.ref = task[a].ref
    BY <1>1, <2>2 DEF Task
  <2>5. task'[a] = t
    BY <1>1, <2>3
  <2> QED BY <1>2, <2>3, <2>4, <2>5 DEF TaskRuns
<1>5. CASE PullCall(a) /\ ~Abandon(a)
  <2>1. PICK d : d = IF task[a].ref = NoDigest THEN reg[task[a].name]
                     ELSE task[a].ref
    OBVIOUS
  <2>2. PICK t : t = [task[a] EXCEPT !.pc = "stop", !.runs = d]
    OBVIOUS
  <2>3. task' = [task EXCEPT ![a] = t] /\ ctr' = ctr
    BY <1>5, <2>1, <2>2 DEF PullCall
  <2>4. t.pc = "stop" /\ t.ref = task[a].ref /\ t.runs = d
    BY <1>1, <2>2 DEF Task
  <2>5. task'[a] = t
    BY <1>1, <2>3
  <2> QED BY <1>2, <2>1, <2>3, <2>4, <2>5 DEF TaskRuns
<1>6. CASE StopCall(a) /\ ~Abandon(a)
  <2>1. Present(task[a].id) /\ DockerStop(task[a].id) /\ Goto(a, "remove")
    BY <1>6 DEF StopCall
  <2>2. task'[a] = [task[a] EXCEPT !.pc = "remove"]
    BY <1>1, <2>1 DEF Goto
  <2>3. /\ task'[a].pc = "remove" /\ task'[a].ref = task[a].ref
        /\ task'[a].runs = task[a].runs
    BY <1>1, <2>2 DEF Task
  <2>4. TaskRuns(task[a])'
    BY <1>6, <2>3 DEF TaskRuns, StopCall
  <2>5. task[a].id \in Id
    BY <1>1, <1>6 DEF StopCall, TaskKnown
  <2>6. KeepsRuns
    BY <1>1, <2>1, <2>5 DEF DockerStop, KeepsRuns, RanBorn, Container, Present
  <2> QED BY <2>3, <2>4, <2>6
<1>7. CASE RemoveCall(a) /\ ~Abandon(a)
  <2>1. Present(task[a].id) /\ DockerRemove(task[a].id) /\ Goto(a, "create")
    BY <1>7 DEF RemoveCall
  <2>2. task'[a] = [task[a] EXCEPT !.pc = "create"]
    BY <1>1, <2>1 DEF Goto
  <2>3. /\ task'[a].pc = "create" /\ task'[a].ref = task[a].ref
        /\ task'[a].runs = task[a].runs
    BY <1>1, <2>2 DEF Task
  <2>4. TaskRuns(task[a])'
    BY <1>7, <2>3 DEF TaskRuns, RemoveCall
  <2>5. task[a].id \in Id
    BY <1>1, <1>7 DEF RemoveCall, TaskKnown
  <2>6. KeepsRuns
    BY <1>1, <2>1, <2>5 DEF DockerRemove, KeepsRuns, RanBorn, Container, Present
  <2> QED BY <2>3, <2>4, <2>6
<1>8. CASE CreateCall(a) /\ ~Abandon(a)
  <2>1. PICK j \in Id :
          /\ Unused(j)
          /\ DockerCreate(j, task[a].name, task[a].ref, task[a].runs)
          /\ task' = [task EXCEPT ![a] = [@ EXCEPT !.pc = "start", !.new = j]]
    BY <1>8 DEF CreateCall
  <2>2. task'[a] = [task[a] EXCEPT !.pc = "start", !.new = j]
    BY <1>1, <2>1
  <2>3. /\ task'[a].pc = "start" /\ task'[a].ref = task[a].ref
        /\ task'[a].runs = task[a].runs /\ task'[a].new = j
    BY <1>1, <2>2 DEF Task
  <2>4. /\ ctr'[j].st = "created" /\ ctr'[j].runs = task[a].runs
        /\ ~ctr'[j].ran /\ \A i \in Id : i # j => ctr'[i] = ctr[i]
    BY <1>1, <2>1 DEF DockerCreate
  <2>5. TaskRuns(task[a])'
    BY <1>8, <2>3, <2>4 DEF TaskRuns, CreateCall
  <2>6. KeepsRuns
    BY <2>1, <2>4 DEF KeepsRuns, RanBorn, Unused
  <2> QED BY <2>3, <2>5, <2>6
<1>9. CASE StartCall(a) /\ ~Abandon(a)
  <2>1. Present(task[a].new) /\ DockerStart(task[a].new) /\ Goto(a, "done")
    BY <1>9 DEF StartCall
  <2>2. task'[a] = [task[a] EXCEPT !.pc = "done"]
    BY <1>1, <2>1 DEF Goto
  <2>3. /\ task'[a].pc = "done" /\ task'[a].ref = task[a].ref
        /\ task'[a].runs = task[a].runs /\ task'[a].new = task[a].new
    BY <1>1, <2>2 DEF Task
  <2>4. PICK j \in Id : j = task[a].new
    BY <1>1, <1>9 DEF StartCall, TaskKnown
  <2>5. PICK c : c = [ctr[j] EXCEPT !.st = "running", !.ran = TRUE, !.sick = FALSE]
    OBVIOUS
  <2>6. c.st = "running" /\ c.ran /\ c.runs = ctr[j].runs
    BY <1>1, <2>5 DEF Container
  <2>7. ctr'[j] = c /\ \A i \in Id : i # j => ctr'[i] = ctr[i]
    BY <1>1, <2>1, <2>4, <2>5 DEF DockerStart
  <2>8. TaskRuns(task[a])'
    BY <1>9, <2>3, <2>4, <2>6, <2>7 DEF TaskRuns, StartCall
  <2>9. KeepsRuns
    BY <2>6, <2>7 DEF KeepsRuns, RanBorn
  <2> QED BY <2>3, <2>8, <2>9
<1> QED BY <1>3, <1>4, <1>5, <1>6, <1>7, <1>8, <1>9 DEF RecreateStep, CallFails

\* Every other step.
LEMMA NextRuns == ASSUME TypeInv, RunInv, [Next]_vars PROVE KeepsRuns
<1>1. /\ ctr \in [Id -> Container] /\ RanBorn
      /\ \A a \in Actor : TaskRuns(task[a])
  BY DEF TypeInv, Typed, DockerTypeOK, RunInv, TasksRun
<1>2. CASE ctr' = ctr
  BY <1>1, <1>2 DEF KeepsRuns, RanBorn
<1>3. CASE (\E a \in Actor : Calls(a)) \/ CallError
  BY <1>1, <1>3, CallRuns DEF Calls, CallError
<1>4. CASE Sicken
  BY <1>1, <1>4 DEF Sicken, KeepsRuns, RanBorn, Container
<1>5. CASE HandRemove
  BY <1>1, <1>5 DEF HandRemove, DockerRemove, Present, KeepsRuns, RanBorn, Container
<1>6. CASE HandRestart
  <2>1. PICK i \in Id : Present(i) /\ DockerStart(i)
    BY <1>6 DEF HandRestart
  <2>2. PICK c : c = [ctr[i] EXCEPT !.st = "running", !.ran = TRUE, !.sick = FALSE]
    OBVIOUS
  <2>3. c.st = "running" /\ c.ran /\ c.runs = ctr[i].runs
    BY <1>1, <2>2 DEF Container
  <2>4. ctr'[i] = c /\ \A j \in Id : i # j => ctr'[j] = ctr[j]
    BY <1>1, <2>1, <2>2 DEF DockerStart
  <2> QED BY <1>1, <2>3, <2>4 DEF KeepsRuns, RanBorn
<1>7. CASE HandRun
  <2>1. PICK n \in Name, i \in Id : Unused(i) /\ ctr' = [ctr EXCEPT ![i] = RunBare(n)]
    BY <1>7 DEF HandRun
  <2>2. RunBare(n).st = "running"
    BY DEF RunBare
  <2>3. ctr'[i] = RunBare(n) /\ \A j \in Id : i # j => ctr'[j] = ctr[j]
    BY <1>1, <2>1
  <2> QED BY <1>1, <2>1, <2>2, <2>3 DEF KeepsRuns, RanBorn, Unused
<1>8. CASE Seed \/ Subscribe \/ Panic \/ Crash \/ Release \/ HostPull
  BY <1>2, <1>8 DEF Seed, Subscribe, Panic, Crash, Down, Release, HostPull
<1>9. CASE Exec \/ Rb \/ Watch \/ Monitor
  <2>1. ctr' = ctr
    BY <1>9 DEF Exec, ExecutorStep, ExecIgnore, ExecApply, ExecFail,
       ExecSucceed, ExecRekey, ExecPublish, Rb, RollbackStep, RbAbort,
       RbRestore, RbFail, RbRekey, RbPublish, Watch, WatcherStep, Monitor,
       HealthMonStep, dockerVars
  <2> QED BY <1>2, <2>1
<1>10. CASE \E s \in Slot : Serve(s) \/ Ask(s)
  BY <1>2, <1>10 DEF Serve, RequestStep, Ask, dockerVars
<1>11. CASE UNCHANGED vars
  BY <1>2, <1>11 DEF vars, dockerVars
<1> QED BY <1>3, <1>4, <1>5, <1>6, <1>7, <1>8, <1>9, <1>10, <1>11 DEF Next, Rest

\* What is known of a Recreate that did not move stays true.
LEMMA RunsStay ==
    ASSUME KeepsRuns, NEW a \in Actor, TaskKnown(task[a]), TaskRuns(task[a]),
           task'[a] = task[a]
    PROVE  TaskRuns(task[a])'
BY DEF KeepsRuns, TaskKnown, TaskRuns

\* The executor's and the rollback engine's next Recreate, or none.
LEMMA TaskBegins ==
    ASSUME task \in [Actor -> Task], NEW b \in Actor, NEW i, NEW r, Start(b, i, r)
    PROVE  /\ task'[b].pc = "inspect" /\ task'[b].ref = r /\ task'[b].id = i
           /\ \A a \in Actor : a # b => task'[a] = task[a]
<1>1. PICK t : t = [NoTask EXCEPT !.pc = "inspect", !.id = i, !.ref = r]
  OBVIOUS
<1>2. t.pc = "inspect" /\ t.ref = r /\ t.id = i
  BY <1>1 DEF NoTask
<1>3. task' = [task EXCEPT ![b] = t]
  BY <1>1 DEF Start
<1> QED BY <1>2, <1>3

LEMMA TaskEnds ==
    ASSUME task \in [Actor -> Task], NEW b \in Actor, Finish(b)
    PROVE  /\ task'[b] = NoTask
           /\ \A a \in Actor : a # b => task'[a] = task[a]
BY DEF Finish

\* Whatever step is taken.
LEMMA TasksRunKept ==
    ASSUME TypeInv, RunInv, [Next]_vars PROVE TasksRun'
<1>1. /\ task \in [Actor -> Task] /\ KeepsRuns
      /\ \A a \in Actor : TaskRuns(task[a]) /\ TaskKnown(task[a])
  BY NextRuns DEF TypeInv, Typed, RecreateTypeOK, TasksKnown, RunInv, TasksRun
<1>2. CASE task' = task
  BY <1>1, <1>2, RunsStay DEF TasksRun
<1>3. ASSUME NEW b \in Actor, Finish(b) \/ \E i, r : Start(b, i, r)
      PROVE  TasksRun'
  <2>1. task'[b].pc \in {"idle", "inspect"}
    BY <1>1, <1>3, TaskBegins, TaskEnds DEF NoTask
  <2>2. \A a \in Actor : a # b => task'[a] = task[a]
    BY <1>1, <1>3, TaskBegins, TaskEnds
  <2>3. TaskRuns(task[b])'
    BY <2>1 DEF TaskRuns
  <2>4. \A a \in Actor : a # b => TaskRuns(task[a])'
    BY <1>1, <2>2, RunsStay
  <2> QED BY <2>3, <2>4 DEF TasksRun
<1>4. ASSUME NEW b \in Actor, RecreateStep(b) \/ CallFails(b)
      PROVE  TasksRun'
  <2>1. TaskRuns(task[b])'
    BY <1>1, <1>4, CallRuns DEF RunInv
  <2>2. \A a \in Actor : a # b => task'[a] = task[a]
    BY <1>4, RecreateKeeps DEF CallKeeps, TypeInv, Typed
  <2>3. \A a \in Actor : a # b => TaskRuns(task[a])'
    BY <1>1, <2>2, RunsStay
  <2> QED BY <2>1, <2>3 DEF TasksRun
<1>5. CASE (\E a \in Actor : Calls(a)) \/ CallError
  BY <1>4, <1>5 DEF Calls, CallError
<1>6. CASE Exec
  <2>1. \/ task' = task
        \/ Finish("exec") \/ \E i, r : Start("exec", i, r)
    BY <1>6 DEF Exec, ExecutorStep, ExecIgnore, ExecApply, ExecFail,
       ExecSucceed, ExecRekey, ExecPublish
  <2> QED BY <1>2, <1>3, <2>1 DEF Actor
<1>7. CASE Rb
  <2>1. \/ task' = task
        \/ Finish("rb") \/ \E i, r : Start("rb", i, r)
    BY <1>7 DEF Rb, RollbackStep, RbAbort, RbRestore, RbFail, RbRekey, RbPublish
  <2> QED BY <1>2, <1>3, <2>1 DEF Actor
<1>8. CASE Panic \/ Crash
  <2>1. \A a \in Actor : task'[a].pc = "idle"
    BY <1>8 DEF Panic, Crash, Down, MemoryEmpty, NoTask
  <2> QED BY <2>1 DEF TasksRun, TaskRuns
<1>9. CASE Seed \/ Subscribe \/ Watch \/ Monitor \/ UNCHANGED vars
  BY <1>2, <1>9 DEF Seed, Subscribe, Watch, Monitor, vars
<1>10. CASE \E s \in Slot : Serve(s) \/ Ask(s)
  BY <1>2, <1>10 DEF Serve, Ask
<1>11. CASE Release \/ HostPull \/ Sicken \/ HandRemove \/ HandRestart \/ HandRun
  BY <1>2, <1>11 DEF Release, HostPull, Sicken, HandRemove, HandRestart, HandRun
<1> QED BY <1>5, <1>6, <1>7, <1>8, <1>9, <1>10, <1>11 DEF Next, Rest

\* Each actor's reference stays the one its event asked for.
LEMMA RefsKept ==
    ASSUME TypeInv, RunInv, [Next]_vars PROVE RefsPinned'
<1>1. /\ task \in [Actor -> Task] /\ RefsPinned /\ RanBorn
      /\ \A a \in Actor : TaskRuns(task[a])
      /\ "exec" \in Actor /\ "rb" \in Actor
  BY DEF TypeInv, Typed, RecreateTypeOK, RunInv, TasksRun, Actor
<1>2. CASE /\ exec' = exec /\ rb' = rb
           /\ \A a \in Actor : task'[a].ref = task[a].ref
  BY <1>1, <1>2 DEF RefsPinned
<1>3. CASE Exec
  <2>1. rb' = rb
    BY <1>3 DEF Exec
  <2>2. CASE ExecApply
    <3>1. PICK p : /\ Start("exec", p.id, Pin(p.image, p.new))
                   /\ exec'.p = p
      BY <2>2 DEF ExecApply, Start
    <3>2. /\ task'["exec"].ref = Pin(p.image, p.new)
          /\ task'["rb"] = task["rb"]
      BY <1>1, <3>1, TaskBegins
    <3> QED BY <1>1, <2>1, <3>1, <3>2 DEF RefsPinned
  <2>3. CASE ExecFail \/ ExecPublish
    <3>1. exec'.pc = "idle" /\ Finish("exec")
      BY <2>3 DEF ExecFail, ExecPublish, ExecIdle
    <3>2. task'["rb"] = task["rb"]
      BY <1>1, <3>1, TaskEnds
    <3> QED BY <1>1, <2>1, <3>1, <3>2 DEF RefsPinned
  <2>4. CASE ExecSucceed \/ ExecRekey
    <3>1. exec'.p = exec.p /\ exec.pc # "idle" /\ task' = task
      BY <2>4 DEF ExecSucceed, ExecRekey, TypeInv, Typed, ExecutorTypeOK
    <3> QED BY <1>1, <2>1, <3>1 DEF RefsPinned
  <2>5. CASE ExecIgnore
    BY <1>2, <2>1, <2>5 DEF ExecIgnore
  <2> QED BY <1>3, <2>2, <2>3, <2>4, <2>5 DEF Exec, ExecutorStep
<1>4. CASE Rb
  <2>1. exec' = exec
    BY <1>4 DEF Rb
  <2>2. CASE RbRestore
    <3>1. PICK p : /\ Start("rb", p.id, Pin(p.image, p.prev))
                   /\ rb'.p = p /\ p.prev # NoDigest
      BY <2>2 DEF RbRestore, Start
    <3>2. /\ task'["rb"].ref = Pin(p.image, p.prev)
          /\ task'["exec"] = task["exec"]
      BY <1>1, <3>1, TaskBegins
    <3> QED BY <1>1, <2>1, <3>1, <3>2 DEF RefsPinned
  <2>3. CASE RbFail \/ RbPublish
    <3>1. rb'.pc = "idle" /\ Finish("rb")
      BY <2>3 DEF RbFail, RbPublish, RbIdle
    <3>2. task'["exec"] = task["exec"]
      BY <1>1, <3>1, TaskEnds
    <3> QED BY <1>1, <2>1, <3>1, <3>2 DEF RefsPinned
  <2>4. CASE RbRekey
    <3>1. rb'.p = rb.p /\ rb.pc # "idle" /\ task' = task
      BY <2>4 DEF RbRekey, TypeInv, Typed, RollbackTypeOK
    <3> QED BY <1>1, <2>1, <3>1 DEF RefsPinned
  <2>5. CASE RbAbort
    BY <1>2, <2>1, <2>5 DEF RbAbort
  <2> QED BY <1>4, <2>2, <2>3, <2>4, <2>5 DEF Rb, RollbackStep
<1>5. CASE (\E a \in Actor : Calls(a)) \/ CallError
  <2>1. PICK b \in Actor : RecreateStep(b) \/ CallFails(b)
    BY <1>5 DEF Calls, CallError
  <2>2. task'[b].ref = task[b].ref
    BY <1>1, <2>1, CallRuns
  <2>3. \A a \in Actor : a # b => task'[a] = task[a]
    BY <2>1, RecreateKeeps DEF CallKeeps, TypeInv, Typed
  <2>4. exec' = exec /\ rb' = rb
    BY <1>5 DEF Calls, CallError
  <2> QED BY <1>2, <2>2, <2>3, <2>4
<1>6. CASE Panic \/ Crash
  BY <1>6 DEF Panic, Crash, Down, MemoryEmpty, ExecIdle, RbIdle, RefsPinned
<1>7. CASE Seed \/ Subscribe \/ Watch \/ Monitor \/ UNCHANGED vars
  BY <1>2, <1>7 DEF Seed, Subscribe, Watch, Monitor, vars
<1>8. CASE \E s \in Slot : Serve(s) \/ Ask(s)
  BY <1>2, <1>8 DEF Serve, Ask
<1>9. CASE Release \/ HostPull \/ Sicken \/ HandRemove \/ HandRestart \/ HandRun
  BY <1>2, <1>9 DEF Release, HostPull, Sicken, HandRemove, HandRestart, HandRun
<1> QED BY <1>3, <1>4, <1>5, <1>6, <1>7, <1>8, <1>9 DEF Next, Rest

\* A Recreate that is done has started what the event asked for.
LEMMA DoneRuns ==
    ASSUME TypeInv, RunInv, NEW a \in Actor, task[a].pc = "done",
           NEW img \in Image, NEW d \in Image, task[a].ref = Pin(img, d)
    PROVE  /\ task[a].new \in Id /\ ctr[task[a].new].ran
           /\ ctr[task[a].new].name = task[a].name
           /\ d # NoDigest => ctr[task[a].new].runs = d
<1>1. TaskKnown(task[a]) /\ TaskRuns(task[a])
  BY DEF TypeInv, TasksKnown, RunInv, TasksRun
<1>2. task[a].ref # BadRef
  BY <1>1, Images DEF TaskKnown
<1> QED BY <1>1, <1>2 DEF TaskKnown, TaskRuns, Pin

LEMMA AppliedIds ==
    ASSUME TypeInv PROVE \A l \in DOMAIN qApplied : qApplied[l].id \in Id
<1>1. qApplied \in Seq(UpdateApplied)
  BY DEF TypeInv, Typed, TopicsTypeOK
<1>2. \A l \in DOMAIN qApplied : qApplied[l] \in UpdateApplied
  BY <1>1
<1> QED BY <1>2 DEF UpdateApplied

\* What an applied update says of its container stays true.
LEMMA AppliedStays ==
    ASSUME TypeInv, RunInv, KeepsRuns,
           \A k \in DOMAIN qApplied' : \E l \in DOMAIN qApplied :
               qApplied'[k] = qApplied[l]
    PROVE  AppliedHasRun'
<1>1. \A l \in DOMAIN qApplied : qApplied[l].id \in Id
  BY AppliedIds
<1> QED BY <1>1 DEF KeepsRuns, RunInv, RanBorn, AppliedHasRun

\* An update is reported applied when its container was started.
LEMMA PublishRuns ==
    ASSUME TypeInv, RunInv, KeepsRuns, Exec, ExecPublish PROVE AppliedHasRun'
<1>1. qApplied \in Seq(UpdateApplied) /\ exec.p \in ImageUpdated
      /\ task["exec"].pc = "done" /\ "exec" \in Actor
  BY DEF TypeInv, Typed, TopicsTypeOK, ExecPublish, ExecKnown, Actor
<1>2. PICK p : p = exec.p
  OBVIOUS
<1>3. PICK j : j = task["exec"].new
  OBVIOUS
<1>4. PICK m : m = [p EXCEPT !.id = j]
  OBVIOUS
<1>5. p.image \in Image /\ p.new \in Image /\ task["exec"].ref = Pin(p.image, p.new)
  BY <1>1, <1>2 DEF ExecPublish, RunInv, RefsPinned, ImageUpdated
<1>6. j \in Id /\ ctr[j].ran /\ (p.new # NoDigest => ctr[j].runs = p.new)
  BY <1>1, <1>3, <1>5, DoneRuns
<1>7. m.id = j /\ m.new = p.new
  BY <1>1, <1>2, <1>4 DEF ImageUpdated
<1>8. ctr'[j].ran /\ (p.new # NoDigest => ctr'[j].runs = p.new)
  BY <1>6 DEF KeepsRuns, RunInv, RanBorn
<1>9. qApplied' = Publish(qApplied, m)
  BY <1>2, <1>3, <1>4 DEF ExecPublish
<1>10. CASE qApplied' = qApplied
  BY <1>10, AppliedStays
<1>11. CASE qApplied' = Append(qApplied, m)
  <2>1. ASSUME NEW k \in DOMAIN qApplied'
        PROVE  (k \in DOMAIN qApplied /\ qApplied'[k] = qApplied[k]) \/ qApplied'[k] = m
    BY <1>1, <1>11, <2>1
  <2>2. \A l \in DOMAIN qApplied :
            /\ ctr'[qApplied[l].id].ran
            /\ qApplied[l].new # NoDigest => ctr'[qApplied[l].id].runs = qApplied[l].new
    <3>1. \A l \in DOMAIN qApplied : qApplied[l].id \in Id
      BY AppliedIds
    <3> QED BY <3>1 DEF KeepsRuns, RunInv, RanBorn, AppliedHasRun
  <2>3. ASSUME NEW k \in DOMAIN qApplied'
        PROVE  /\ ctr'[qApplied'[k].id].ran
               /\ qApplied'[k].new # NoDigest =>
                    ctr'[qApplied'[k].id].runs = qApplied'[k].new
    <3>1. CASE qApplied'[k] = m
      BY <1>7, <1>8, <3>1
    <3> QED BY <2>1, <2>2, <3>1
  <2> QED BY <2>3 DEF AppliedHasRun
<1> QED BY <1>9, <1>10, <1>11 DEF Publish

LEMMA AppliedKept ==
    ASSUME TypeInv, RunInv, [Next]_vars PROVE AppliedHasRun'
<1>1. KeepsRuns
  BY NextRuns
<1>2. CASE qApplied' = qApplied
  BY <1>1, <1>2, AppliedStays
<1>3. CASE qApplied' = <<>>
  BY <1>3 DEF AppliedHasRun
<1>4. CASE Exec
  <2>1. CASE ExecPublish
    BY <1>1, <1>4, <2>1, PublishRuns
  <2> QED BY <1>2, <1>4, <2>1 DEF Exec, ExecutorStep, ExecIgnore, ExecApply, ExecFail,
          ExecSucceed, ExecRekey
<1>5. CASE Monitor
  <2>1. CASE MonStart
    <3>1. qApplied' = Tail(qApplied) /\ qApplied # <<>>
          /\ qApplied \in Seq(UpdateApplied)
      BY <2>1 DEF MonStart, TypeInv, Typed, TopicsTypeOK
    <3>2. \A k \in DOMAIN qApplied' : k + 1 \in DOMAIN qApplied
                                      /\ qApplied'[k] = qApplied[k + 1]
      <4> HIDE DEF UpdateApplied
      <4> QED BY <3>1
    <3> QED BY <1>1, <3>2, AppliedStays
  <2> QED BY <1>2, <1>5, <2>1 DEF Monitor, HealthMonStep, MonDetect, MonReport,
          MonExpire
<1>6. CASE Panic \/ Crash
  BY <1>3, <1>6 DEF Panic, Crash, Down, MemoryEmpty
<1>7. CASE Seed \/ Subscribe \/ Rb \/ Watch \/ UNCHANGED vars
  BY <1>2, <1>7 DEF Seed, Subscribe, Rb, RollbackStep, Watch, WatcherStep, vars,
     topicVars
<1>8. CASE (\E a \in Actor : Calls(a)) \/ CallError
  BY <1>2, <1>8 DEF Calls, CallError, topicVars
<1>9. CASE \E s \in Slot : Serve(s) \/ Ask(s)
  BY <1>2, <1>9 DEF Serve, RequestStep, Ask
<1>10. CASE Release \/ HostPull \/ Sicken \/ HandRemove \/ HandRestart \/ HandRun
  BY <1>2, <1>10 DEF Release, HostPull, Sicken, HandRemove, HandRestart, HandRun,
     topicVars
<1> QED BY <1>4, <1>5, <1>6, <1>7, <1>8, <1>9, <1>10 DEF Next, Rest

LEMMA RunKept == TypeInv /\ RunInv /\ [Next]_vars => RunInv'
<1> SUFFICES ASSUME TypeInv, RunInv, [Next]_vars PROVE RunInv'
  OBVIOUS
<1>1. RanBorn'
  <2>1. KeepsRuns /\ Lives
    BY NextRuns, NextLives
  <2> QED BY <2>1 DEF KeepsRuns, Lives, RanBorn
<1> QED BY <1>1, TasksRunKept, RefsKept, AppliedKept DEF RunInv

\* Whatever has run was there, and nobody is doing anything.
LEMMA RunInit == Init => RunInv
<1> SUFFICES ASSUME Init PROVE RunInv
  OBVIOUS
<1>1. \A i \in Id : ctr[i] = Unborn \/ \E n : ctr[i] = RunBare(n)
  BY DEF Init
<1>2. \A n : RunBare(n).st # "none"
  BY DEF RunBare
<1>3. ~Unborn.ran
  BY DEF Unborn
<1>4. exec.pc = "idle" /\ rb.pc = "idle" /\ qApplied = <<>>
  BY DEF Init, ExecIdle, RbIdle
<1>5. \A a \in Actor : task[a].pc = "idle"
  BY DEF Init, NoTask
<1> QED BY <1>1, <1>2, <1>3, <1>4, <1>5
        DEF RunInv, RanBorn, TasksRun, TaskRuns, RefsPinned, AppliedHasRun

\* An update.applied event names a container that was started and that runs
\* the digest the event names: the executor pins the reference it pulls, so
\* that no release, crash or hand between the pull and the event makes the
\* report wrong.
THEOREM AppliedHasRunHolds == Spec => []AppliedHasRun
<1>1. RunInv => AppliedHasRun
  BY DEF RunInv
<1> QED BY <1>1, TypeInvHolds, RunInit, RunKept, PTL DEF Spec

-----------------------------------------------------------------------------
(* What the rings hold.                                                    *)

\* A ring holds what was pushed and nothing but what it held.
LEMMA PushedFrom ==
    ASSUME NEW h \in Seq(Image), NEW d \in Image
    PROVE  \A k \in DOMAIN Pushed(h, d) :
               Pushed(h, d)[k] = d \/ \E l \in DOMAIN h : Pushed(h, d)[k] = h[l]
<1> DEFINE all == <<d>> \o h
<1>1. /\ all \in Seq(Image) /\ Len(all) = Len(h) + 1
      /\ \A i \in 1..Len(all) : all[i] = d \/ \E l \in DOMAIN h : all[i] = h[l]
  <2>1. <<d>> \in Seq(Image) /\ Len(<<d>>) = 1 /\ <<d>>[1] = d
    OBVIOUS
  <2>2. /\ all \in Seq(Image) /\ Len(all) = 1 + Len(h)
        /\ \A i \in 1..(1 + Len(h)) :
             all[i] = IF i <= 1 THEN <<d>>[i] ELSE h[i - 1]
    BY <2>1, ConcatProperties
  <2> HIDE DEF all
  <2>3. ASSUME NEW i \in 1..Len(all)
        PROVE  all[i] = d \/ \E l \in DOMAIN h : all[i] = h[l]
    <3>1. CASE i = 1
      BY <2>1, <2>2, <3>1
    <3>2. CASE i # 1
      <4>1. i - 1 \in DOMAIN h /\ all[i] = h[i - 1]
        BY <2>2, <3>2
      <4> QED BY <4>1
    <3> QED BY <3>1, <3>2
  <2> QED BY <2>2, <2>3
<1>2. RingSize \in Nat \ {0}
  BY StoreAssumption DEF StoreAssumption
<1>3. CASE Len(all) > RingSize
  <2>1. /\ Len(SubSeq(all, 1, RingSize)) = RingSize
        /\ SubSeq(all, 1, RingSize) \in Seq(Image)
        /\ \A i \in 1..RingSize : SubSeq(all, 1, RingSize)[i] = all[i]
    <3> HIDE DEF all
    <3>1. \A i \in 1..RingSize : all[i] \in Image
      BY <1>1, <1>2, <1>3
    <3> QED BY <3>1, <1>2, SubSeqProperties
  <2>2. DOMAIN SubSeq(all, 1, RingSize) = 1..RingSize
    <3> HIDE DEF all
    <3> QED BY <2>1
  <2>3. Pushed(h, d) = SubSeq(all, 1, RingSize)
    BY <1>3 DEF Pushed
  <2> HIDE DEF all
  <2> QED BY <1>1, <1>2, <1>3, <2>1, <2>2, <2>3
<1>4. CASE ~(Len(all) > RingSize)
  <2>1. Pushed(h, d) = all
    BY <1>4 DEF Pushed
  <2> HIDE DEF all
  <2> QED BY <1>1, <2>1
<1> QED BY <1>3, <1>4

\* The states of the heap keep their names and rings, new ones have none.
RingsKept ==
    /\ Len(heap') >= Len(heap)
    /\ \A q \in 1..Len(heap') :
         IF q \in Ptr
         THEN heap'[q].name = heap[q].name /\ heap'[q].hist = heap[q].hist
         ELSE heap'[q].hist = <<>>

LEMMA RekeyRings ==
    ASSUME StoreTypeOK, NEW i \in Id, NEW j \in Id, Rekey(i, j)
    PROVE  RingsKept
<1>1. heap \in Seq(Entry) /\ keys \in [Id -> Nat] /\ Len(heap) \in Nat
      /\ \A k \in Id : keys[k] # 0 => keys[k] \in 1..Len(heap)
  BY DEF StoreTypeOK, Ptr
<1>2. CASE keys[i] = 0
  BY <1>1, <1>2 DEF Rekey, storeVars, RingsKept, Ptr
<1>3. CASE keys[i] # 0
  <2>1. PICK p \in 1..Len(heap) : p = keys[i]
    BY <1>1, <1>3
  <2>2. PICK e : e = [heap[p] EXCEPT !.id = j]
    OBVIOUS
  <2>3. heap[p] \in Entry
    BY <1>1
  <2>4. e.hist = heap[p].hist /\ e.name = heap[p].name
    BY <2>2, <2>3 DEF Entry
  <2>5. heap' = [heap EXCEPT ![p] = e]
    BY <1>3, <2>1, <2>2 DEF Rekey
  <2>6. Len(heap') = Len(heap) /\ heap'[p] = e
        /\ \A q \in 1..Len(heap) : q # p => heap'[q] = heap[q]
    BY <1>1, <2>5
  <2> QED BY <1>1, <2>4, <2>6 DEF RingsKept, Ptr
<1> QED BY <1>2, <1>3

LEMMA UpsertRings ==
    ASSUME StoreTypeOK, StoreInv, NEW i \in Id, NEW n, NEW img,
           Upsert(i, n, img), ctr[i].name = n
    PROVE  RingsKept
<1>1. heap \in Seq(Entry) /\ keys \in [Id -> Nat] /\ Len(heap) \in Nat
      /\ \A k \in Id : keys[k] # 0 => keys[k] \in 1..Len(heap)
  BY DEF StoreTypeOK, Ptr
<1>2. CASE keys[i] = 0
  <2>1. PICK e : e = [id |-> i, name |-> n, image |-> img, hist |-> <<>>]
    OBVIOUS
  <2>2. heap' = Append(heap, e) /\ e.hist = <<>>
    BY <1>2, <2>1 DEF Upsert
  <2>3. Len(heap') = Len(heap) + 1 /\ heap'[Len(heap) + 1] = e
        /\ \A q \in 1..Len(heap) : heap'[q] = heap[q]
    BY <1>1, <2>2
  <2> QED BY <1>1, <2>2, <2>3 DEF RingsKept, Ptr
<1>3. CASE keys[i] # 0
  <2>1. PICK p \in 1..Len(heap) : p = keys[i]
    BY <1>1, <1>3
  <2>2. PICK e : e = [heap[p] EXCEPT !.name = n, !.image = img]
    OBVIOUS
  <2>3. heap[p] \in Entry
    BY <1>1
  <2>4. e.hist = heap[p].hist /\ e.name = n
    BY <2>2, <2>3 DEF Entry
  <2>5. heap[p].name = n
    BY <1>3, <2>1 DEF StoreInv, NamesMatch
  <2>6. heap' = [heap EXCEPT ![p] = e]
    BY <1>3, <2>1, <2>2 DEF Upsert
  <2>7. Len(heap') = Len(heap) /\ heap'[p] = e
        /\ \A q \in 1..Len(heap) : q # p => heap'[q] = heap[q]
    BY <1>1, <2>6
  <2> QED BY <1>1, <2>4, <2>5, <2>7 DEF RingsKept, Ptr
<1> QED BY <1>2, <1>3

\* A push puts the digest into one ring and renames nothing.
PushesRing(p, d) ==
    /\ Len(heap') = Len(heap)
    /\ \A q \in Ptr :
         /\ heap'[q].name = heap[q].name
         /\ IF q = p THEN heap'[q].hist = Pushed(heap[q].hist, d)
            ELSE heap'[q].hist = heap[q].hist

LEMMA PushRings ==
    ASSUME StoreTypeOK, NEW p \in Nat, NEW d, PushDigest(p, d)
    PROVE  PushesRing(p, d)
<1>1. heap \in Seq(Entry) /\ Len(heap) \in Nat
  BY DEF StoreTypeOK
<1>2. PICK e : e = [heap[p] EXCEPT !.hist = Pushed(heap[p].hist, d)]
  OBVIOUS
<1>3. heap' = [heap EXCEPT ![p] = e]
  BY <1>2 DEF PushDigest
<1>4. Len(heap') = Len(heap)
      /\ \A q \in Ptr : heap'[q] = IF q = p THEN e ELSE heap[q]
  BY <1>1, <1>3 DEF Ptr
<1>5. p \in Ptr => e.name = heap[p].name /\ e.hist = Pushed(heap[p].hist, d)
  <2>1. p \in Ptr => heap[p] \in Entry
    BY <1>1 DEF Ptr
  <2> QED BY <1>2, <2>1 DEF Entry
<1> QED BY <1>4, <1>5 DEF PushesRing

\* What a step does to the rings.
LEMMA NextRings ==
    ASSUME TypeInv, StoreInv, [Next]_vars
    PROVE  \/ RingsKept
           \/ Panic \/ Crash
           \/ Exec /\ ExecPublish /\ PushesRing(exec.cs, exec.p.new)
           \/ Rb /\ RbPublish /\ rb.cs # 0 /\ PushesRing(rb.cs, rb.p.prev)
           \/ \E s \in Slot : /\ Serve(s) /\ CompareSeed(s)
                              /\ PushesRing(req[s].p, req[s].cur)
<1>1. StoreTypeOK /\ Len(heap) \in Nat
  BY DEF TypeInv, Typed, StoreTypeOK
<1>2. CASE heap' = heap
  BY <1>1, <1>2 DEF RingsKept, Ptr
<1>3. CASE Exec
  <2>1. CASE ExecRekey
    <3>1. exec.p.id \in Id /\ task["exec"].new \in Id
      BY <2>1 DEF ExecRekey, TypeInv, ExecKnown, TasksKnown, TaskKnown, Actor,
         ImageUpdated
    <3> QED BY <1>1, <2>1, <3>1, RekeyRings DEF ExecRekey
  <2>2. CASE ExecPublish
    <3>1. exec.cs \in Nat
      BY DEF TypeInv, Typed, ExecutorTypeOK
    <3> QED BY <1>1, <1>3, <2>2, <3>1, PushRings DEF ExecPublish
  <2> QED BY <1>2, <1>3, <2>1, <2>2 DEF Exec, ExecutorStep, ExecIgnore, ExecApply,
          ExecFail, ExecSucceed, storeVars
<1>4. CASE Rb
  <2>1. CASE RbRekey
    <3>1. rb.p.id \in Id /\ task["rb"].new \in Id
      BY <2>1 DEF RbRekey, TypeInv, RbKnown, TasksKnown, TaskKnown, Actor, Unhealthy
    <3> QED BY <1>1, <2>1, <3>1, RekeyRings DEF RbRekey
  <2>2. CASE RbPublish
    <3>1. rb.cs \in Nat
      BY DEF TypeInv, Typed, RollbackTypeOK
    <3> QED BY <1>1, <1>2, <1>4, <2>2, <3>1, PushRings DEF RbPublish
  <2> QED BY <1>2, <1>4, <2>1, <2>2 DEF Rb, RollbackStep, RbAbort, RbRestore, RbFail,
          storeVars
<1>5. CASE Watch
  <2>1. CASE WatchUpsert
    <3>1. wat.id \in Id /\ ctr[wat.id].name = wat.name
      BY <2>1 DEF WatchUpsert, TypeInv, WatKnown
    <3> QED BY <1>1, <2>1, <3>1, UpsertRings DEF WatchUpsert
  <2> QED BY <1>2, <1>5, <2>1 DEF Watch, WatcherStep, WatchStart, WatchDestroy, Remove,
          WatchUnhealthy, WatchReport, WatchPull, WatchPullOne, WatchPullDone, storeVars
<1>6. ASSUME NEW s \in Slot, Serve(s), heap' # heap
      PROVE  CompareSeed(s) /\ PushesRing(req[s].p, req[s].cur)
  <2>1. CompareSeed(s)
    BY <1>6 DEF Serve, RequestStep, SendOne, SendDone, SweepHead, SweepDone,
       ServiceHead, CompareRead, CompareAct, UpdateHead, RollbackSend, storeVars
  <2>2. req[s].p \in Nat
    BY DEF TypeInv, Typed, TriggersTypeOK, Request
  <2> QED BY <1>1, <2>1, <2>2, PushRings DEF CompareSeed
<1>7. CASE \E s \in Slot : Ask(s)
  BY <1>2, <1>7 DEF Ask, PushBegin, HubBegin, SweepBegin, ServiceBegin, UpdateBegin,
     RollbackBegin, storeVars
<1>8. CASE Seed
  <2>1. heap = <<>>
    BY <1>8 DEF Seed, TypeInv, DownIsEmpty
  <2>2. DOMAIN heap' = Id /\ Id = 1..MaxId /\ MaxId \in Nat
    BY <1>8, DockerAssumption DEF Seed, SeedStore, Id, DockerAssumption
  <2>3. \A q \in Id : heap'[q].hist = <<>>
    BY <1>8 DEF Seed, SeedStore
  <2>4. heap' \in Seq(Entry)
    BY <1>8, NextTyped DEF Next, TypeInv, Typed, StoreTypeOK
  <2>5. Len(heap') = MaxId
    BY <2>2, <2>4
  <2> QED BY <2>1, <2>2, <2>3, <2>5 DEF RingsKept, Ptr
<1>9. CASE Subscribe \/ Monitor \/ (\E a \in Actor : Calls(a)) \/ CallError
  BY <1>2, <1>9 DEF Subscribe, Monitor, HealthMonStep, Calls, CallError, storeVars
<1>10. CASE Release \/ HostPull \/ Sicken \/ HandRemove \/ HandRestart \/ HandRun
  BY <1>2, <1>10 DEF Release, HostPull, Sicken, HandRemove, HandRestart, HandRun,
     storeVars
<1>11. CASE UNCHANGED vars
  BY <1>2, <1>11 DEF vars, storeVars
<1> QED BY <1>2, <1>3, <1>4, <1>5, <1>6, <1>7, <1>8, <1>9, <1>10, <1>11
        DEF Next, Rest

\* What has run under a name stays so.
LEMMA RanStays ==
    ASSUME TypeInv, RunInv, KeepsRuns, Lives, NEW n, NEW d, HasRun(n, d)
    PROVE  RanOn(ctr', n, d)
BY DEF KeepsRuns, Lives, RunInv, RanBorn, HasRun, RanOn

\* Rings that nobody pushed to.
LEMMA RingsStay ==
    ASSUME TypeInv, RunInv, RingsRan, KeepsRuns, Lives, RingsKept
    PROVE  RingsRan'
<1>1. ASSUME NEW q \in 1..Len(heap'), heap'[q].name \notin PollMode,
             NEW k \in DOMAIN heap'[q].hist, heap'[q].hist[k] # NoDigest
      PROVE  RanOn(ctr', heap'[q].name, heap'[q].hist[k])
  <2>1. q \in Ptr /\ heap'[q].name = heap[q].name /\ heap'[q].hist = heap[q].hist
    BY <1>1 DEF RingsKept
  <2>2. HasRun(heap[q].name, heap[q].hist[k])
    BY <1>1, <2>1 DEF RingsRan, RingRan
  <2>3. RanOn(ctr', heap[q].name, heap[q].hist[k])
    BY <2>2, RanStays
  <2> QED BY <2>1, <2>3
<1> QED BY <1>1 DEF RingsRan, RingRan, HasRun, Ptr

\* A push of what has run, or to the ring of a polled service.
LEMMA RingsPushed ==
    ASSUME TypeInv, RunInv, RingsRan, KeepsRuns, Lives,
           NEW p \in Nat, NEW d \in Image, PushesRing(p, d),
           p \in Ptr /\ heap[p].name \notin PollMode /\ d # NoDigest
               => HasRun(heap[p].name, d)
    PROVE  RingsRan'
<1>1. heap \in Seq(Entry)
  BY DEF TypeInv, Typed, StoreTypeOK
<1>2. ASSUME NEW q \in 1..Len(heap'), heap'[q].name \notin PollMode,
             NEW k \in DOMAIN heap'[q].hist, heap'[q].hist[k] # NoDigest
      PROVE  RanOn(ctr', heap'[q].name, heap'[q].hist[k])
  <2>1. q \in Ptr /\ heap'[q].name = heap[q].name
    BY <1>2 DEF PushesRing, Ptr
  <2>2. heap[q].hist \in Seq(Image)
    <3>1. heap[q] \in Entry
      BY <1>1, <2>1 DEF Ptr
    <3> QED BY <3>1 DEF Entry
  <2>3. \A l \in DOMAIN heap[q].hist :
            heap[q].hist[l] # NoDigest => HasRun(heap[q].name, heap[q].hist[l])
    BY <1>2, <2>1 DEF RingsRan, RingRan
  <2>4. CASE q # p
    <3>1. heap'[q].hist = heap[q].hist
      BY <2>1, <2>4 DEF PushesRing
    <3>2. HasRun(heap[q].name, heap'[q].hist[k])
      BY <1>2, <2>3, <3>1
    <3> QED BY <2>1, <3>2, RanStays
  <2>5. CASE q = p
    <3>1. heap'[q].hist = Pushed(heap[q].hist, d)
      BY <2>1, <2>5 DEF PushesRing
    <3>2. heap'[q].hist[k] = d
          \/ \E l \in DOMAIN heap[q].hist : heap'[q].hist[k] = heap[q].hist[l]
      BY <1>2, <2>2, <3>1, PushedFrom
    <3>3. HasRun(heap[q].name, heap'[q].hist[k])
      BY <1>2, <2>1, <2>3, <2>5, <3>2
    <3> QED BY <2>1, <3>3, RanStays
  <2> QED BY <2>4, <2>5
<1> QED BY <1>2 DEF RingsRan, RingRan, HasRun, Ptr

\* The digest an actor has recreated a container on has run under its name.
LEMMA RanUnder ==
    ASSUME TypeInv, RunInv, NEW a \in Actor, task[a].pc = "done",
           NEW img \in Image, NEW d \in Image, task[a].ref = Pin(img, d),
           d # NoDigest
    PROVE  HasRun(ctr[task[a].id].name, d)
<1>1. task[a].name = ctr[task[a].id].name
  BY DEF TypeInv, TasksKnown, TaskKnown
<1> QED BY <1>1, DoneRuns DEF HasRun, RanOn

LEMMA RingsRanKept == ASSUME TypeInv, RingInv, [Next]_vars PROVE RingsRan'
<1>1. KeepsRuns /\ Lives /\ RunInv /\ StoreInv /\ RingsRan
  BY NextRuns, NextLives DEF RingInv
<1>2. CASE RingsKept
  BY <1>1, <1>2, RingsStay
<1>3. CASE Panic \/ Crash
  <2>1. heap' = <<>>
    BY <1>3 DEF Panic, Crash, Down
  <2> QED BY <2>1 DEF RingsRan, Ptr
<1>4. CASE Exec /\ ExecPublish /\ PushesRing(exec.cs, exec.p.new)
  <2>1. /\ task["exec"].pc = "done" /\ "exec" \in Actor /\ exec.cs \in Nat
        /\ task["exec"].id = exec.p.id /\ exec.p \in ImageUpdated
        /\ task["exec"].ref = Pin(exec.p.image, exec.p.new)
        /\ heap[exec.cs].name = ctr[exec.p.id].name
    BY <1>4 DEF ExecPublish, TypeInv, Typed, ExecutorTypeOK, ExecKnown, Actor,
       RingInv, RunInv, RefsPinned, PushNamed, ExecNamed, RbNamed
  <2>2. exec.p.image \in Image /\ exec.p.new \in Image
    BY <2>1 DEF ImageUpdated
  <2>3. exec.p.new # NoDigest => HasRun(heap[exec.cs].name, exec.p.new)
    BY <1>1, <2>1, <2>2, RanUnder
  <2> QED BY <1>1, <1>4, <2>1, <2>2, <2>3, RingsPushed
<1>5. CASE Rb /\ RbPublish /\ rb.cs # 0 /\ PushesRing(rb.cs, rb.p.prev)
  <2>1. /\ task["rb"].pc = "done" /\ "rb" \in Actor /\ rb.cs \in Nat
        /\ task["rb"].id = rb.p.id /\ rb.p \in Unhealthy
        /\ task["rb"].ref = Pin(rb.p.image, rb.p.prev)
        /\ heap[rb.cs].name = ctr[rb.p.id].name
    BY <1>5 DEF RbPublish, TypeInv, Typed, RollbackTypeOK, RbKnown, Actor,
       RingInv, RunInv, RefsPinned, PushNamed, ExecNamed, RbNamed
  <2>2. rb.p.image \in Image /\ rb.p.prev \in Image
    BY <2>1 DEF Unhealthy
  <2>3. rb.p.prev # NoDigest => HasRun(heap[rb.cs].name, rb.p.prev)
    BY <1>1, <2>1, <2>2, RanUnder
  <2> QED BY <1>1, <1>5, <2>1, <2>2, <2>3, RingsPushed
<1>6. ASSUME NEW s \in Slot, CompareSeed(s), PushesRing(req[s].p, req[s].cur)
      PROVE  RingsRan'
  <2>1. req[s].p \in Nat /\ req[s].cur \in Image
    BY DEF TypeInv, Typed, TriggersTypeOK, Request
  <2>2. heap[req[s].p].name \in PollMode
    BY <1>6 DEF CompareSeed, RingInv, SeedsPolled, SeedPolled
  <2> QED BY <1>1, <1>6, <2>1, <2>2, RingsPushed
<1> QED BY <1>1, <1>2, <1>3, <1>4, <1>5, <1>6, NextRings

\* A state's name is for life.
NamesKept == \A q \in Ptr : q \in 1..Len(heap') /\ heap'[q].name = heap[q].name

LEMMA NextNames ==
    ASSUME TypeInv, StoreInv, [Next]_vars PROVE NamesKept \/ Panic \/ Crash
<1>1. Len(heap) \in Nat /\ Len(heap') \in Nat
  BY NextTyped DEF TypeInv, Typed, StoreTypeOK
<1>2. RingsKept => NamesKept
  BY <1>1 DEF RingsKept, NamesKept, Ptr
<1>3. ASSUME NEW p, NEW d, PushesRing(p, d) PROVE NamesKept
  BY <1>1, <1>3 DEF PushesRing, NamesKept, Ptr
<1> QED BY <1>2, <1>3, NextRings

\* The executor reads the state of the container it replaces, and Rekey moves
\* the very state found under its id.
LEMMA ExecNamedKept ==
    ASSUME TypeInv, StoreInv, ExecNamed, Lives, NamesKept, [Next]_vars
    PROVE  ExecNamed'
<1>1. \A i \in Id : keys[i] # 0 =>
          keys[i] \in Ptr /\ heap[keys[i]].name = ctr[i].name /\ ctr[i].st # "none"
  BY DEF TypeInv, Typed, StoreTypeOK, StoreInv, NamesMatch
<1>2. exec.pc # "idle" => exec.p.id \in Id
  BY DEF TypeInv, ExecKnown, ImageUpdated
<1>3. CASE exec' = exec
  BY <1>2, <1>3 DEF ExecNamed, Lives, NamesKept, Ptr
<1>4. CASE Exec
  <2>1. CASE ExecApply
    <3>1. PICK i \in Id : i = Head(qImage).id
      <4>1. qImage \in Seq(ImageUpdated) /\ qImage # <<>>
        BY <2>1 DEF ExecApply, TypeInv, Typed, TopicsTypeOK
      <4>2. Head(qImage) \in ImageUpdated
        <5> HIDE DEF ImageUpdated
        <5> QED BY <4>1
      <4> QED BY <4>2 DEF ImageUpdated
    <3>2. exec'.p.id = i /\ exec'.cs = keys[i] /\ keys[i] # 0
      BY <2>1, <3>1 DEF ExecApply
    <3>3. exec'.cs \in 1..Len(heap')
      BY <1>1, <3>2 DEF NamesKept
    <3> QED BY <1>1, <3>2, <3>3 DEF ExecNamed, Lives, NamesKept, Ptr
  <2>2. CASE ExecRekey
    <3>1. /\ exec.pc # "idle" /\ exec'.p = exec.p
          /\ exec'.cs = IF keys[exec.p.id] = 0 THEN exec.cs ELSE keys[exec.p.id]
      BY <2>2 DEF ExecRekey, TypeInv, Typed, ExecutorTypeOK
    <3>2. /\ exec'.cs \in Ptr /\ heap[exec'.cs].name = ctr[exec.p.id].name
          /\ ctr[exec.p.id].st # "none"
      BY <1>1, <1>2, <3>1 DEF ExecNamed
    <3> QED BY <1>2, <3>1, <3>2 DEF ExecNamed, Lives, NamesKept, Ptr
  <2>3. CASE ExecSucceed
    <3>1. exec.pc # "idle" /\ exec'.p = exec.p /\ exec'.cs = exec.cs
      BY <2>3 DEF ExecSucceed, TypeInv, Typed, ExecutorTypeOK
    <3> QED BY <1>2, <3>1 DEF ExecNamed, Lives, NamesKept, Ptr
  <2>4. CASE ExecFail \/ ExecPublish
    BY <2>4 DEF ExecFail, ExecPublish, ExecIdle, ExecNamed
  <2> QED BY <1>3, <1>4, <2>1, <2>2, <2>3, <2>4 DEF Exec, ExecutorStep, ExecIgnore
<1>5. CASE Panic \/ Crash
  BY <1>5 DEF Panic, Crash, Down, MemoryEmpty, ExecIdle, ExecNamed
<1>6. CASE Seed \/ Subscribe \/ Rb \/ Watch \/ Monitor \/ UNCHANGED vars
  BY <1>3, <1>6 DEF Seed, Subscribe, Rb, Watch, Monitor, vars
<1>7. CASE (\E a \in Actor : Calls(a)) \/ CallError
  BY <1>3, <1>7 DEF Calls, CallError
<1>8. CASE \E s \in Slot : Serve(s) \/ Ask(s)
  BY <1>3, <1>8 DEF Serve, Ask
<1>9. CASE Release \/ HostPull \/ Sicken \/ HandRemove \/ HandRestart \/ HandRun
  BY <1>3, <1>9 DEF Release, HostPull, Sicken, HandRemove, HandRestart, HandRun
<1> QED BY <1>4, <1>5, <1>6, <1>7, <1>8, <1>9 DEF Next, Rest

\* So does the rollback engine, which has no state to push to when Rekey
\* finds none.
LEMMA RbNamedKept ==
    ASSUME TypeInv, StoreInv, RbNamed, Lives, NamesKept, [Next]_vars
    PROVE  RbNamed'
<1>1. \A i \in Id : keys[i] # 0 =>
          keys[i] \in Ptr /\ heap[keys[i]].name = ctr[i].name /\ ctr[i].st # "none"
  BY DEF TypeInv, Typed, StoreTypeOK, StoreInv, NamesMatch
<1>2. rb.pc = "push" => rb.p.id \in Id /\ ctr[rb.p.id].st # "none"
  BY DEF TypeInv, RbKnown, Unhealthy, TasksKnown, TaskKnown, Actor
<1>3. CASE rb' = rb
  BY <1>2, <1>3 DEF RbNamed, Lives, NamesKept, Ptr
<1>4. CASE Rb
  <2>1. CASE RbRekey
    <3>1. rb'.p = rb.p /\ rb'.cs = keys[rb.p.id] /\ rb.p.id \in Id
      BY <2>1 DEF RbRekey, TypeInv, Typed, RollbackTypeOK, RbKnown, Unhealthy
    <3> QED BY <1>1, <3>1 DEF RbNamed, Lives, NamesKept, Ptr
  <2>2. CASE rb'.pc # "push"
    BY <2>2 DEF RbNamed
  <2> QED BY <1>3, <1>4, <2>1, <2>2
          DEF Rb, RollbackStep, RbAbort, RbRestore, RbFail, RbPublish, RbIdle
<1>5. CASE Panic \/ Crash
  BY <1>5 DEF Panic, Crash, Down, MemoryEmpty, RbIdle, RbNamed
<1>6. CASE Seed \/ Subscribe \/ Exec \/ Watch \/ Monitor \/ UNCHANGED vars
  BY <1>3, <1>6 DEF Seed, Subscribe, Exec, Watch, Monitor, vars
<1>7. CASE (\E a \in Actor : Calls(a)) \/ CallError
  BY <1>3, <1>7 DEF Calls, CallError
<1>8. CASE \E s \in Slot : Serve(s) \/ Ask(s)
  BY <1>3, <1>8 DEF Serve, Ask
<1>9. CASE Release \/ HostPull \/ Sicken \/ HandRemove \/ HandRestart \/ HandRun
  BY <1>3, <1>9 DEF Release, HostPull, Sicken, HandRemove, HandRestart, HandRun
<1> QED BY <1>4, <1>5, <1>6, <1>7, <1>8, <1>9 DEF Next, Rest

LEMMA PushNamedKept == ASSUME TypeInv, RingInv, [Next]_vars PROVE PushNamed'
<1>1. Lives /\ StoreInv /\ ExecNamed /\ RbNamed
  BY NextLives DEF RingInv, PushNamed
<1>2. CASE Panic \/ Crash
  BY <1>2 DEF Panic, Crash, Down, MemoryEmpty, ExecIdle, RbIdle, PushNamed,
     ExecNamed, RbNamed
<1> QED BY <1>1, <1>2, NextNames, ExecNamedKept, RbNamedKept DEF PushNamed

\* A request that is not a service's check, or one of a polled service.
LEMMA ReqPolled ==
    ASSUME TypeInv, SeedsPolled, NamesKept, NEW s \in Slot, NEW r,
           req' = [req EXCEPT ![s] = r],
           r.pc = "sweep" => r.kind = "sweep",
           r.pc = "head" /\ r.kind = "service" => r.name \in PollMode,
           r.pc = "read" /\ r.kind = "service" =>
               r.p \in Ptr /\ heap[r.p].name \in PollMode,
           r.pc = "seed" => r.p \in Ptr /\ heap[r.p].name \in PollMode
    PROVE  SeedsPolled'
<1>1. req \in [Slot -> Request]
  BY DEF TypeInv, Typed, TriggersTypeOK
<1>2. req'[s] = r /\ \A t \in Slot : t # s => req'[t] = req[t]
  BY <1>1
<1>3. SeedPolled(req[s])'
  BY <1>2 DEF SeedPolled, NamesKept
<1>4. ASSUME NEW t \in Slot, t # s PROVE SeedPolled(req[t])'
  <2>1. SeedPolled(req[t]) /\ ReqKnown(req[t]) /\ req'[t] = req[t]
    BY <1>2, <1>4 DEF SeedsPolled, TypeInv, ReqsKnown
  <2>2. req[t].pc \in {"read", "seed"} => req[t].p \in Ptr
    BY <2>1 DEF ReqKnown, Ptr
  <2> QED BY <2>1, <2>2 DEF SeedPolled, NamesKept
<1> QED BY <1>3, <1>4 DEF SeedsPolled

LEMMA SeedsStay ==
    ASSUME TypeInv, SeedsPolled, NamesKept, req' = req PROVE SeedsPolled'
<1>1. ASSUME NEW t \in Slot PROVE SeedPolled(req[t])'
  <2>1. SeedPolled(req[t]) /\ ReqKnown(req[t]) /\ req'[t] = req[t]
    BY <1>1 DEF SeedsPolled, TypeInv, ReqsKnown
  <2>2. req[t].pc \in {"read", "seed"} => req[t].p \in Ptr
    BY <2>1 DEF ReqKnown, Ptr
  <2> QED BY <2>1, <2>2 DEF SeedPolled, NamesKept
<1> QED BY <1>1 DEF SeedsPolled

\* A request's own steps: the sweep's checks are not a service's, and what a
\* service's check found bears the service's name.
LEMMA ServePolled ==
    ASSUME TypeInv, SeedsPolled, NamesKept, NEW s \in Slot, RequestStep(s)
    PROVE  SeedsPolled'
<1> DEFINE r == req[s]
<1>1. /\ r \in Request /\ SeedPolled(r) /\ ReqKnown(r)
      /\ Tracked \subseteq Ptr /\ r.p \in Nat
  BY TrackedOnHeap
     DEF TypeInv, Typed, TriggersTypeOK, SeedsPolled, ReqsKnown, Ptr, Request
<1>2. CASE SendOne(s)
  <2>1. PICK t : req' = [req EXCEPT ![s] = [r EXCEPT !.todo = t]]
    BY <1>2 DEF SendOne, Set
  <2>2. [r EXCEPT !.todo = t].pc = "send"
    BY <1>1, <1>2 DEF SendOne, Request
  <2> QED BY <2>1, <2>2, ReqPolled
<1>3. CASE req' = [req EXCEPT ![s] = NoReq]
  <2>1. NoReq.pc = "idle"
    BY DEF NoReq
  <2> QED BY <1>3, <2>1, ReqPolled
<1>4. CASE SweepHead(s)
  <2>1. r.kind = "sweep" /\ r.pc = "sweep"
    BY <1>1, <1>4 DEF SweepHead, SeedPolled
  <2>2. ASSUME NEW e, req' = [req EXCEPT ![s] = e],
               e.kind = "sweep", e.pc \in {"read", "sweep"}
        PROVE  SeedsPolled'
    BY <2>2, ReqPolled
  <2>3. PICK p \in r.todo :
          \/ req' = [req EXCEPT ![s] =
                        [r EXCEPT !.pc = "read", !.p = p, !.todo = r.todo \ {p},
                                  !.dig = reg[heap[p].name]]]
          \/ req' = [req EXCEPT ![s] = [r EXCEPT !.todo = r.todo \ {p}]]
    BY <1>4, Zenon DEF SweepHead, Set
  <2>4. PICK e : /\ req' = [req EXCEPT ![s] = e]
                 /\ \/ e = [r EXCEPT !.pc = "read", !.p = p, !.todo = r.todo \ {p},
                                     !.dig = reg[heap[p].name]]
                    \/ e = [r EXCEPT !.todo = r.todo \ {p}]
    BY <2>3, Zenon
  <2>5. e.kind = "sweep" /\ e.pc \in {"read", "sweep"}
    BY <1>1, <2>1, <2>4 DEF Request
  <2> QED BY <2>2, <2>4, <2>5
<1>5. CASE ServiceHead(s)
  <2>1. CASE \E p \in Tracked : \E d : heap[p].name = r.name /\
               req' = [req EXCEPT ![s] = [r EXCEPT !.pc = "read", !.p = p, !.dig = d]]
    <3>0. PICK p \in Tracked : \E d : heap[p].name = r.name /\
            req' = [req EXCEPT ![s] = [r EXCEPT !.pc = "read", !.p = p, !.dig = d]]
      BY <2>1
    <3>1. PICK d, e :
            /\ heap[p].name = r.name /\ req' = [req EXCEPT ![s] = e]
            /\ e = [r EXCEPT !.pc = "read", !.p = p, !.dig = d]
      BY <3>0
    <3>2. e.pc = "read" /\ e.p = p
      BY <1>1, <3>1 DEF Request
    <3>3. r.name \in PollMode
      BY <1>1, <1>5 DEF ServiceHead, SeedPolled
    <3> QED BY <1>1, <3>1, <3>2, <3>3, ReqPolled
  <2> QED BY <1>3, <1>5, <2>1 DEF ServiceHead, Set
<1>6. CASE CompareRead(s)
  <2>1. r.p \in Ptr /\ r.pc = "read"
    BY <1>1, <1>6 DEF CompareRead, ReqKnown, Ptr
  <2>2. PICK e, d : /\ req' = [req EXCEPT ![s] = e]
                    /\ \/ r.kind = "service" /\ e = [r EXCEPT !.pc = "seed"]
                       \/ e = [r EXCEPT !.pc = "act", !.cur = d]
    BY <1>6 DEF CompareRead, Set
  <2>3. CASE r.kind = "service" /\ e = [r EXCEPT !.pc = "seed"]
    <3>1. e.pc = "seed" /\ e.p = r.p
      BY <1>1, <2>3 DEF Request
    <3>2. heap[r.p].name \in PollMode
      BY <1>1, <2>1, <2>3 DEF SeedPolled
    <3> QED BY <2>1, <2>2, <3>1, <3>2, ReqPolled
  <2>4. CASE e = [r EXCEPT !.pc = "act", !.cur = d]
    <3>1. e.pc = "act"
      BY <1>1, <2>4 DEF Request
    <3> QED BY <2>2, <3>1, ReqPolled
  <2> QED BY <2>2, <2>3, <2>4
<1>7. CASE CompareSeed(s)
  <2>1. PICK e : /\ req' = [req EXCEPT ![s] = e] /\ e = [r EXCEPT !.pc = "act"]
    BY <1>7 DEF CompareSeed, Set
  <2>2. e.pc = "act"
    BY <1>1, <2>1 DEF Request
  <2> QED BY <2>1, <2>2, ReqPolled
<1>8. CASE CompareAct(s)
  <2>1. CASE r.kind = "sweep"
    <3>1. PICK e : /\ req' = [req EXCEPT ![s] = e]
                   /\ e = [r EXCEPT !.pc = "sweep", !.p = 0,
                                    !.cur = NoDigest, !.dig = NoDigest]
      BY <1>8, <2>1 DEF CompareAct, Set
    <3>2. e.pc = "sweep" /\ e.kind = "sweep"
      BY <1>1, <2>1, <3>1 DEF Request
    <3> QED BY <3>1, <3>2, ReqPolled
  <2> QED BY <1>3, <1>8, <2>1 DEF CompareAct, Set
<1>9. CASE UpdateHead(s)
  <2>1. PICK e, d : /\ req' = [req EXCEPT ![s] = e]
                    /\ e = [r EXCEPT !.pc = "act", !.dig = d]
    BY <1>9 DEF UpdateHead, Set
  <2>2. e.pc = "act"
    BY <1>1, <2>1 DEF Request
  <2> QED BY <2>1, <2>2, ReqPolled
<1>10. CASE SendDone(s) \/ SweepDone(s) \/ RollbackSend(s)
  BY <1>3, <1>10 DEF SendDone, SweepDone, RollbackSend, Set
<1> QED BY <1>2, <1>4, <1>5, <1>6, <1>7, <1>8, <1>9, <1>10 DEF RequestStep

\* A check of a service is only begun for one whose row says poll.
LEMMA AskPolled ==
    ASSUME TypeInv, SeedsPolled, NamesKept, NEW s \in Slot, Ask(s)
    PROVE  SeedsPolled'
<1>1. CASE \E n \in Name, d \in Digest : PushBegin(s, n, d)
  <2>1. CASE req' = req
    BY <2>1, SeedsStay
  <2>2. ASSUME NEW e, NEW n, NEW d, NEW t, req' = [req EXCEPT ![s] = e],
               e = [NoReq EXCEPT !.pc = "send", !.kind = "push", !.name = n,
                                 !.dig = d, !.todo = t]
        PROVE  SeedsPolled'
    <3>1. e.pc = "send"
      BY <2>2 DEF NoReq
    <3> QED BY <2>2, <3>1, ReqPolled
  <2> QED BY <1>1, <2>1, <2>2 DEF PushBegin, Set
<1>2. CASE \E n \in Name : HubBegin(s, n)
  <2>1. ASSUME NEW e, NEW n, NEW t, req' = [req EXCEPT ![s] = e],
               e = [NoReq EXCEPT !.pc = "send", !.kind = "hub", !.name = n,
                                 !.todo = t]
        PROVE  SeedsPolled'
    <3>1. e.pc = "send"
      BY <2>1 DEF NoReq
    <3> QED BY <2>1, <3>1, ReqPolled
  <2> QED BY <1>2, <2>1 DEF HubBegin, Set
<1>3. CASE SweepBegin(s)
  <2>1. PICK e, t : /\ req' = [req EXCEPT ![s] = e]
                    /\ e = [NoReq EXCEPT !.pc = "sweep", !.kind = "sweep", !.todo = t]
    BY <1>3 DEF SweepBegin, Set
  <2>2. e.pc = "sweep" /\ e.kind = "sweep"
    BY <2>1 DEF NoReq
  <2> QED BY <2>1, <2>2, ReqPolled
<1>4. CASE \E n \in Name : ServiceBegin(s, n)
  <2>1. ASSUME NEW e, NEW n \in PollMode, NEW d, req' = [req EXCEPT ![s] = e],
               e = [NoReq EXCEPT !.pc = "head", !.kind = "service", !.name = n,
                                 !.cur = d]
        PROVE  SeedsPolled'
    <3>1. e.pc = "head" /\ e.name = n
      BY <2>1 DEF NoReq
    <3> QED BY <2>1, <3>1, ReqPolled
  <2> QED BY <1>4, <2>1 DEF ServiceBegin, Set
<1>5. CASE \E i \in Id : UpdateBegin(s, i)
  <2>1. ASSUME NEW e, NEW p, NEW d, req' = [req EXCEPT ![s] = e],
               e = [NoReq EXCEPT !.pc = "head", !.kind = "update", !.p = p,
                                 !.cur = d]
        PROVE  SeedsPolled'
    <3>1. e.pc = "head" /\ e.kind = "update"
      BY <2>1 DEF NoReq
    <3> QED BY <2>1, <3>1, ReqPolled
  <2> QED BY <1>5, <2>1 DEF UpdateBegin, Set
<1>6. CASE \E i \in Id : RollbackBegin(s, i)
  <2>1. ASSUME NEW e, NEW p, NEW d, req' = [req EXCEPT ![s] = e],
               e = [NoReq EXCEPT !.pc = "rollback", !.kind = "rollback", !.p = p,
                                 !.cur = d]
        PROVE  SeedsPolled'
    <3>1. e.pc = "rollback" /\ e.kind = "rollback"
      BY <2>1 DEF NoReq
    <3> QED BY <2>1, <3>1, ReqPolled
  <2> QED BY <1>6, <2>1 DEF RollbackBegin, Set
<1> QED BY <1>1, <1>2, <1>3, <1>4, <1>5, <1>6 DEF Ask

LEMMA SeedsKept == ASSUME TypeInv, RingInv, [Next]_vars PROVE SeedsPolled'
<1>1. CASE Panic \/ Crash
  <2>1. \A s \in Slot : req'[s].pc = "idle"
    BY <1>1 DEF Panic, Crash, Down, MemoryEmpty, NoReq
  <2> QED BY <2>1 DEF SeedsPolled, SeedPolled
<1>2. CASE NamesKept
  <2>1. SeedsPolled
    BY DEF RingInv
  <2>2. CASE req' = req
    BY <1>2, <2>1, <2>2, SeedsStay
  <2>3. CASE \E s \in Slot : Serve(s) \/ Ask(s)
    BY <1>2, <2>1, <2>3, ServePolled, AskPolled DEF Serve
  <2>4. CASE Seed \/ Subscribe \/ Exec \/ Rb \/ Watch \/ Monitor \/ UNCHANGED vars
    BY <2>2, <2>4 DEF Seed, Subscribe, Exec, Rb, Watch, Monitor, vars
  <2>5. CASE (\E a \in Actor : Calls(a)) \/ CallError
    BY <2>2, <2>5 DEF Calls, CallError
  <2>6. CASE Release \/ HostPull \/ Sicken \/ HandRemove \/ HandRestart \/ HandRun
    BY <2>2, <2>6 DEF Release, HostPull, Sicken, HandRemove, HandRestart, HandRun
  <2> QED BY <1>1, <2>3, <2>4, <2>5, <2>6 DEF Next, Rest
<1> QED BY <1>1, <1>2, NextNames DEF RingInv

LEMMA RingKept == TypeInv /\ RingInv /\ [Next]_vars => RingInv'
BY RunKept, StoreKept, PushNamedKept, SeedsKept, RingsRanKept DEF RingInv

\* There is no state yet.
LEMMA RingInit == Init => RingInv
<1> SUFFICES ASSUME Init PROVE RingInv
  OBVIOUS
<1>1. heap = <<>> /\ exec.pc = "idle" /\ rb.pc = "idle"
  BY DEF Init, ExecIdle, RbIdle
<1>2. \A s \in Slot : req[s].pc = "idle"
  BY DEF Init, NoReq
<1>3. RingsRan
  BY <1>1 DEF RingsRan, Ptr
<1> QED BY <1>1, <1>2, <1>3, RunInit, StoreInit
        DEF RingInv, PushNamed, ExecNamed, RbNamed, SeedsPolled, SeedPolled

\* What the store offers as the digest to roll back to has really run under
\* the service's name, whoever pushed it and wherever Rekey and the watcher
\* moved the state meanwhile; the poller's seed is the exception.
THEOREM RingHasRunHolds == Spec => []RingHasRun
<1>1. TypeInv /\ RingInv => RingHasRun
  <2> SUFFICES ASSUME TypeInv, RingInv PROVE RingHasRun
    OBVIOUS
  <2>1. Tracked \subseteq Ptr
    BY TrackedOnHeap DEF TypeInv, Typed, Ptr
  <2> QED BY <2>1 DEF RingInv, RingsRan, RingRan, HasRun, RanOn, RingHasRun
<1> QED BY <1>1, TypeInvHolds, RingInit, RingKept, PTL DEF Spec

-----------------------------------------------------------------------------
(* No service is left down.                                                *)

\* A container's life is what it was, its name too.
SameLife(i) == ctr'[i].st = ctr[i].st /\ ctr'[i].name = ctr[i].name

\* Nothing but container j changed its life; NoId is none of them.
LivesBut(j) == \A i \in Id : i # j => SameLife(i)

\* The service runs now, or has been given up.
Settled(n) == Running(n)' \/ n \in lost'

\* A service given up stays so, unless it runs.
StayLost == \A n \in lost : Settled(n)

\* Whoever moved attended to no other container, or its service is settled.
FreesBut(j) ==
    \A b \in Actor :
        \/ task'[b] = task[b]
        \/ \A i \in Id : i # j /\ Attends(b, i) => Settled(ctr[i].name)

\* Whoever moved owed no other service a container, or that one is settled.
PaysBut(n) ==
    \A b \in Actor :
        \/ task'[b] = task[b]
        \/ \A m \in Name : m # n /\ Owes(b, m) => Settled(m)

\* The container an actor attends to bears the name the actor works on.
LEMMA AttendsName ==
    ASSUME TypeInv, NEW a \in Actor, NEW i \in Id, Attends(a, i)
    PROVE  task[a].name = ctr[i].name /\ task[a].name \in Name
BY DEF Attends, TypeInv, TasksKnown, TaskKnown

\* Only container j changed, into one whose name was free or its own.
LEMMA OneStays ==
    ASSUME OneEach, NEW j, LivesBut(j),
           j \in Id =>
               \/ ctr'[j].st \notin {"created", "running", "exited"}
               \/ Present(j) /\ ctr'[j].name = ctr[j].name
               \/ NameFree(ctr'[j].name)
    PROVE  OneEach'
<1> SUFFICES ASSUME NEW i \in Id, NEW k \in Id,
                    ctr'[i].st \in {"created", "running", "exited"},
                    ctr'[k].st \in {"created", "running", "exited"},
                    ctr'[i].name = ctr'[k].name, i # k
             PROVE  FALSE
  BY DEF OneEach, Present
<1>1. CASE i # j /\ k # j
  BY <1>1 DEF OneEach, Present, SameLife, LivesBut
<1>2. CASE i = j
  BY <1>2 DEF OneEach, Present, SameLife, NameFree, LivesBut
<1>3. CASE k = j
  BY <1>3 DEF OneEach, Present, SameLife, NameFree, LivesBut
<1> QED BY <1>1, <1>2, <1>3

\* A container that does not run is no other's stand-in: its service is down.
LEMMA DownNotUp ==
    ASSUME OneEach', NEW i \in Id, ctr'[i].st \in {"exited", "created"},
           NEW n, ctr'[i].name = n
    PROVE  ~Running(n)'
BY DEF OneEach, Present, Running

\* Who was attended to and did not change still is, unless the actor gave up
\* and the service with it.
LEMMA AttendedStays ==
    ASSUME Attended, OneEach', StayLost,
           NEW j, LivesBut(j), FreesBut(j), j \in Id => AttendedBy(j)'
    PROVE  Attended'
<1> SUFFICES ASSUME NEW i \in Id, i # j,
                    ctr'[i].st \in {"exited", "created"}, ctr'[i].name \notin lost'
             PROVE  \E a \in Actor : Attends(a, i)'
  BY DEF Attended, AttendedBy
<1>1. SameLife(i)
  BY DEF LivesBut
<1>2. ~Settled(ctr[i].name)
  BY <1>1, DownNotUp DEF Settled, SameLife
<1>3. PICK a \in Actor : Attends(a, i)
  BY <1>1, <1>2 DEF Attended, AttendedBy, SameLife, StayLost
<1>4. task'[a] = task[a]
  BY <1>2, <1>3 DEF FreesBut
<1> QED BY <1>1, <1>3, <1>4 DEF Attends, SameLife

\* What is owed to services with other names than n stays owed.
LEMMA OwedStays ==
    ASSUME TypeInv, Owed, StayLost, NEW n, NEW j, LivesBut(j),
           j \in Id => ctr[j].name = n \/ ctr[j].st = "none",
           PaysBut(n), n \in Name => OwedFor(n)'
    PROVE  Owed'
<1> SUFFICES ASSUME NEW m \in Name, m # n PROVE OwedFor(m)'
  BY DEF Owed
<1>1. CASE m \in lost \/ Settled(m)
  BY <1>1 DEF OwedFor, StayLost, Settled
<1>2. CASE Running(m)
  <2>1. PICK i \in Id : ctr[i].name = m /\ ctr[i].st = "running"
    BY <1>2 DEF Running
  <2>2. SameLife(i)
    BY <2>1 DEF LivesBut
  <2> QED BY <2>1, <2>2 DEF OwedFor, Running, SameLife
<1>3. ASSUME NEW b \in Actor, Owes(b, m), task'[b] = task[b]
      PROVE  Owes(b, m)'
  <2>1. CASE task[b].pc = "create"
    BY <1>3, <2>1 DEF Owes
  <2>2. ASSUME NEW i \in Id, Attends(b, i) PROVE Attends(b, i)'
    <3>1. ctr[i].name = m /\ ctr[i].st # "none"
      BY <1>3, <2>2, AttendsName DEF Owes, Attends
    <3>2. SameLife(i)
      BY <3>1 DEF LivesBut
    <3> QED BY <1>3, <2>2, <3>2 DEF Attends, SameLife
  <2> QED BY <1>3, <2>1, <2>2 DEF Owes
<1> QED BY <1>1, <1>2, <1>3 DEF Owed, OwedFor, PaysBut

\* No container's life changed, and who gave up gave the service up.
LEMMA GiveUp ==
    ASSUME TypeInv, UpInv, StayLost, \A i \in Id : SameLife(i),
           \A b \in Actor :
               \/ task'[b] = task[b]
               \/ \A m \in Name : Owes(b, m) => Settled(m)
    PROVE  UpInv'
<1>1. LivesBut(NoId) /\ NoId \notin Id /\ PaysBut(NoName) /\ NoName \notin Name
  BY Ids, DockerAssumption DEF LivesBut, PaysBut, DockerAssumption
<1>2. ASSUME NEW b \in Actor, NEW i \in Id, Attends(b, i)
      PROVE  ctr[i].name \in Name /\ Owes(b, ctr[i].name)
  BY <1>2, AttendsName DEF Owes
<1>3. FreesBut(NoId)
  BY <1>2 DEF FreesBut
<1> QED BY <1>1, <1>3, OneStays, AttendedStays, OwedStays DEF UpInv

\* Where a task goes, and what it keeps.
LEMMA GotoTask ==
    ASSUME task \in [Actor -> Task], NEW a \in Actor, NEW l, Goto(a, l)
    PROVE  /\ task'[a].pc = l /\ task'[a].id = task[a].id
           /\ task'[a].name = task[a].name /\ task'[a].new = task[a].new
           /\ \A b \in Actor : b # a => task'[b] = task[b]
<1>1. PICK t : t = [task[a] EXCEPT !.pc = l]
  OBVIOUS
<1>2. task' = [task EXCEPT ![a] = t]
  BY <1>1 DEF Goto
<1>3. task[a] \in Task
  OBVIOUS
<1>4. t.pc = l /\ t.id = task[a].id /\ t.name = task[a].name /\ t.new = task[a].new
  BY <1>1, <1>3 DEF Task
<1> QED BY <1>2, <1>4

\* Stop: the actor attends to the container from now on.
LEMMA StopUp ==
    ASSUME TypeInv, UpInv, NEW a \in Actor, StopCall(a), StayLost
    PROVE  UpInv'
<1>1. /\ task \in [Actor -> Task] /\ ctr \in [Id -> Container]
      /\ task[a].pc = "stop"
  BY DEF StopCall, TypeInv, Typed, RecreateTypeOK, DockerTypeOK
<1>2. \A m : ~Owes(a, m)
  BY <1>1 DEF Owes, Attends
<1>3. CASE Abandon(a)
  BY <1>1, <1>2, <1>3, GotoTask, GiveUp DEF Abandon, SameLife
<1>4. CASE Present(task[a].id) /\ DockerStop(task[a].id) /\ Goto(a, "remove")
  <2>1. PICK j \in Id : j = task[a].id
    BY <1>1 DEF TypeInv, TasksKnown, TaskKnown
  <2>2. PICK n : n = ctr[j].name
    OBVIOUS
  <2>3. task[a].name = n
    BY <1>1, <2>1, <2>2 DEF TypeInv, TasksKnown, TaskKnown
  <2>4. /\ task'[a].pc = "remove" /\ task'[a].id = j /\ task'[a].name = n
        /\ \A b \in Actor : b # a => task'[b] = task[b]
    BY <1>1, <1>4, <2>1, <2>3, GotoTask
  <2>5. /\ ctr'[j].st = IF ctr[j].st = "running" THEN "exited" ELSE ctr[j].st
        /\ ctr'[j].name = n /\ LivesBut(j)
    <3>1. ctr' = [ctr EXCEPT ![j].st = IF @ = "running" THEN "exited" ELSE @]
      BY <1>4, <2>1 DEF DockerStop
    <3> QED BY <1>1, <2>2, <3>1 DEF SameLife, LivesBut, Container
  <2>6. Present(j)
    BY <1>4, <2>1
  <2>7. OneEach'
    BY <2>2, <2>5, <2>6, OneStays DEF UpInv
  <2>8. AttendedBy(j)'
    <3>1. CASE ctr'[j].st = "exited"
      BY <2>4, <3>1 DEF AttendedBy, Attends
    <3>2. CASE ctr'[j].st = "created"
      <4>1. ctr[j].st = "created"
        BY <2>5, <3>2
      <4>2. n \in lost \/ \E b \in Actor : Attends(b, j)
        BY <2>2, <4>1 DEF UpInv, Attended, AttendedBy
      <4>3. ~Attends(a, j)
        BY <1>1 DEF Attends
      <4>4. n \in lost => n \in lost'
        BY <2>5, <2>7, <3>2, DownNotUp DEF StayLost, Settled
      <4> QED BY <2>4, <2>5, <3>2, <4>1, <4>2, <4>3, <4>4 DEF AttendedBy, Attends
    <3> QED BY <3>1, <3>2 DEF AttendedBy
  <2>9. Attended'
    <3>1. FreesBut(j)
      BY <1>1, <2>4 DEF Attends, FreesBut
    <3> QED BY <2>5, <2>7, <2>8, <3>1, AttendedStays DEF UpInv
  <2>10. ASSUME n \in Name PROVE OwedFor(n)'
    <3>1. CASE ctr'[j].st = "exited"
      <4>1. Attends(a, j)'
        BY <2>4, <3>1 DEF Attends
      <4> QED BY <2>4, <4>1 DEF OwedFor, Owes
    <3>2. CASE ctr'[j].st # "exited"
      <4>1. ctr[j].st # "running" /\ SameLife(j)
        BY <2>2, <2>5, <3>2 DEF SameLife
      <4>2. \A i \in Id : SameLife(i)
        BY <2>5, <4>1 DEF LivesBut
      <4>3. UpInv'
        BY <1>2, <2>4, <4>2, GiveUp
      <4> QED BY <2>10, <4>3 DEF UpInv, Owed
    <3> QED BY <3>1, <3>2
  <2>11. Owed'
    <3>1. PaysBut(n)
      BY <1>2, <2>4 DEF PaysBut
    <3> QED BY <2>2, <2>5, <2>10, <3>1, OwedStays DEF UpInv
  <2> QED BY <2>7, <2>9, <2>11 DEF UpInv
<1> QED BY <1>3, <1>4 DEF StopCall

\* Remove: the actor owes a container to the service now.
LEMMA RemoveUp ==
    ASSUME TypeInv, UpInv, NEW a \in Actor, RemoveCall(a), StayLost
    PROVE  UpInv'
<1>1. /\ task \in [Actor -> Task] /\ ctr \in [Id -> Container]
      /\ task[a].pc = "remove"
  BY DEF RemoveCall, TypeInv, Typed, RecreateTypeOK, DockerTypeOK
<1>2. \A i : Attends(a, i) => i = task[a].id /\ Present(i)
  BY <1>1 DEF Attends, Present
<1>3. CASE Abandon(a) /\ ~Present(task[a].id)
  <2>1. \A m : ~Owes(a, m)
    BY <1>1, <1>2, <1>3 DEF Owes
  <2> QED BY <1>1, <1>3, <2>1, GotoTask, GiveUp DEF Abandon, SameLife
<1>4. CASE Present(task[a].id) /\ DockerRemove(task[a].id) /\ Goto(a, "create")
  <2>1. PICK j \in Id : j = task[a].id
    BY <1>1 DEF TypeInv, TasksKnown, TaskKnown
  <2>2. PICK n : n = ctr[j].name
    OBVIOUS
  <2>3. task[a].name = n
    BY <1>1, <2>1, <2>2 DEF TypeInv, TasksKnown, TaskKnown
  <2>4. /\ task'[a].pc = "create" /\ task'[a].name = n
        /\ \A b \in Actor : b # a => task'[b] = task[b]
    BY <1>1, <1>4, <2>3, GotoTask
  <2>5. /\ ctr'[j].st = "gone" /\ LivesBut(j)
    <3>1. ctr' = [ctr EXCEPT ![j].st = "gone"]
      BY <1>4, <2>1 DEF DockerRemove
    <3> QED BY <1>1, <3>1 DEF SameLife, LivesBut, Container
  <2>6. OneEach'
    BY <2>5, OneStays DEF UpInv
  <2>7. Attended'
    <3>1. AttendedBy(j)'
      BY <2>5 DEF AttendedBy
    <3>2. FreesBut(j)
      BY <1>2, <2>1, <2>4 DEF FreesBut
    <3> QED BY <2>5, <2>6, <3>1, <3>2, AttendedStays DEF UpInv
  <2>8. OwedFor(n)'
    BY <2>4 DEF OwedFor, Owes
  <2>9. PaysBut(n)
    BY <2>3, <2>4 DEF Owes, PaysBut
  <2>10. Owed'
    BY <2>2, <2>5, <2>8, <2>9, OwedStays DEF UpInv
  <2> QED BY <2>6, <2>7, <2>10 DEF UpInv
<1> QED BY <1>3, <1>4 DEF RemoveCall

\* Create: it fails only if the service has a container, of its own or one
\* that the other actor attends to.
LEMMA CreateUp ==
    ASSUME TypeInv, UpInv, NEW a \in Actor, CreateCall(a), StayLost
    PROVE  UpInv'
<1>1. /\ task \in [Actor -> Task] /\ ctr \in [Id -> Container]
      /\ task[a].pc = "create" /\ task[a] \in Task
  BY DEF CreateCall, TypeInv, Typed, RecreateTypeOK, DockerTypeOK
<1>2. PICK n \in Name : n = task[a].name
  BY <1>1 DEF TypeInv, TasksKnown, TaskKnown
<1>3. (\A i : ~Attends(a, i)) /\ (\A m : m # n => ~Owes(a, m))
  BY <1>1, <1>2 DEF Attends, Owes
<1>4. CASE Abandon(a) /\ ~NameFree(n)
  <2>1. LivesBut(NoId) /\ NoId \notin Id
    BY <1>4, Ids DEF Abandon, SameLife, LivesBut
  <2>2. \A b \in Actor : b # a => task'[b] = task[b]
    BY <1>1, <1>4, GotoTask DEF Abandon
  <2>3. FreesBut(NoId) /\ PaysBut(n)
    BY <1>3, <2>2 DEF FreesBut, PaysBut
  <2>4. OwedFor(n)'
    <3>1. PICK i \in Id : ctr[i].name = n /\ Present(i)
      BY <1>4 DEF NameFree
    <3>2. ctr'[i].name = n /\ ctr'[i].st = ctr[i].st
      BY <2>1, <3>1 DEF SameLife, LivesBut
    <3>3. CASE ctr[i].st = "running"
      BY <3>1, <3>2, <3>3 DEF OwedFor, Running
    <3>4. CASE ctr[i].st \in {"exited", "created"} /\ n \notin lost
      <4>1. PICK b \in Actor : Attends(b, i)
        BY <3>1, <3>4 DEF UpInv, Attended, AttendedBy
      <4>2. b # a /\ task[b].name = n
        BY <1>3, <3>1, <4>1, AttendsName
      <4>3. Attends(b, i)'
        BY <2>2, <3>2, <4>1, <4>2 DEF Attends
      <4> QED BY <2>2, <4>2, <4>3 DEF OwedFor, Owes
    <3>5. CASE n \in lost
      BY <3>5 DEF OwedFor, StayLost, Settled
    <3> QED BY <3>1, <3>3, <3>4, <3>5 DEF Present
  <2> QED BY <2>1, <2>3, <2>4, OneStays, AttendedStays, OwedStays DEF UpInv
<1>5. CASE NameFree(n)
  <2>1. PICK j \in Id :
          /\ Unused(j)
          /\ DockerCreate(j, task[a].name, task[a].ref, task[a].runs)
          /\ task' = [task EXCEPT ![a] = [@ EXCEPT !.pc = "start", !.new = j]]
    BY <1>2, <1>5 DEF CreateCall
  <2>2. PICK t : t = [task[a] EXCEPT !.pc = "start", !.new = j]
    OBVIOUS
  <2>3. t.pc = "start" /\ t.new = j /\ t.name = n
    BY <1>1, <1>2, <2>2 DEF Task
  <2>4. task'[a] = t /\ \A b \in Actor : b # a => task'[b] = task[b]
    BY <1>1, <2>1, <2>2
  <2>5. /\ ctr'[j].st = "created" /\ ctr'[j].name = n /\ ctr[j].st = "none"
        /\ LivesBut(j)
    BY <1>1, <1>2, <2>1 DEF DockerCreate, Unused, SameLife, LivesBut
  <2>6. OneEach'
    BY <1>5, <2>5, OneStays DEF UpInv
  <2>7. Attends(a, j)'
    BY <2>3, <2>4, <2>5 DEF Attends
  <2>8. Attended'
    <3>1. AttendedBy(j)'
      BY <2>7 DEF AttendedBy
    <3>2. FreesBut(j)
      BY <1>3, <2>4 DEF FreesBut
    <3> QED BY <2>5, <2>6, <3>1, <3>2, AttendedStays DEF UpInv
  <2>9. OwedFor(n)'
    BY <2>3, <2>4, <2>7 DEF OwedFor, Owes
  <2>10. Owed'
    <3>1. PaysBut(n)
      BY <1>3, <2>4 DEF PaysBut
    <3> QED BY <2>5, <2>9, <3>1, OwedStays DEF UpInv
  <2> QED BY <2>6, <2>8, <2>10 DEF UpInv
<1> QED BY <1>2, <1>4, <1>5 DEF CreateCall

\* A container that is started, by an actor or by hand.
LEMMA StartedUp ==
    ASSUME TypeInv, UpInv, NEW j \in Id, Present(j), DockerStart(j), StayLost,
           \A b \in Actor :
               \/ task'[b] = task[b]
               \/ task[b].pc = "start" /\ task[b].new = j
    PROVE  UpInv'
<1>1. ctr \in [Id -> Container]
  BY DEF TypeInv, Typed, DockerTypeOK
<1>2. PICK n : n = ctr[j].name
  OBVIOUS
<1>3. PICK c : c = [ctr[j] EXCEPT !.st = "running", !.ran = TRUE, !.sick = FALSE]
  OBVIOUS
<1>4. c.st = "running" /\ c.name = n
  BY <1>1, <1>2, <1>3 DEF Container
<1>5. ctr'[j] = c /\ LivesBut(j)
  BY <1>1, <1>3 DEF DockerStart, SameLife, LivesBut
<1>6. OneEach'
  BY <1>2, <1>4, <1>5, OneStays DEF UpInv
<1>7. ASSUME NEW b \in Actor, task'[b] # task[b]
      PROVE  /\ \A i \in Id : Attends(b, i) => i = j
             /\ \A m \in Name : Owes(b, m) => m = n
  <2>1. task[b].pc = "start" /\ task[b].new = j
    BY <1>7
  <2>2. task[b].name = n
    BY <1>2, <2>1 DEF TypeInv, TasksKnown, TaskKnown
  <2> QED BY <2>1, <2>2 DEF Attends, Owes
<1>8. Attended'
  <2>1. AttendedBy(j)'
    BY <1>4, <1>5 DEF AttendedBy
  <2>2. FreesBut(j)
    BY <1>7 DEF FreesBut
  <2> QED BY <1>5, <1>6, <2>1, <2>2, AttendedStays DEF UpInv
<1>9. OwedFor(n)'
  BY <1>4, <1>5 DEF OwedFor, Running
<1>10. Owed'
  <2>1. PaysBut(n)
    BY <1>7 DEF PaysBut
  <2> QED BY <1>2, <1>5, <1>9, <2>1, OwedStays DEF UpInv
<1> QED BY <1>6, <1>8, <1>10 DEF UpInv

LEMMA StartUp ==
    ASSUME TypeInv, UpInv, NEW a \in Actor, StartCall(a), StayLost
    PROVE  UpInv'
<1>1. task \in [Actor -> Task] /\ task[a].pc = "start"
  BY DEF StartCall, TypeInv, Typed, RecreateTypeOK
<1>2. CASE Abandon(a) /\ ~Present(task[a].new)
  <2>1. \A m : ~Owes(a, m)
    BY <1>1, <1>2 DEF Owes, Attends, Present
  <2> QED BY <1>1, <1>2, <2>1, GotoTask, GiveUp DEF Abandon, SameLife
<1>3. CASE Present(task[a].new) /\ DockerStart(task[a].new) /\ Goto(a, "done")
  <2>1. PICK j \in Id : j = task[a].new
    BY <1>1 DEF TypeInv, TasksKnown, TaskKnown
  <2>2. \A b \in Actor : b # a => task'[b] = task[b]
    BY <1>1, <1>3, GotoTask
  <2>3. ASSUME NEW b \in Actor
        PROVE  task'[b] = task[b] \/ (task[b].pc = "start" /\ task[b].new = j)
    <3>1. CASE b = a
      BY <1>1, <2>1, <3>1
    <3>2. CASE b # a
      BY <2>2, <3>2
    <3> QED BY <3>1, <3>2
  <2> QED BY <1>3, <2>1, <2>3, StartedUp
<1> QED BY <1>2, <1>3 DEF StartCall

LEMMA Recovered == Recover => StayLost
BY DEF Recover, StayLost, Settled

\* Any call, done or failed.
LEMMA CallUp ==
    ASSUME TypeInv, UpInv, NEW a \in Actor,
           \/ RecreateStep(a) /\ Recover
           \/ /\ CallFails(a)
              /\ lost' = lost \cup {n \in Name : Holds(a, n) /\ ~Running(n)}
    PROVE  UpInv'
<1>1. \A b \in Actor : b # a => task'[b] = task[b]
  BY RecreateKeeps DEF CallKeeps, TypeInv, Typed
<1>2. CASE RecreateStep(a) /\ Recover
  <2>1. CASE InspectCall(a) \/ PullCall(a)
    <3>1. \A m : ~Owes(a, m)
      BY <2>1 DEF InspectCall, PullCall, Owes, Attends
    <3>2. ctr' = ctr
      BY <2>1 DEF InspectCall, PullCall, Abandon
    <3> QED BY <1>1, <1>2, <3>1, <3>2, GiveUp, Recovered DEF SameLife
  <2> QED BY <1>2, <2>1, StopUp, RemoveUp, CreateUp, StartUp, Recovered
          DEF RecreateStep
<1>3. CASE /\ CallFails(a)
           /\ lost' = lost \cup {n \in Name : Holds(a, n) /\ ~Running(n)}
  <2>1. \A m \in Name : Owes(a, m) => Holds(a, m)
    BY DEF Owes, Attends, Holds
  <2>2. ctr' = ctr
    BY <1>3 DEF CallFails, Abandon
  <2>3. \A m \in Name : Owes(a, m) => Settled(m)
    BY <1>3, <2>1, <2>2 DEF Settled, Running
  <2>4. StayLost
    BY <1>3 DEF StayLost, Settled
  <2> QED BY <1>1, <2>2, <2>3, <2>4, GiveUp DEF SameLife
<1> QED BY <1>2, <1>3

\* docker rm -f, docker run: the service is given up, or one that had no
\* container gets one.
LEMMA HandUp ==
    ASSUME TypeInv, UpInv, HandRemove \/ HandRestart \/ HandRun PROVE UpInv'
<1>1. ctr \in [Id -> Container] /\ task' = task
  BY DEF TypeInv, Typed, DockerTypeOK, HandRemove, HandRestart, HandRun
<1>2. CASE HandRestart
  <2>1. PICK j \in Id : Present(j) /\ DockerStart(j)
    BY <1>2 DEF HandRestart
  <2> QED BY <1>1, <1>2, <2>1, StartedUp, Recovered DEF HandRestart
<1>3. (\A j : FreesBut(j)) /\ (\A n : PaysBut(n))
  BY <1>1 DEF FreesBut, PaysBut
<1>4. CASE HandRemove
  <2>1. PICK j \in Id : /\ Present(j) /\ DockerRemove(j)
                        /\ lost' = lost \cup {ctr[j].name}
    BY <1>4 DEF HandRemove
  <2>2. PICK n : n = ctr[j].name
    OBVIOUS
  <2>3. ctr'[j].st = "gone" /\ LivesBut(j)
    <3>1. ctr' = [ctr EXCEPT ![j].st = "gone"]
      BY <2>1 DEF DockerRemove
    <3> QED BY <1>1, <3>1 DEF SameLife, LivesBut, Container
  <2>4. OneEach'
    BY <2>3, OneStays DEF UpInv
  <2>5. AttendedBy(j)' /\ OwedFor(n)'
    BY <2>1, <2>2, <2>3 DEF AttendedBy, OwedFor
  <2>6. StayLost
    BY <2>1 DEF StayLost, Settled
  <2>7. Attended' /\ Owed'
    BY <1>3, <2>2, <2>3, <2>4, <2>5, <2>6, AttendedStays, OwedStays DEF UpInv
  <2> QED BY <2>4, <2>6, <2>7 DEF UpInv
<1>5. CASE HandRun
  <2>1. PICK n \in Name, j \in Id : /\ NameFree(n) /\ Unused(j)
                                    /\ ctr' = [ctr EXCEPT ![j] = RunBare(n)]
    BY <1>5 DEF HandRun
  <2>2. RunBare(n).st = "running" /\ RunBare(n).name = n
    BY DEF RunBare
  <2>3. ctr'[j] = RunBare(n) /\ ctr[j].st = "none" /\ LivesBut(j)
    BY <1>1, <2>1 DEF SameLife, LivesBut, Unused
  <2>4. OneEach'
    BY <2>1, <2>2, <2>3, OneStays DEF UpInv
  <2>5. AttendedBy(j)' /\ OwedFor(n)'
    BY <2>2, <2>3 DEF AttendedBy, OwedFor, Running
  <2>6. StayLost
    BY <1>5, Recovered DEF HandRun
  <2>7. Attended' /\ Owed'
    BY <1>3, <2>3, <2>4, <2>5, <2>6, AttendedStays, OwedStays DEF UpInv
  <2> QED BY <2>4, <2>7 DEF UpInv
<1> QED BY <1>2, <1>4, <1>5

\* The end of the process gives up every service that is down.
LEMMA DownUp == ASSUME TypeInv, UpInv, Down PROVE UpInv'
<1>1. /\ ctr' = ctr /\ lost' = lost \cup {n \in Name : ~Running(n)}
      /\ ctr \in [Id -> Container]
      /\ \A i \in Id : ctr[i].st # "none" => ctr[i].name \in Name
  BY DEF Down, TypeInv, Typed, DockerTypeOK
<1>2. OneEach'
  BY <1>1 DEF UpInv, OneEach, Present
<1>3. \A n \in Name : n \notin lost' => Running(n)
  BY <1>1
<1>4. Owed'
  BY <1>1, <1>3 DEF Owed, OwedFor, Running
<1>5. ASSUME NEW i \in Id, ctr[i].st \in {"exited", "created"}
      PROVE  ctr[i].name \in lost'
  <2> SUFFICES ASSUME ctr[i].name \notin lost' PROVE FALSE
    OBVIOUS
  <2>1. PICK j \in Id : ctr[j].name = ctr[i].name /\ ctr[j].st = "running"
    BY <1>1, <1>3, <1>5 DEF Running
  <2> QED BY <1>5, <2>1 DEF UpInv, OneEach, Present
<1>6. Attended'
  BY <1>1, <1>5 DEF Attended, AttendedBy
<1> QED BY <1>2, <1>4, <1>6 DEF UpInv

LEMMA UpKept == TypeInv /\ UpInv /\ [Next]_vars => UpInv'
<1> SUFFICES ASSUME TypeInv, UpInv, [Next]_vars PROVE UpInv'
  OBVIOUS
<1>1. task \in [Actor -> Task] /\ ctr \in [Id -> Container]
  BY DEF TypeInv, Typed, RecreateTypeOK, DockerTypeOK
<1>0. lost' = lost => StayLost
  BY DEF StayLost, Settled
<1>2. CASE UNCHANGED <<ctr, task, lost>>
  BY <1>0, <1>2, GiveUp DEF SameLife
<1>3. ASSUME NEW b \in Actor, task[b].pc \in {"idle", "done", "failed"},
             Finish(b) \/ \E i, r : Start(b, i, r), UNCHANGED <<ctr, lost>>
      PROVE  UpInv'
  <2>1. \A m : ~Owes(b, m)
    BY <1>3 DEF Owes, Attends
  <2>2. \A a \in Actor : a # b => task'[a] = task[a]
    BY <1>1, <1>3, TaskBegins, TaskEnds
  <2> QED BY <1>0, <1>3, <2>1, <2>2, GiveUp DEF SameLife
<1>4. CASE Exec
  <2>1. "exec" \in Actor /\ UNCHANGED <<ctr, lost>>
    BY <1>4 DEF Exec, ExecutorStep, ExecIgnore, ExecApply, ExecFail, ExecSucceed,
       ExecRekey, ExecPublish, Actor
  <2>2. CASE ExecApply
    <3>1. task["exec"].pc = "idle" /\ \E i, r : Start("exec", i, r)
      BY <2>2 DEF ExecApply, TypeInv, ExecKnown, NoTask
    <3> QED BY <1>3, <2>1, <3>1
  <2>3. CASE ExecFail \/ ExecPublish
    <3>1. task["exec"].pc \in {"done", "failed"} /\ Finish("exec")
      BY <2>3 DEF ExecFail, ExecPublish, TypeInv, ExecKnown
    <3> QED BY <1>3, <2>1, <3>1
  <2> QED BY <1>2, <1>4, <2>1, <2>2, <2>3
          DEF Exec, ExecutorStep, ExecIgnore, ExecSucceed, ExecRekey
<1>5. CASE Rb
  <2>1. "rb" \in Actor /\ UNCHANGED <<ctr, lost>>
    BY <1>5 DEF Rb, RollbackStep, RbAbort, RbRestore, RbFail, RbRekey, RbPublish, Actor
  <2>2. CASE RbRestore
    <3>1. task["rb"].pc = "idle" /\ \E i, r : Start("rb", i, r)
      BY <2>2 DEF RbRestore, TypeInv, RbKnown, NoTask
    <3> QED BY <1>3, <2>1, <3>1
  <2>3. CASE RbFail \/ RbPublish
    <3>1. task["rb"].pc \in {"done", "failed"} /\ Finish("rb")
      BY <2>3 DEF RbFail, RbPublish, TypeInv, RbKnown
    <3> QED BY <1>3, <2>1, <3>1
  <2> QED BY <1>2, <1>5, <2>1, <2>2, <2>3 DEF Rb, RollbackStep, RbAbort, RbRekey
<1>6. CASE (\E a \in Actor : Calls(a)) \/ CallError
  BY <1>6, CallUp DEF Calls, CallError
<1>7. CASE Panic \/ Crash
  BY <1>7, DownUp DEF Panic, Crash
<1>8. CASE HandRemove \/ HandRestart \/ HandRun
  BY <1>8, HandUp
<1>9. CASE Sicken
  <2>1. \A i \in Id : SameLife(i)
    BY <1>1, <1>9 DEF Sicken, SameLife, Container
  <2> QED BY <1>0, <1>9, <2>1, GiveUp DEF Sicken
<1>10. CASE Seed \/ Subscribe \/ Watch \/ Monitor \/ UNCHANGED vars
  BY <1>2, <1>10 DEF Seed, Subscribe, Watch, WatcherStep, Monitor, HealthMonStep,
     vars, dockerVars
<1>11. CASE \E s \in Slot : Serve(s) \/ Ask(s)
  BY <1>2, <1>11 DEF Serve, RequestStep, Ask, dockerVars
<1>12. CASE Release \/ HostPull
  BY <1>2, <1>12 DEF Release, HostPull
<1> QED BY <1>4, <1>5, <1>6, <1>7, <1>8, <1>9, <1>10, <1>11, <1>12 DEF Next, Rest

\* Every service runs one container of its own.
LEMMA UpInit == Init => UpInv
<1> SUFFICES ASSUME Init PROVE UpInv
  OBVIOUS
<1>1. PICK idOf \in [Name -> Id] :
        /\ \A m, n \in Name : m # n => idOf[m] # idOf[n]
        /\ ctr = [i \in Id |-> IF \E n \in Name : idOf[n] = i
                               THEN RunBare(CHOOSE n \in Name : idOf[n] = i)
                               ELSE Unborn]
  BY DEF Init
<1>2. \A n : RunBare(n).st = "running" /\ RunBare(n).name = n
  BY DEF RunBare
<1>3. ASSUME NEW i \in Id
      PROVE  \/ ctr[i].st = "none"
             \/ /\ ctr[i].st = "running"
                /\ ctr[i].name \in Name /\ idOf[ctr[i].name] = i
  <2>1. CASE \E n \in Name : idOf[n] = i
    <3>1. PICK n \in Name : n = CHOOSE m \in Name : idOf[m] = i
      BY <2>1
    <3>2. idOf[n] = i
      BY <2>1, <3>1
    <3> QED BY <1>1, <1>2, <2>1, <3>1, <3>2
  <2>2. CASE ~ \E n \in Name : idOf[n] = i
    BY <1>1, <2>2 DEF Unborn
  <2> QED BY <2>1, <2>2
<1>4. OneEach /\ Attended
  BY <1>3 DEF OneEach, Attended, AttendedBy, Present
<1>5. ASSUME NEW n \in Name PROVE Running(n)
  <2>1. PICK i \in Id : i = idOf[n]
    BY <1>1
  <2>2. \A m \in Name : idOf[m] = i => m = n
    BY <1>1, <2>1
  <2>3. ctr[i] = RunBare(n)
    BY <1>1, <2>1, <2>2
  <2> QED BY <1>2, <2>3 DEF Running
<1> QED BY <1>4, <1>5 DEF UpInv, Owed, OwedFor

\* A service runs a container unless a Recreate is between its stop and its
\* start, or it was taken down from outside the program: the executor and
\* the rollback engine, whose calls interleave at will, do not between them
\* leave a service down.
THEOREM ServiceHeldHolds == Spec => []ServiceHeld
<1>1. UpInv => ServiceHeld
  <2> SUFFICES ASSUME UpInv, NEW n \in Name
               PROVE  Running(n) \/ n \in lost \/ \E a \in Actor : Holds(a, n)
    BY DEF ServiceHeld
  <2>1. Running(n) \/ n \in lost \/ \E a \in Actor : Owes(a, n)
    BY DEF UpInv, Owed, OwedFor
  <2>2. \A a \in Actor : Owes(a, n) => Holds(a, n)
    BY DEF Owes, Attends, Holds
  <2> QED BY <2>1, <2>2
<1> QED BY <1>1, TypeInvHolds, UpInit, UpKept, PTL DEF Spec
=============================================================================
