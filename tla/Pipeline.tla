------------------------------ MODULE Pipeline ------------------------------
(***************************************************************************)
(* dockwatch's update - health check - rollback pipeline: the goroutines   *)
(* that main starts, the daemon they drive, the people and machines around *)
(* them, and the end and restart of the process.                           *)
(***************************************************************************)
EXTENDS Executor, Rollback, Watcher, HealthMon, Triggers

CONSTANTS
    Env,     \* which kinds of outside events this instance has
    Limit    \* bound: how many of them in one behaviour

ASSUME PipelineAssumption == Limit \in Nat

VARIABLES
    spent,   \* outside events so far
    lost     \* services that are down and that nobody owes a container: taken
             \* down by hand, or caught by a failing call or the process's end

vars == <<dockerVars, storeVars, topicVars, task, deployVars, exec, rb, wat,
          mon, req, lastDigest, spent, lost>>

\* An actor has stopped the service's container and not started another yet.
Holds(a, n) ==
    /\ task[a].name = n
    /\ \/ task[a].pc \in {"create", "start"}
       \/ task[a].pc = "remove" /\ ctr[task[a].id].st = "exited"

\* A service that runs again is owed a container again.
Recover == lost' = {n \in lost : ~Running(n)'}

MemoryEmpty ==
    /\ stream' = <<>> /\ qImage' = <<>> /\ qApplied' = <<>> /\ qUnhealthy' = <<>>
    /\ exec' = ExecIdle /\ rb' = RbIdle /\ wat' = WatIdle
    /\ task' = [a \in Actor |-> NoTask]
    /\ mon' = [i \in Id |-> MonOff]
    /\ req' = [s \in Slot |-> NoReq]
    /\ NoJobs

\* A container started by hand from the bare tag.
RunBare(n) == [st |-> "running", name |-> n, image |-> NoDigest,
               runs |-> reg[n], ran |-> TRUE, sick |-> FALSE]

\* Every service runs one container, on what its tag resolves to.
Init ==
    /\ reg \in [Name -> Digest]
    /\ \E idOf \in [Name -> Id] :
         /\ \A m, n \in Name : m # n => idOf[m] # idOf[n]
         /\ \A n \in Name : \A i \in 1..idOf[n] : \E m \in Name : idOf[m] = i
         /\ ctr = [i \in Id |->
                     IF \E n \in Name : idOf[n] = i
                     THEN RunBare(CHOOSE n \in Name : idOf[n] = i)
                     ELSE Unborn]
    /\ stream = <<>> /\ proc = "down"
    /\ keys = [i \in Id |-> 0] /\ heap = <<>>
    /\ qImage = <<>> /\ qApplied = <<>> /\ qUnhealthy = <<>>
    /\ task = [a \in Actor |-> NoTask]
    /\ jobs = <<>> /\ active = [k \in JobKey |-> 0] /\ rows = <<>>
    /\ exec = ExecIdle /\ rb = RbIdle /\ wat = WatIdle
    /\ mon = [i \in Id |-> MonOff]
    /\ req = [s \in Slot |-> NoReq]
    /\ lastDigest = [n \in Name |-> NoDigest]
    /\ spent = 0 /\ lost = {}

-----------------------------------------------------------------------------
(* The process: it lists the containers, then listens; it may end any time.*)

Seed ==
    /\ proc = "down"
    /\ proc' = "seeded"
    /\ SeedStore
    /\ UNCHANGED <<ctr, reg, stream, topicVars, task, deployVars, exec, rb, wat,
                   mon, req, lastDigest, spent, lost>>

Subscribe ==
    /\ proc = "seeded"
    /\ proc' = "up"
    /\ UNCHANGED <<ctr, reg, stream, storeVars, topicVars, task, deployVars,
                   exec, rb, wat, mon, req, lastDigest, spent, lost>>

Down ==
    /\ proc' = "down"
    /\ MemoryEmpty
    /\ keys' = [i \in Id |-> 0] /\ heap' = <<>>
    /\ lost' = lost \cup {n \in Name : ~Running(n)}
    /\ UNCHANGED <<ctr, reg, rows, lastDigest>>

\* handle's slice of an empty digest is a runtime panic nobody recovers.
Panic == RbPanics /\ Down /\ UNCHANGED spent

-----------------------------------------------------------------------------
(* The goroutines.                                                         *)

Exec == /\ ExecutorStep
        /\ UNCHANGED <<rb, wat, mon, req, lastDigest, spent, lost>>

Rb == /\ RollbackStep
      /\ UNCHANGED <<deployVars, exec, wat, mon, req, lastDigest, spent, lost>>

Calls(a) == /\ RecreateStep(a) /\ Recover
            /\ UNCHANGED <<storeVars, topicVars, deployVars, exec, rb, wat, mon,
                           req, lastDigest, spent>>

Watch == /\ WatcherStep
         /\ UNCHANGED <<task, deployVars, exec, rb, mon, req, lastDigest,
                        spent, lost>>

Monitor == /\ HealthMonStep
           /\ UNCHANGED <<task, deployVars, exec, rb, wat, req, lastDigest,
                          spent, lost>>

Serve(s) == /\ RequestStep(s)
            /\ UNCHANGED <<task, exec, rb, wat, mon, spent, lost>>

-----------------------------------------------------------------------------
(* Outside events, Limit of them.                                          *)

\* "gap" lets them fall between the listing and the listening, too.
Outside(kind) ==
    /\ kind \in Env /\ spent < Limit
    /\ proc = "seeded" => "gap" \in Env
    /\ spent' = spent + 1

Ask(s) ==
    /\ proc = "up"
    /\ \/ Outside("push") /\ \E n \in Name, d \in Digest : PushBegin(s, n, d)
       \/ Outside("hub") /\ (\E n \in Name : HubBegin(s, n))
       \/ Outside("sweep") /\ SweepBegin(s)
       \/ Outside("service") /\ (\E n \in Name : ServiceBegin(s, n))
       \/ Outside("update") /\ (\E i \in Id : UpdateBegin(s, i))
       \/ Outside("rollback") /\ (\E i \in Id : RollbackBegin(s, i))
    /\ UNCHANGED <<dockerVars, qApplied, task, exec, rb, wat, mon, lost>>

\* CI moves the tag to another digest.
Release ==
    /\ Outside("release")
    /\ \E n \in Name, d \in Digest :
         d # reg[n] /\ reg' = [reg EXCEPT ![n] = d]
    /\ UNCHANGED <<ctr, stream, proc, storeVars, topicVars, task, deployVars,
                   exec, rb, wat, mon, req, lastDigest, lost>>

\* Somebody runs docker pull on the host.
HostPull ==
    /\ Outside("pull")
    /\ \E n \in Name : Emit("pull", NoId, n, reg[n])
    /\ UNCHANGED <<ctr, reg, proc, storeVars, topicVars, task, deployVars,
                   exec, rb, wat, mon, req, lastDigest, lost>>

\* A container's health check reports it unhealthy.
Sicken ==
    /\ Outside("sick")
    /\ \E i \in Id :
         /\ ctr[i].st = "running" /\ ~ctr[i].sick
         /\ ctr' = [ctr EXCEPT ![i].sick = TRUE]
         /\ Emit("unhealthy", i, ctr[i].name, NoDigest)
    /\ UNCHANGED <<reg, proc, storeVars, topicVars, task, deployVars, exec, rb,
                   wat, mon, req, lastDigest, lost>>

\* docker rm -f, docker restart and docker run by hand.
HandRemove ==
    /\ Outside("remove")
    /\ \E i \in Id : /\ Present(i)
                     /\ DockerRemove(i)
                     /\ lost' = lost \cup {ctr[i].name}
    /\ UNCHANGED <<reg, proc, storeVars, topicVars, task, deployVars, exec, rb,
                   wat, mon, req, lastDigest>>

HandRestart ==
    /\ Outside("restart")
    /\ \E i \in Id : Present(i) /\ DockerStart(i)
    /\ Recover
    /\ UNCHANGED <<reg, proc, storeVars, topicVars, task, deployVars, exec, rb,
                   wat, mon, req, lastDigest>>

HandRun ==
    /\ Outside("run")
    /\ \E n \in Name, i \in Id :
         /\ NameFree(n) /\ Unused(i)
         /\ ctr' = [ctr EXCEPT ![i] = RunBare(n)]
         /\ Emit("start", i, n, NoDigest)
    /\ Recover
    /\ UNCHANGED <<reg, proc, storeVars, topicVars, task, deployVars, exec, rb,
                   wat, mon, req, lastDigest>>

\* A daemon call of a Recreate fails.
CallError ==
    /\ Outside("fault")
    /\ \E a \in Actor :
         /\ CallFails(a)
         /\ lost' = lost \cup {n \in Name : Holds(a, n) /\ ~Running(n)}
    /\ UNCHANGED <<storeVars, topicVars, deployVars, exec, rb, wat, mon, req,
                   lastDigest>>

\* The process is killed, or ends on a signal.
Crash == Outside("crash") /\ proc # "down" /\ Down

\* Nothing to do until the next outside event.
Quiet ==
    /\ proc = "up" /\ stream = <<>>
    /\ qImage = <<>> /\ qApplied = <<>> /\ qUnhealthy = <<>>
    /\ exec.pc = "idle" /\ rb.pc = "idle" /\ wat.pc = "idle"
    /\ \A s \in Slot : req[s].pc = "idle"
    /\ \A i \in Id : mon[i].pc # "report"

Rest == Quiet /\ UNCHANGED vars

Next ==
    \/ Seed \/ Subscribe \/ Panic
    \/ Exec \/ Rb \/ Watch \/ Monitor
    \/ \E a \in Actor : Calls(a)
    \/ \E s \in Slot : Serve(s) \/ Ask(s)
    \/ Release \/ HostPull \/ Sicken \/ HandRemove \/ HandRestart \/ HandRun
    \/ CallError \/ Crash \/ Rest

Spec == Init /\ [][Next]_vars

\* Every goroutine keeps running, and the daemon answers every call.
Fairness ==
    /\ WF_vars(Seed) /\ WF_vars(Subscribe) /\ WF_vars(Panic)
    /\ WF_vars(Exec) /\ WF_vars(Rb) /\ WF_vars(Watch) /\ WF_vars(Monitor)
    /\ \A a \in Actor : WF_vars(Calls(a))
    /\ \A s \in Slot : WF_vars(Serve(s))

FairSpec == Spec /\ Fairness
-----------------------------------------------------------------------------
(* Properties.                                                             *)

\* Every variable keeps its type: the messages, pointers and ids that the
\* goroutines pass each other refer to things that exist.
TypeOK ==
    /\ DockerTypeOK /\ StoreTypeOK /\ TopicsTypeOK /\ RecreateTypeOK
    /\ DeploysTypeOK /\ ExecutorTypeOK /\ RollbackTypeOK /\ WatcherTypeOK
    /\ HealthMonTypeOK /\ TriggersTypeOK
    /\ spent \in Nat /\ lost \subseteq Name
    /\ exec.cs \in 0..Len(heap) /\ rb.cs \in 0..Len(heap)
    /\ wat.pc \in {"report", "pull"} => wat.todo \subseteq Ptr
    /\ \A s \in Slot : req[s].p \in 0..Len(heap) /\ req[s].todo \subseteq Ptr

PastRemove == {"create", "start", "done"}

\* The executor and the rollback engine may recreate one container at the
\* same time with no lock between them (executor.apply, rollback.restore);
\* still at most one of them gets past removing it, so that one container is
\* never replaced by two.
OneReplacement ==
    ~ /\ task["exec"].id = task["rb"].id
      /\ task["exec"].pc \in PastRemove
      /\ task["rb"].pc \in PastRemove

\* A service runs a container unless a Recreate is between its stop and its
\* start, or a failed call, the end of the process or a person took it down:
\* no interleaving of the two actors leaves a service down by itself.
ServiceHeld ==
    \A n \in Name : Running(n) \/ n \in lost \/ \E a \in Actor : Holds(a, n)

\* Each tracked state carries the id it is found under, hence no state is
\* found under two ids: Upsert, Rekey and Remove of three goroutines keep
\* the map and the structs together.
KeyedById == \A i \in Id : keys[i] # 0 => heap[keys[i]].id = i

\* What the store may offer as the digest to roll back to has really run
\* under that service's name (PushDigest is only reached after a start), but
\* for a service whose empty ring the poller seeds from its row.
RingHasRun ==
    \A p \in Tracked : \A k \in DOMAIN heap[p].hist :
        heap[p].hist[k] # NoDigest /\ heap[p].name \notin PollMode =>
            \E i \in Id : /\ ctr[i].name = heap[p].name
                          /\ ctr[i].ran /\ ctr[i].runs = heap[p].hist[k]

\* An update.applied event names a container that was started and that runs
\* the digest the event names, whatever the tag moved to meanwhile.
AppliedHasRun ==
    \A k \in DOMAIN qApplied :
        LET c == ctr[qApplied[k].id]
        IN  c.ran /\ (qApplied[k].new # NoDigest => c.runs = qApplied[k].new)

\* When nothing is in flight the store tracks exactly the labelled
\* containers there are: the events of a replacement, applied late and
\* interleaved with Rekey, leave neither a ghost nor a gap.
StoreMatches ==
    Quiet => \A i \in Id :
        /\ keys[i] # 0 => Present(i)
        /\ ctr[i].st = "running" /\ ctr[i].name \in Labelled => keys[i] # 0

\* JobRegistry.IsRunning is true of a container exactly while the executor
\* is applying an update to it.
ActiveIsApplying ==
    \A n \in Name : active[<<"container", n>>] # 0
                       <=> exec.pc # "idle" /\ exec.p.name = n
\* A container whose labels say notify, or whose update the semver strategy
\* stops, is not recreated by the executor, whichever way the update was
\* asked for and however the store moved under the event.
HeldUntouched == task["exec"].name \notin Held

-----------------------------------------------------------------------------
(* Liveness, under Fairness.                                               *)

RowSays(r, s) == r \in DOMAIN rows /\ rows[r] = s

\* Every history row that says a deploy is running gets its outcome
\* (executor.handle: FinishDeploy on both branches).
RowsFinish ==
    \A r \in 1..(2 * Limit) : RowSays(r, "running") ~> ~RowSays(r, "running")

\* The store forgets every container that is gone, and learns of every
\* labelled one that runs.
StoreConverges ==
    \A i \in Id :
        /\ keys[i] # 0 /\ ctr[i].st = "gone" ~> keys[i] = 0
        /\ ctr[i].st = "running" /\ ctr[i].name \in Labelled /\ keys[i] = 0
               ~> keys[i] # 0 \/ ctr[i].st # "running"

-----------------------------------------------------------------------------
(* What the repository says of the pipeline and the code does not keep.    *)

\* README: the rollback engine is a safety net for unhealthy containers; it
\* does not take the process down on receiving such a report.
NoPanic == ~RbPanics

\* executor.imageRef: "pins an image to a specific digest", one digest.
OnePin == \A a \in Actor : task[a].ref # BadRef

\* README: a container is reverted if it becomes unhealthy; a healthy one is
\* not replaced by the rollback engine.
RollbackOnlySick ==
    task["rb"].pc \in PastRemove => ctr[task["rb"].id].sick
=============================================================================
