---------------------------- MODULE PipelineInv ----------------------------
(***************************************************************************)
(* The inductive invariants behind the theorems of PipelineProofs: TypeOK  *)
(* and the other safety properties are not inductive as they stand, they   *)
(* rest on what each goroutine's place says of its locals.                 *)
(***************************************************************************)
EXTENDS Pipeline

\* Every event but a pull is about a container there has been.
EventsKnown ==
    \A k \in DOMAIN stream :
        stream[k].kind # "pull" =>
            stream[k].id \in Id /\ ctr[stream[k].id].st # "none"

\* What a Recreate knows when it gets to a call.
TaskKnown(t) ==
    /\ t.pc # "idle" => t.id \in Id
    /\ t.pc \in {"pull", "stop", "remove", "create", "start", "done"} =>
           t.name \in Name /\ t.name = ctr[t.id].name /\ ctr[t.id].st # "none"
    /\ t.pc \in {"stop", "remove", "create", "start", "done"} => t.ref \in Image
    /\ t.pc \in {"start", "done"} =>
           t.new \in Id /\ ctr[t.new].st # "none" /\ ctr[t.new].name = t.name

TasksKnown == \A a \in Actor : TaskKnown(task[a])

ExecKnown ==
    /\ exec.cs \in 0..Len(heap)
    /\ exec.pc # "idle" => /\ exec.p \in ImageUpdated
                           /\ task["exec"].id = exec.p.id
                           /\ task["exec"].pc # "idle"
    /\ exec.pc \in {"rekey", "push"} => task["exec"].pc = "done"
    /\ exec.pc = "idle" => task["exec"] = NoTask

RbKnown ==
    /\ rb.cs \in 0..Len(heap)
    /\ rb.pc # "idle" => /\ rb.p \in Unhealthy
                         /\ task["rb"].id = rb.p.id
                         /\ task["rb"].pc # "idle"
    /\ rb.pc = "push" => task["rb"].pc = "done"
    /\ rb.pc = "idle" => task["rb"] = NoTask

WatKnown ==
    /\ wat.pc = "upsert" => /\ wat.id \in Id /\ wat.name \in Name
                            /\ ctr[wat.id].st # "none"
                            /\ ctr[wat.id].name = wat.name
    /\ wat.pc \in {"report", "pull"} => wat.todo \subseteq Ptr

MonKnown == \A i \in Id : mon[i].pc # "off" => mon[i].name \in Name

ReqKnown(r) ==
    /\ r.p \in 0..Len(heap)
    /\ r.todo \subseteq Ptr
    /\ r.pc \in {"read", "seed", "act", "rollback"} => r.p # 0
    /\ r.pc = "head" /\ r.kind = "update" => r.p # 0
    /\ r.pc = "head" => r.kind \in {"update", "service"}
    /\ r.pc = "head" /\ r.kind = "service" => r.name \in Name
    /\ r.pc = "send" => r.name \in Name

ReqsKnown == \A s \in Slot : ReqKnown(req[s])

DownIsEmpty == proc = "down" => heap = <<>>

Typed ==
    /\ DockerTypeOK /\ StoreTypeOK /\ TopicsTypeOK /\ RecreateTypeOK
    /\ DeploysTypeOK /\ ExecutorTypeOK /\ RollbackTypeOK /\ WatcherTypeOK
    /\ HealthMonTypeOK /\ TriggersTypeOK
    /\ spent \in Nat /\ lost \subseteq Name

TypeInv ==
    /\ Typed /\ EventsKnown /\ TasksKnown /\ ExecKnown /\ RbKnown
    /\ WatKnown /\ MonKnown /\ ReqsKnown /\ DownIsEmpty

-----------------------------------------------------------------------------
\* A Recreate that got past the remove has left its container gone for good,
\* which is why the other actor's remove of it fails.
RemovedGone ==
    \A a \in Actor : task[a].pc \in PastRemove => ctr[task[a].id].st = "gone"

ReplaceInv == RemovedGone /\ OneReplacement

\* A tracked state bears the name of the container it is found under.
NamesMatch == \A i \in Id : keys[i] # 0 =>
    ctr[i].st # "none" /\ heap[keys[i]].name = ctr[i].name

\* What the executor is working on is not one of the services held back.
ExecNotHeld ==
    exec.pc # "idle" =>
        ctr[exec.p.id].st # "none" /\ ctr[exec.p.id].name \notin Held

StoreInv == KeyedById /\ NamesMatch

HeldInv == StoreInv /\ ExecNotHeld /\ HeldUntouched

-----------------------------------------------------------------------------
\* The job of the update under way is a container's, under the event's name.
JobInHand ==
    exec.pc # "idle" =>
        /\ exec.job \in DOMAIN jobs
        /\ jobs[exec.job].key = <<"container", exec.p.name>>

ActiveInv == JobInHand /\ ActiveIsApplying

-----------------------------------------------------------------------------
\* A container that was not created has not run.
RanBorn == \A i \in Id : ctr[i].ran => ctr[i].st # "none"

\* A Recreate gives its new container what its reference pins, and is done
\* when that has been started.
TaskRuns(t) ==
    /\ t.pc \in {"stop", "remove", "create", "start", "done"}
         /\ t.ref # NoDigest => t.runs = t.ref
    /\ t.pc \in {"start", "done"} => ctr[t.new].runs = t.runs
    /\ t.pc = "done" => ctr[t.new].ran

TasksRun == \A a \in Actor : TaskRuns(task[a])

\* Each actor's Recreate pins what its event asked for.
RefsPinned ==
    /\ exec.pc # "idle" => task["exec"].ref = Pin(exec.p.image, exec.p.new)
    /\ rb.pc # "idle" => /\ task["rb"].ref = Pin(rb.p.image, rb.p.prev)
                         /\ rb.p.prev # NoDigest

RunInv == RanBorn /\ TasksRun /\ RefsPinned /\ AppliedHasRun

-----------------------------------------------------------------------------
\* Among the containers c one of this name has run on this digest.
RanOn(c, n, d) == \E i \in Id : c[i].name = n /\ c[i].ran /\ c[i].runs = d

HasRun(n, d) == RanOn(ctr, n, d)

RingRan(e) ==
    e.name \notin PollMode =>
        \A k \in DOMAIN e.hist : e.hist[k] # NoDigest => HasRun(e.name, e.hist[k])

\* ... also of the states that the map has forgotten and somebody still has.
RingsRan == \A p \in Ptr : RingRan(heap[p])

\* The state that a digest is going to be pushed to bears the name of the
\* container that was replaced.
ExecNamed ==
    exec.pc # "idle" =>
        /\ exec.cs \in Ptr /\ heap[exec.cs].name = ctr[exec.p.id].name
        /\ ctr[exec.p.id].st # "none"

RbNamed ==
    rb.pc = "push" /\ rb.cs # 0 =>
        rb.cs \in Ptr /\ heap[rb.cs].name = ctr[rb.p.id].name

PushNamed == ExecNamed /\ RbNamed

\* Only a polled service's ring is seeded from its row.
SeedPolled(r) ==
    /\ r.pc = "sweep" => r.kind = "sweep"
    /\ r.pc = "head" /\ r.kind = "service" => r.name \in PollMode
    /\ r.pc = "read" /\ r.kind = "service" => heap[r.p].name \in PollMode
    /\ r.pc = "seed" => heap[r.p].name \in PollMode

SeedsPolled == \A s \in Slot : SeedPolled(req[s])

RingInv == RunInv /\ StoreInv /\ PushNamed /\ SeedsPolled /\ RingsRan

-----------------------------------------------------------------------------
\* The daemon has one container to a name.
OneEach ==
    \A i, j \in Id :
        Present(i) /\ Present(j) /\ ctr[i].name = ctr[j].name => i = j

\* A container that does not run because of a Recreate, which has just
\* stopped it or is about to start it.
Attends(a, i) ==
    \/ ctr[i].st = "exited" /\ task[a].pc = "remove" /\ task[a].id = i
    \/ ctr[i].st = "created" /\ task[a].pc = "start" /\ task[a].new = i

\* That is why a container of a service nobody took down does not run.
AttendedBy(i) ==
    ctr[i].st \in {"exited", "created"} /\ ctr[i].name \notin lost =>
        \E a \in Actor : Attends(a, i)

Attended == \A i \in Id : AttendedBy(i)

\* The Recreate that still has to start a container under this name.
Owes(a, n) ==
    /\ task[a].name = n
    /\ task[a].pc = "create" \/ \E i \in Id : Attends(a, i)

OwedFor(n) == Running(n) \/ n \in lost \/ \E a \in Actor : Owes(a, n)

Owed == \A n \in Name : OwedFor(n)

UpInv == OneEach /\ Attended /\ Owed

-----------------------------------------------------------------------------
\* Before the process listens nothing is under way in it.
NotUpYet ==
    proc # "up" =>
        /\ stream = <<>> /\ qImage = <<>> /\ qUnhealthy = <<>>
        /\ exec.pc = "idle" /\ rb.pc = "idle" /\ wat.pc = "idle"
        /\ \A a \in Actor : task[a].pc = "idle"
        /\ \A s \in Slot : req[s].pc = "idle"

\* The events to come that say this of this container.
Tells(q, k, i) == stream[q].kind = k /\ stream[q].id = i

Coming(k, i) == \E q \in DOMAIN stream : Tells(q, k, i)

\* Events bear the name of their container, which carries the label.
EventNamed(e) ==
    e.kind \in {"start", "destroy"} =>
        /\ e.name = ctr[e.id].name /\ e.name \in Labelled
        /\ e.kind = "destroy" => ctr[e.id].st = "gone"

EventsNamed == \A q \in DOMAIN stream : EventNamed(stream[q])

\* What is tracked, or about to be, carries the label; if it is gone the
\* event that makes the watcher forget it is still to come.
Minded(i) == keys[i] # 0 \/ (wat.pc = "upsert" /\ wat.id = i)

Forgets(i) ==
    Minded(i) => /\ ctr[i].name \in Labelled
                 /\ ctr[i].st = "gone" => Coming("destroy", i)

\* What runs is tracked, or the event that makes it so is still to come.
Learns(i) ==
    ctr[i].st = "running" /\ ctr[i].name \in Labelled =>
        Minded(i) \/ Coming("start", i)

\* The one's end is not told without the other's being told after it.
EndsAfter(i, j) ==
    \A q \in DOMAIN stream : Tells(q, "destroy", i) =>
        \E r \in DOMAIN stream : r > q /\ Tells(r, "destroy", j)

\* Of a replacement the new container's end comes after the old one's, so
\* that a Rekey between the two does not keep the watcher from forgetting.
EndsInOrder(t) ==
    t.pc = "done" /\ ctr[t.new].st = "gone" => EndsAfter(t.id, t.new)

TrackInv ==
    /\ EventsNamed
    /\ \A i \in Id : Forgets(i)
    /\ proc # "down" => \A i \in Id : Learns(i)
    /\ \A a \in Actor : EndsInOrder(task[a])

MatchInv == NotUpYet /\ TrackInv
=============================================================================
