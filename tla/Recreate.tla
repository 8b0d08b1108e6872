------------------------------ MODULE Recreate ------------------------------
(***************************************************************************)
(* dockerclient.Recreate: inspect, pull, stop, remove, create, start, one  *)
(* daemon call per step.  The executor and the rollback engine each run it *)
(* in their own goroutine, with no lock between them.                      *)
(***************************************************************************)
EXTENDS Docker

VARIABLE task   \* what each caller's Recreate is about to do

Actor == {"exec", "rb"}

Call == {"inspect", "pull", "stop", "remove", "create", "start"}

Task == [pc: Call \cup {"idle", "done", "failed"}, id: Id \cup {NoId},
         ref: Image \cup {BadRef}, name: Name \cup {NoName},
         runs: Image, new: Id \cup {NoId}]

NoTask == [pc |-> "idle", id |-> NoId, ref |-> NoDigest, name |-> NoName,
           runs |-> NoDigest, new |-> NoId]

RecreateTypeOK == task \in [Actor -> Task]

\* Variant with a bug: the digest is left out.
PinTagOnly(image, d) == image

\* image + "@" + digest; a reference that is already pinned does not parse.
Pin(image, d) == IF image = NoDigest THEN d ELSE BadRef

Start(a, i, ref) ==
    task' = [task EXCEPT ![a] = [NoTask EXCEPT !.pc = "inspect", !.id = i,
                                               !.ref = ref]]

Finish(a) == task' = [task EXCEPT ![a] = NoTask]

Goto(a, l) == task' = [task EXCEPT ![a] = [@ EXCEPT !.pc = l]]

\* A call on a container the daemon no longer has, or an error it returns.
Abandon(a) == Goto(a, "failed") /\ UNCHANGED <<ctr, stream>>

InspectCall(a) ==
    /\ task[a].pc = "inspect"
    /\ IF Present(task[a].id)
       THEN /\ task' = [task EXCEPT ![a] = [@ EXCEPT !.pc = "pull",
                                            !.name = ctr[task[a].id].name]]
            /\ UNCHANGED <<ctr, stream>>
       ELSE Abandon(a)

\* A pinned reference resolves to its digest, a bare tag to the registry's.
PullCall(a) ==
    /\ task[a].pc = "pull"
    /\ IF task[a].ref = BadRef
       THEN Abandon(a)
       ELSE /\ task' = [task EXCEPT ![a] =
                          [@ EXCEPT !.pc = "stop",
                                    !.runs = IF task[a].ref = NoDigest
                                             THEN reg[task[a].name]
                                             ELSE task[a].ref]]
            /\ UNCHANGED <<ctr, stream>>

StopCall(a) ==
    /\ task[a].pc = "stop"
    /\ IF Present(task[a].id)
       THEN DockerStop(task[a].id) /\ Goto(a, "remove")
       ELSE Abandon(a)

\* Variant with a bug: the error of a remove is not looked at.
RemoveCallUnchecked(a) ==
    /\ task[a].pc = "remove"
    /\ Goto(a, "create")
    /\ IF Present(task[a].id) THEN DockerRemove(task[a].id)
       ELSE UNCHANGED <<ctr, stream>>

RemoveCall(a) ==
    /\ task[a].pc = "remove"
    /\ IF Present(task[a].id)
       THEN DockerRemove(task[a].id) /\ Goto(a, "create")
       ELSE Abandon(a)

CreateCall(a) ==
    /\ task[a].pc = "create"
    /\ IF NameFree(task[a].name)
       THEN \E j \in Id :
              /\ Unused(j)
              /\ DockerCreate(j, task[a].name, task[a].ref, task[a].runs)
              /\ task' = [task EXCEPT ![a] = [@ EXCEPT !.pc = "start",
                                                       !.new = j]]
       ELSE Abandon(a)

\* Variant with a bug: the new container is created and never started.
StartCallMissing(a) ==
    /\ task[a].pc = "start"
    /\ Goto(a, "done")
    /\ UNCHANGED <<ctr, stream>>

StartCall(a) ==
    /\ task[a].pc = "start"
    /\ IF Present(task[a].new)
       THEN DockerStart(task[a].new) /\ Goto(a, "done")
       ELSE Abandon(a)

RecreateStep(a) ==
    /\ \/ InspectCall(a) \/ PullCall(a) \/ StopCall(a)
       \/ RemoveCall(a) \/ CreateCall(a) \/ StartCall(a)
    /\ UNCHANGED <<reg, proc>>

\* Any call may return an error without having changed anything: the daemon
\* or the registry refuses, or the context was cancelled under the call.
CallFails(a) ==
    /\ task[a].pc \in Call
    /\ Abandon(a)
    /\ UNCHANGED <<reg, proc>>
=============================================================================
