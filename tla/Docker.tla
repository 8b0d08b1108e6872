------------------------------- MODULE Docker -------------------------------
(***************************************************************************)
(* The Docker daemon and the image registry, as dockwatch's scoped client  *)
(* (internal/dockerclient/scoped.go) uses them: containers with an id and  *)
(* a name, the label-filtered event stream, and the digest each service's  *)
(* repo:tag resolves to.  The daemon itself is external.                   *)
(*                                                                         *)
(* Every service has one image reference "repo:tag", so a service's Name   *)
(* also stands for it.  An image string is then told by the digest that    *)
(* pins it: NoDigest is "repo:tag", d is "repo:tag@d".                     *)
(***************************************************************************)
EXTENDS Naturals, Sequences

CONSTANTS
    Name,       \* service (container) names
    Digest,     \* image digests
    NoDigest,   \* the empty digest string ""; as an image, the bare "repo:tag"
    BadRef,     \* a reference with two digests, "repo:tag@d1@d2"
    NoName,     \* the name of a container that was never created
    Labelled,   \* services whose containers carry dockwatch.watch=true
    MaxId       \* bound: container ids the daemon can hand out

ASSUME DockerAssumption ==
    /\ NoDigest \notin Digest
    /\ BadRef \notin Digest \cup {NoDigest}
    /\ Name # {} /\ NoName \notin Name
    /\ Labelled \subseteq Name
    /\ MaxId \in Nat \ {0}

Id == 1..MaxId
NoId == 0                           \* the empty container id ""
Image == Digest \cup {NoDigest}

VARIABLES
    ctr,     \* the daemon's containers, by id
    reg,     \* the digest each service's tag resolves to in the registry
    stream,  \* events on dockwatch's open event stream, oldest first
    proc     \* dockwatch's process: "down", "seeded" (listed), "up" (listening)

dockerVars == <<ctr, reg, stream, proc>>

Unborn == [st |-> "none", name |-> NoName, image |-> NoDigest,
           runs |-> NoDigest, ran |-> FALSE, sick |-> FALSE]

Container ==
    [st: {"none", "created", "running", "exited", "gone"},
     name: Name \cup {NoName}, image: Image, runs: Image,
     ran: BOOLEAN, sick: BOOLEAN]

\* One event of the stream: "start" carries the container's image string,
\* "pull" (an image event) carries the digest in place of an id.
Event == [kind: {"start", "destroy", "unhealthy", "pull"},
          id: Id \cup {NoId}, name: Name, dig: Image]

DockerTypeOK ==
    /\ ctr \in [Id -> Container]
    /\ \A i \in Id : ctr[i].st # "none" => ctr[i].name \in Name
    /\ reg \in [Name -> Digest]
    /\ stream \in Seq(Event)
    /\ proc \in {"down", "seeded", "up"}

-----------------------------------------------------------------------------
(* What the daemon does for a call.  Each operator gives ctr' and stream'. *)

Present(i) == ctr[i].st \in {"created", "running", "exited"}
Running(n) == \E i \in Id : ctr[i].name = n /\ ctr[i].st = "running"
NameFree(n) == \A i \in Id : ctr[i].name = n => ~Present(i)
Unused(i) == ctr[i].st = "none" /\ \A j \in Id : ctr[j].st = "none" => i <= j

\* Variant with a bug: the subscription does not filter by label.
EmitAny(k, i, n, d) ==
    stream' = IF proc = "up"
              THEN Append(stream, [kind |-> k, id |-> i, name |-> n, dig |-> d])
              ELSE stream

\* StreamEvents: only labelled objects, and only while dockwatch listens.
Emit(k, i, n, d) ==
    stream' = IF proc = "up" /\ n \in Labelled
              THEN Append(stream, [kind |-> k, id |-> i, name |-> n, dig |-> d])
              ELSE stream

DockerStop(i) ==
    /\ ctr' = [ctr EXCEPT ![i].st = IF @ = "running" THEN "exited" ELSE @]
    /\ UNCHANGED stream

DockerRemove(i) ==
    /\ ctr' = [ctr EXCEPT ![i].st = "gone"]
    /\ Emit("destroy", i, ctr[i].name, NoDigest)

DockerCreate(i, n, img, d) ==
    /\ ctr' = [ctr EXCEPT ![i] =
                 [st |-> "created", name |-> n, image |-> img, runs |-> d,
                  ran |-> FALSE, sick |-> FALSE]]
    /\ UNCHANGED stream

DockerStart(i) ==
    /\ ctr' = [ctr EXCEPT ![i] =
                 [@ EXCEPT !.st = "running", !.ran = TRUE, !.sick = FALSE]]
    /\ Emit("start", i, ctr[i].name, ctr[i].image)

\* ListContainers: every labelled container, running or not.
Listed == {i \in Id : Present(i) /\ ctr[i].name \in Labelled}
=============================================================================
