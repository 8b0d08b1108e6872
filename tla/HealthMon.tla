------------------------------ MODULE HealthMon ------------------------------
(***************************************************************************)
(* internal/healthmon: a watch goroutine per updated container polls its   *)
(* health during the grace window and reports the first unhealthy status.  *)
(* Container ids are unique here, so no id is ever watched twice; the      *)
(* races of two watches of one id are a matter of the dry-run ids.         *)
(***************************************************************************)
EXTENDS Store, Topics

VARIABLE mon   \* the watch goroutine of each container id

MonOff == [pc |-> "off", name |-> NoName, image |-> NoDigest, new |-> NoDigest]

HealthMonTypeOK ==
    mon \in [Id -> [pc: {"off", "watching", "report"},
                    name: Name \cup {NoName}, image: Image, new: Image]]

\* startWatch; the payload stays with the goroutine.
MonStart ==
    /\ qApplied # <<>>
    /\ LET p == Head(qApplied)
       IN  mon' = [mon EXCEPT ![p.id] = [pc |-> "watching", name |-> p.name,
                                         image |-> p.image, new |-> p.new]]
    /\ qApplied' = Tail(qApplied)
    /\ UNCHANGED qUnhealthy

\* A tick: checkHealth answers "unhealthy".  Any other answer, and an
\* inspect error, leave the goroutine waiting for the next tick.
MonDetect(i) ==
    /\ mon[i].pc = "watching"
    /\ Present(i) /\ ctr[i].sick
    /\ mon' = [mon EXCEPT ![i].pc = "report"]
    /\ UNCHANGED <<qApplied, qUnhealthy>>

\* Then Get, PreviousDigest and Publish, and the goroutine ends.
MonReport(i) ==
    /\ mon[i].pc = "report"
    /\ LET prev == IF keys[i] = 0 THEN NoDigest ELSE PreviousDigest(keys[i])
       IN  qUnhealthy' = Publish(qUnhealthy,
               [id |-> i, name |-> mon[i].name, image |-> mon[i].image,
                applied |-> mon[i].new, prev |-> prev])
    /\ mon' = [mon EXCEPT ![i] = MonOff]
    /\ UNCHANGED qApplied

\* The grace window ends first.
MonExpire(i) ==
    /\ mon[i].pc = "watching"
    /\ mon' = [mon EXCEPT ![i] = MonOff]
    /\ UNCHANGED <<qApplied, qUnhealthy>>

HealthMonStep ==
    /\ proc = "up"
    /\ \/ MonStart
       \/ \E i \in Id : MonDetect(i) \/ MonReport(i) \/ MonExpire(i)
    /\ UNCHANGED <<dockerVars, storeVars, qImage>>
=============================================================================
