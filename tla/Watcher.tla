------------------------------- MODULE Watcher -------------------------------
(***************************************************************************)
(* internal/watcher: one goroutine follows the daemon's event stream and   *)
(* keeps the store in step with it, reports unhealthy containers and the   *)
(* images pulled on the host.                                              *)
(***************************************************************************)
EXTENDS Store, Topics

VARIABLE wat   \* the event in hand, with what was read for it so far

WatIdle == [pc |-> "idle", id |-> NoId, name |-> NoName, image |-> NoDigest,
            applied |-> NoDigest, todo |-> {}]

WatcherTypeOK ==
    wat \in [pc: {"idle", "upsert", "report", "pull"}, id: Id \cup {NoId},
             name: Name \cup {NoName}, image: Image, applied: Image,
             todo: SUBSET Nat]

NextEvent(k) == wat.pc = "idle" /\ stream # <<>> /\ Head(stream).kind = k

\* start: inspect the container; the image string comes from the event.
WatchStart ==
    /\ NextEvent("start")
    /\ LET ev == Head(stream)
       IN  wat' = IF Present(ev.id)
                  THEN [WatIdle EXCEPT !.pc = "upsert", !.id = ev.id,
                                       !.name = ctr[ev.id].name,
                                       !.image = ev.dig]
                  ELSE wat
    /\ stream' = Tail(stream)
    /\ UNCHANGED <<storeVars, qImage, qUnhealthy>>

WatchUpsert ==
    /\ wat.pc = "upsert"
    /\ Upsert(wat.id, wat.name, wat.image)
    /\ wat' = WatIdle
    /\ UNCHANGED <<stream, qImage, qUnhealthy>>

\* Variant with a bug: destroy is taken for an event of no interest.
WatchDestroyIgnored ==
    /\ NextEvent("destroy")
    /\ stream' = Tail(stream)
    /\ UNCHANGED <<wat, storeVars, qImage, qUnhealthy>>

WatchDestroy ==
    /\ NextEvent("destroy")
    /\ Remove(Head(stream).id)
    /\ stream' = Tail(stream)
    /\ UNCHANGED <<wat, qImage, qUnhealthy>>

\* unhealthy: Get, CurrentDigest ...
WatchUnhealthy ==
    /\ NextEvent("unhealthy")
    /\ LET cs == keys[Head(stream).id]
       IN  wat' = IF cs = 0 THEN wat
                  ELSE [WatIdle EXCEPT !.pc = "report", !.todo = {cs},
                                       !.applied = CurrentDigest(cs)]
    /\ stream' = Tail(stream)
    /\ UNCHANGED <<storeVars, qImage, qUnhealthy>>

\* ... then PreviousDigest under a second lock, and Publish.
WatchReport ==
    /\ wat.pc = "report"
    /\ \E cs \in wat.todo :
         qUnhealthy' = Publish(qUnhealthy,
             [id |-> heap[cs].id, name |-> heap[cs].name,
              image |-> heap[cs].image,
              applied |-> wat.applied, prev |-> PreviousDigest(cs)])
    /\ wat' = WatIdle
    /\ UNCHANGED <<stream, storeVars, qImage>>

\* pull: a snapshot of the entries with this repo:tag, pinned or not ...
WatchPull ==
    /\ NextEvent("pull")
    /\ wat' = [WatIdle EXCEPT !.pc = "pull", !.name = Head(stream).name,
                 !.image = Head(stream).dig,
                 !.todo = {p \in Tracked : heap[p].name = Head(stream).name}]
    /\ stream' = Tail(stream)
    /\ UNCHANGED <<storeVars, qImage, qUnhealthy>>

\* ... and an update for each that is not at the digest, in map order.
WatchPullOne ==
    /\ wat.pc = "pull"
    /\ \E p \in wat.todo :
         /\ wat' = [wat EXCEPT !.todo = @ \ {p}]
         /\ qImage' = IF CurrentDigest(p) = wat.image THEN qImage
                      ELSE Publish(qImage, [id |-> heap[p].id,
                                            name |-> heap[p].name,
                                            image |-> NoDigest,
                                            new |-> wat.image])
    /\ UNCHANGED <<stream, storeVars, qUnhealthy>>

WatchPullDone ==
    /\ wat.pc = "pull" /\ wat.todo = {}
    /\ wat' = WatIdle
    /\ UNCHANGED <<stream, storeVars, qImage, qUnhealthy>>

WatcherStep ==
    /\ proc = "up"
    /\ \/ WatchStart \/ WatchUpsert \/ WatchDestroy
       \/ WatchUnhealthy \/ WatchReport
       \/ WatchPull \/ WatchPullOne \/ WatchPullDone
    /\ UNCHANGED <<ctr, reg, proc, qApplied>>
=============================================================================
