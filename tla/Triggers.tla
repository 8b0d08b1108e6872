------------------------------ MODULE Triggers ------------------------------
(***************************************************************************)
(* Everything that asks for an update or a rollback from outside the       *)
(* pipeline: the webhook handlers, the poller's registry sweep and         *)
(* per-service checks, and the API's manual update and rollback.  Each     *)
(* runs in a goroutine of its own, Slot many at a time.                    *)
(***************************************************************************)
EXTENDS Store, Topics, Deploys

CONSTANTS
    Slot,      \* bound: request goroutines at one time
    Service,   \* names with a row in the services table
    PollMode   \* those whose trigger_mode is "poll"

ASSUME TriggersAssumption == PollMode \subseteq Service /\ Service \subseteq Name

VARIABLES
    req,        \* each goroutine's place and locals
    lastDigest  \* services.last_digest, on disk

NoReq == [pc |-> "idle", kind |-> "none", name |-> NoName, p |-> 0,
          cur |-> NoDigest, dig |-> NoDigest, todo |-> {}]

Request ==
    [pc: {"idle", "send", "sweep", "head", "read", "seed", "act", "rollback"},
     kind: {"none", "push", "hub", "sweep", "service", "update", "rollback"},
     name: Name \cup {NoName}, p: Nat, cur: Image, dig: Image,
     todo: SUBSET Nat]

TriggersTypeOK ==
    /\ req \in [Slot -> Request]
    /\ lastDigest \in [Name -> Image]

Idle(s) == req[s].pc = "idle"
Set(s, r) == req' = [req EXCEPT ![s] = r]

\* containersForImage: the stored string must be the bare "repo:tag"; cutting
\* a pinned one at its last ":" leaves "repo:tag@sha256".
Matching(n) == {p \in Tracked : heap[p].name = n /\ heap[p].image = NoDigest}

\* handlePush: refused when a matching container's service is polled.
PushRefused(n) == Matching(n) # {} /\ n \in PollMode

PushBegin(s, n, d) ==
    /\ Idle(s)
    /\ IF PushRefused(n)
       THEN RecordRow("skipped") /\ UNCHANGED req
       ELSE /\ Set(s, [NoReq EXCEPT !.pc = "send", !.kind = "push", !.name = n,
                                    !.dig = d, !.todo = Matching(n)])
            /\ UNCHANGED rows
    /\ UNCHANGED <<storeVars, jobs, active, lastDigest, qImage, qUnhealthy>>

\* handleDockerHub: no digest, no job.
HubBegin(s, n) ==
    /\ Idle(s)
    /\ Set(s, [NoReq EXCEPT !.pc = "send", !.kind = "hub", !.name = n,
                            !.todo = IF n \in PollMode THEN {} ELSE Matching(n)])
    /\ UNCHANGED <<storeVars, deployVars, lastDigest, qImage, qUnhealthy>>

\* dispatch: one image.updated per matching container.
SendOne(s) ==
    /\ req[s].pc = "send"
    /\ \E p \in req[s].todo :
         /\ Set(s, [req[s] EXCEPT !.todo = req[s].todo \ {p}])
         /\ qImage' = Publish(qImage, [id |-> heap[p].id, name |-> heap[p].name,
                                       image |-> NoDigest, new |-> req[s].dig])
    /\ UNCHANGED <<storeVars, deployVars, lastDigest, qUnhealthy>>

\* handlePush registers a queued job of its own and answers with its id.
SendDone(s) ==
    /\ req[s].pc = "send" /\ req[s].todo = {}
    /\ IF req[s].kind = "push"
       THEN Register(<<"image", req[s].name>>, "queued")
       ELSE UNCHANGED <<jobs, active>>
    /\ Set(s, NoReq)
    /\ UNCHANGED <<storeVars, rows, lastDigest, qImage, qUnhealthy>>

\* poll: the cron sweep over the containers the services table leaves.
SweepBegin(s) ==
    /\ Idle(s)
    /\ Set(s, [NoReq EXCEPT !.pc = "sweep", !.kind = "sweep",
                 !.todo = {p \in Tracked : heap[p].name \notin Service}])
    /\ UNCHANGED <<storeVars, deployVars, lastDigest, qImage, qUnhealthy>>

\* HeadDigest answers with the tag's digest, or fails and the loop goes on.
SweepHead(s) ==
    /\ req[s].pc = "sweep"
    /\ \E p \in req[s].todo :
         \/ Set(s, [req[s] EXCEPT !.pc = "read", !.p = p, !.todo = req[s].todo \ {p},
                                  !.dig = reg[heap[p].name]])
         \/ Set(s, [req[s] EXCEPT !.todo = req[s].todo \ {p}])
    /\ UNCHANGED <<storeVars, deployVars, lastDigest, qImage, qUnhealthy>>

SweepDone(s) ==
    /\ req[s].pc = "sweep" /\ req[s].todo = {}
    /\ Set(s, NoReq)
    /\ UNCHANGED <<storeVars, deployVars, lastDigest, qImage, qUnhealthy>>

\* dispatch of the poller: the goroutine keeps the service row as it is now.
ServiceBegin(s, n) ==
    /\ Idle(s) /\ n \in PollMode
    /\ Set(s, [NoReq EXCEPT !.pc = "head", !.kind = "service", !.name = n,
                            !.cur = lastDigest[n]])
    /\ UNCHANGED <<storeVars, deployVars, lastDigest, qImage, qUnhealthy>>

\* checkService: HeadDigest, UpdateDigest, GetByName.
ServiceHead(s) ==
    /\ req[s].pc = "head" /\ req[s].kind = "service"
    /\ LET n == req[s].name
           found == {p \in Tracked : heap[p].name = n}
       IN  /\ lastDigest' = [lastDigest EXCEPT ![n] = reg[n]]
           /\ \/ found = {} /\ Set(s, NoReq)
              \/ \E p \in found :
                   Set(s, [req[s] EXCEPT !.pc = "read", !.p = p,
                                         !.dig = reg[n]])
    /\ UNCHANGED <<storeVars, deployVars, qImage, qUnhealthy>>

\* compareAndPublish reads the current digest; with an empty ring a service
\* falls back on its last digest ...
CompareRead(s) ==
    /\ req[s].pc = "read"
    /\ LET r == req[s]
           seed == /\ CurrentDigest(r.p) = NoDigest
                   /\ r.kind = "service" /\ r.cur # NoDigest
       IN  Set(s, IF seed THEN [r EXCEPT !.pc = "seed"]
                  ELSE [r EXCEPT !.pc = "act", !.cur = CurrentDigest(r.p)])
    /\ UNCHANGED <<storeVars, deployVars, lastDigest, qImage, qUnhealthy>>

\* ... and seeds the ring with it ...
CompareSeed(s) ==
    /\ req[s].pc = "seed"
    /\ PushDigest(req[s].p, req[s].cur)
    /\ Set(s, [req[s] EXCEPT !.pc = "act"])
    /\ UNCHANGED <<keys, deployVars, lastDigest, qImage, qUnhealthy>>

\* ... then publishes when the registry's digest is another one.
CompareAct(s) ==
    /\ req[s].pc = "act"
    /\ LET r == req[s]
       IN  /\ qImage' = IF r.dig = r.cur THEN qImage
                        ELSE Publish(qImage, [id |-> heap[r.p].id,
                                              name |-> heap[r.p].name,
                                              image |-> heap[r.p].image,
                                              new |-> r.dig])
           /\ Set(s, IF r.kind = "sweep"
                     THEN [r EXCEPT !.pc = "sweep", !.p = 0,
                                    !.cur = NoDigest, !.dig = NoDigest]
                     ELSE NoReq)
    /\ UNCHANGED <<storeVars, deployVars, lastDigest, qUnhealthy>>

\* handleUpdate: the current digest is read before the registry is asked.
UpdateBegin(s, i) ==
    /\ Idle(s) /\ keys[i] # 0
    /\ Set(s, [NoReq EXCEPT !.pc = "head", !.kind = "update", !.p = keys[i],
                            !.cur = CurrentDigest(keys[i])])
    /\ UNCHANGED <<storeVars, deployVars, lastDigest, qImage, qUnhealthy>>

UpdateHead(s) ==
    /\ req[s].pc = "head" /\ req[s].kind = "update"
    /\ Set(s, [req[s] EXCEPT !.pc = "act", !.dig = reg[heap[req[s].p].name]])
    /\ UNCHANGED <<storeVars, deployVars, lastDigest, qImage, qUnhealthy>>

\* handleRollback: PreviousDigest, then CurrentDigest under a second lock.
RollbackBegin(s, i) ==
    /\ Idle(s) /\ keys[i] # 0
    /\ PreviousDigest(keys[i]) # NoDigest
    /\ Set(s, [NoReq EXCEPT !.pc = "rollback", !.kind = "rollback",
                            !.p = keys[i], !.cur = PreviousDigest(keys[i])])
    /\ UNCHANGED <<storeVars, deployVars, lastDigest, qImage, qUnhealthy>>

RollbackSend(s) ==
    /\ req[s].pc = "rollback"
    /\ LET p == req[s].p
       IN  qUnhealthy' = Publish(qUnhealthy,
               [id |-> heap[p].id, name |-> heap[p].name,
                image |-> heap[p].image, applied |-> CurrentDigest(p),
                prev |-> req[s].cur])
    /\ Set(s, NoReq)
    /\ UNCHANGED <<storeVars, deployVars, lastDigest, qImage>>

\* What a goroutine does once it has begun.
RequestStep(s) ==
    /\ \/ SendOne(s) \/ SendDone(s) \/ SweepHead(s) \/ SweepDone(s)
       \/ ServiceHead(s) \/ CompareRead(s) \/ CompareSeed(s)
       \/ CompareAct(s) \/ UpdateHead(s) \/ RollbackSend(s)
    /\ UNCHANGED <<dockerVars, qApplied>>
=============================================================================
