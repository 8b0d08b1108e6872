------------------------------ MODULE Rollback ------------------------------
(***************************************************************************)
(* internal/rollback: one goroutine takes container.unhealthy events and   *)
(* recreates the container on the digest before its last update.           *)
(***************************************************************************)
EXTENDS Store, Topics, Recreate

VARIABLE rb   \* where handle() is, with its locals

NoUnhealthy == [id |-> NoId, name |-> NoName, image |-> NoDigest,
                applied |-> NoDigest, prev |-> NoDigest]

RbIdle == [pc |-> "idle", p |-> NoUnhealthy, cs |-> 0]

RollbackTypeOK ==
    rb \in [pc: {"idle", "restore", "push"},
            p: Unhealthy \cup {NoUnhealthy}, cs: Nat]

\* The log line slices AppliedDigest[:16] before anything else is looked at:
\* an empty digest ends the process (see Panic in Pipeline).
RbPanics == rb.pc = "idle" /\ qUnhealthy # <<>>
            /\ Head(qUnhealthy).applied = NoDigest

RbAbort ==
    /\ rb.pc = "idle" /\ qUnhealthy # <<>>
    /\ Head(qUnhealthy).applied # NoDigest
    /\ Head(qUnhealthy).prev = NoDigest
    /\ qUnhealthy' = Tail(qUnhealthy)
    /\ UNCHANGED <<rb, task, storeVars, ctr, stream>>

RbRestore ==
    /\ rb.pc = "idle" /\ qUnhealthy # <<>>
    /\ LET p == Head(qUnhealthy)
       IN  /\ p.applied # NoDigest /\ p.prev # NoDigest
           /\ Start("rb", p.id, Pin(p.image, p.prev))
           /\ rb' = [pc |-> "restore", p |-> p, cs |-> 0]
    /\ qUnhealthy' = Tail(qUnhealthy)
    /\ UNCHANGED <<storeVars, ctr, stream>>

RbFail ==
    /\ rb.pc = "restore" /\ task["rb"].pc = "failed"
    /\ Finish("rb")
    /\ rb' = RbIdle
    /\ UNCHANGED <<storeVars, qUnhealthy, ctr, stream>>

\* cs = Rekey(old, new), or Get(old) when it is nil.
RbRekey ==
    /\ rb.pc = "restore" /\ task["rb"].pc = "done"
    /\ Rekey(rb.p.id, task["rb"].new)
    /\ rb' = [rb EXCEPT !.pc = "push", !.cs = keys[rb.p.id]]
    /\ UNCHANGED <<task, qUnhealthy, ctr, stream>>

\* PushDigest of the restored digest, Publish(rollback.done).
RbPublish ==
    /\ rb.pc = "push"
    /\ IF rb.cs = 0 THEN UNCHANGED heap ELSE PushDigest(rb.cs, rb.p.prev)
    /\ Finish("rb")
    /\ rb' = RbIdle
    /\ UNCHANGED <<keys, qUnhealthy, ctr, stream>>

RollbackStep ==
    /\ \/ RbAbort \/ RbRestore \/ RbFail \/ RbRekey \/ RbPublish
    /\ UNCHANGED <<reg, proc, qImage, qApplied>>
=============================================================================
