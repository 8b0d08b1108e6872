------------------------------ MODULE Executor ------------------------------
(***************************************************************************)
(* internal/executor, direct Docker path: one goroutine takes image.updated*)
(* events one at a time and, when the container's labels allow it, makes a *)
(* deploy record, runs Recreate and moves the store entry to the new id.   *)
(***************************************************************************)
EXTENDS Store, Topics, Recreate, Deploys

CONSTANT Held   \* services whose update label or semver strategy says skip

ASSUME ExecutorAssumption == Held \subseteq Name

VARIABLE exec   \* where handle() is, with its locals

NoUpdate == [id |-> NoId, name |-> NoName, image |-> NoDigest, new |-> NoDigest]

\* handle() up to the Recreate call; the Recreate; Rekey; PushDigest and on.
ExecIdle == [pc |-> "idle", p |-> NoUpdate, cs |-> 0, job |-> 0, row |-> 0]

ExecutorTypeOK ==
    exec \in [pc: {"idle", "apply", "rekey", "push"},
              p: ImageUpdated \cup {NoUpdate},
              cs: Nat, job: Nat, row: Nat]

execView == <<reg, proc, qUnhealthy>>   \* never touched here

\* Get returns nil, or the labels say not to apply: the event is consumed.
ExecIgnore ==
    /\ exec.pc = "idle" /\ qImage # <<>>
    /\ LET cs == keys[Head(qImage).id] IN cs # 0 => heap[cs].name \in Held
    /\ qImage' = Tail(qImage)
    /\ UNCHANGED <<exec, task, storeVars, deployVars, qApplied, ctr, stream>>

\* Variant with a bug: the strategy is evaluated and not obeyed.
ExecApplyAlways ==
    /\ exec.pc = "idle" /\ qImage # <<>>
    /\ LET p  == Head(qImage)
           cs == keys[p.id]
       IN  /\ cs # 0
           /\ Register(<<"container", p.name>>, "running")
           /\ RecordRow("running")
           /\ Start("exec", p.id, Pin(p.image, p.new))
           /\ exec' = [pc |-> "apply", p |-> p, cs |-> cs,
                       job |-> Len(jobs) + 1, row |-> Len(rows) + 1]
    /\ qImage' = Tail(qImage)
    /\ UNCHANGED <<storeVars, qApplied, ctr, stream>>

\* NewJob, Register, Transition(running), RecordDeploy, then Recreate begins.
ExecApply ==
    /\ exec.pc = "idle" /\ qImage # <<>>
    /\ LET p  == Head(qImage)
           cs == keys[p.id]
       IN  /\ cs # 0
           /\ heap[cs].name \notin Held
           /\ Register(<<"container", p.name>>, "running")
           /\ RecordRow("running")
           /\ Start("exec", p.id, Pin(p.image, p.new))
           /\ exec' = [pc |-> "apply", p |-> p, cs |-> cs,
                       job |-> Len(jobs) + 1, row |-> Len(rows) + 1]
    /\ qImage' = Tail(qImage)
    /\ UNCHANGED <<storeVars, qApplied, ctr, stream>>

\* Variant with a bug: Finish is not deferred, so the error path skips it.
ExecFailNoFinish ==
    /\ exec.pc = "apply" /\ task["exec"].pc = "failed"
    /\ Transition(exec.job, "failed")
    /\ FinishRow(exec.row, "failed")
    /\ Finish("exec")
    /\ exec' = ExecIdle
    /\ UNCHANGED <<storeVars, active, qImage, qApplied, ctr, stream>>

\* Variant with a bug: the error path leaves the history row as it is.
ExecFailNoRow ==
    /\ exec.pc = "apply" /\ task["exec"].pc = "failed"
    /\ Transition(exec.job, "failed")
    /\ FinishJob(exec.job)
    /\ Finish("exec")
    /\ exec' = ExecIdle
    /\ UNCHANGED <<storeVars, rows, qImage, qApplied, ctr, stream>>

ExecFail ==
    /\ exec.pc = "apply" /\ task["exec"].pc = "failed"
    /\ Transition(exec.job, "failed")
    /\ FinishRow(exec.row, "failed")
    /\ FinishJob(exec.job)
    /\ Finish("exec")
    /\ exec' = ExecIdle
    /\ UNCHANGED <<storeVars, qImage, qApplied, ctr, stream>>

ExecSucceed ==
    /\ exec.pc = "apply" /\ task["exec"].pc = "done"
    /\ Transition(exec.job, "success")
    /\ FinishRow(exec.row, "success")
    /\ exec' = [exec EXCEPT !.pc = "rekey"]
    /\ UNCHANGED <<task, storeVars, active, qImage, qApplied, ctr, stream>>

\* moved = Rekey(old, new), or the entry read at the start when it is nil.
ExecRekey ==
    /\ exec.pc = "rekey"
    /\ Rekey(exec.p.id, task["exec"].new)
    /\ exec' = [exec EXCEPT !.pc = "push",
                            !.cs = IF keys[exec.p.id] = 0 THEN @
                                   ELSE keys[exec.p.id]]
    /\ UNCHANGED <<task, deployVars, qImage, qApplied, ctr, stream>>

\* Variant with a bug: the event names the container that was replaced.
ExecPublishOldId ==
    /\ exec.pc = "push"
    /\ PushDigest(exec.cs, exec.p.new)
    /\ qApplied' = Publish(qApplied, exec.p)
    /\ FinishJob(exec.job)
    /\ Finish("exec")
    /\ exec' = ExecIdle
    /\ UNCHANGED <<keys, jobs, rows, qImage, ctr, stream>>

\* moved.PushDigest, Publish(update.applied), and the deferred Finish.
ExecPublish ==
    /\ exec.pc = "push"
    /\ PushDigest(exec.cs, exec.p.new)
    /\ qApplied' = Publish(qApplied, [exec.p EXCEPT !.id = task["exec"].new])
    /\ FinishJob(exec.job)
    /\ Finish("exec")
    /\ exec' = ExecIdle
    /\ UNCHANGED <<keys, jobs, rows, qImage, ctr, stream>>

ExecutorStep ==
    /\ \/ ExecIgnore \/ ExecApply \/ ExecFail
       \/ ExecSucceed \/ ExecRekey \/ ExecPublish
    /\ UNCHANGED execView
=============================================================================
