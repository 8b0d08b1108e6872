---------------------------- MODULE ServiceLife -----------------------------
(***************************************************************************)
(* The pipeline with a history variable, the digests that were offered for *)
(* each service, and the lifecycle of services that it implements.         *)
(***************************************************************************)
EXTENDS Pipeline

VARIABLE offered   \* history: what the registry had, and what pushes reported

\* The digest that a webhook's push names for a service.
Reported(n) == {req[s].dig : s \in {r \in Slot : req[r].kind = "push"
                                                 /\ req[r].name = n}}

Remember == offered' = [n \in Name |->
                          offered[n] \cup {reg'[n]} \cup (Reported(n)' \ {NoDigest})]

LifeInit == Init /\ offered = [n \in Name |-> {reg[n]}]

LifeNext == Next /\ Remember

LifeSpec == LifeInit /\ [][LifeNext]_<<vars, offered>>

FairLifeSpec == LifeSpec /\ Fairness

-----------------------------------------------------------------------------
\* What the container of a service runs.
Serving(n) == IF Running(n)
              THEN ctr[CHOOSE i \in Id : ctr[i].name = n /\ ctr[i].st = "running"].runs
              ELSE NoDigest

L == INSTANCE Lifecycle WITH Down <- NoDigest, Watched <- Labelled,
                             serving <- [n \in Name |-> Serving(n)]

\* Every step of the pipeline is one of a service's life or changes nothing
\* of it: the executor, the rollback engine and people stop, remove and start
\* containers in any order, with stale ids and digests in hand, calls fail
\* and the process ends; but no service without the label is stopped, none
\* runs two versions at a time, and none a digest that was never offered for
\* it (scoped.go's Recreate gets the digest from events, rings and the row, by
\* way of executor.go and rollback.go).
LivesSafely == L!Init /\ [][L!Next]_L!lifeVars

\* And a service that was stopped is started again (StartCall follows StopCall
\* in every Recreate), or is lost to a failing call, a person or the end of
\* the process.
LivesOn == L!Spec
=============================================================================
