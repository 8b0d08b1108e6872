--------------------------- MODULE PipelineSafety ---------------------------
(***************************************************************************)
(* Theorems about what the executor and the rollback engine do to one      *)
(* container and to the store, on top of the typing of PipelineProofs; and *)
(* that the store ends up with the daemon's containers, by following the   *)
(* events from the daemon's call to the watcher's step.                    *)
(***************************************************************************)
EXTENDS PipelineProofs

-----------------------------------------------------------------------------
(* How the daemon's containers move, whoever calls.                        *)

\* A container keeps its name, its id is not given out again, and one that
\* was removed stays removed.
Lives ==
    \A i \in Id : ctr[i].st # "none" =>
        /\ ctr'[i].st # "none" /\ ctr'[i].name = ctr[i].name
        /\ ctr[i].st = "gone" => ctr'[i].st = "gone"

\* A call of a Recreate moves its own task only, and containers as above.
LEMMA CallLives ==
    ASSUME TypeInv, NEW a \in Actor, RecreateStep(a) \/ CallFails(a)
    PROVE  Lives
<1>1. ctr \in [Id -> Container]
  BY DEF TypeInv, Typed, DockerTypeOK
<1>2. task[a].pc \in {"stop", "remove", "create", "start"} => task[a].id \in Id
  BY DEF TypeInv, TasksKnown, TaskKnown
<1>3. task[a].pc = "start" => task[a].new \in Id
  BY DEF TypeInv, TasksKnown, TaskKnown
<1>4. CASE InspectCall(a) \/ PullCall(a) \/ CallFails(a)
  <2>1. ctr' = ctr
    BY <1>4 DEF InspectCall, PullCall, CallFails, Abandon
  <2> QED BY <2>1 DEF Lives
<1>5. CASE StopCall(a)
  BY <1>1, <1>2, <1>5 DEF StopCall, DockerStop, Present, Abandon, Lives, Container
<1>6. CASE RemoveCall(a)
  BY <1>1, <1>2, <1>6 DEF RemoveCall, DockerRemove, Present, Abandon, Lives, Container
<1>7. CASE CreateCall(a)
  <2>1. CASE ctr' = ctr
    BY <2>1 DEF Lives
  <2>2. ASSUME NEW j \in Id, Unused(j),
               DockerCreate(j, task[a].name, task[a].ref, task[a].runs)
        PROVE  Lives
    BY <1>1, <2>2 DEF DockerCreate, Unused, Lives
  <2> QED BY <1>7, <2>1, <2>2 DEF CreateCall, Abandon
<1>8. CASE StartCall(a)
  <2>1. CASE ctr' = ctr
    BY <2>1 DEF Lives
  <2>2. CASE Present(task[a].new) /\ DockerStart(task[a].new)
    <3>1. PICK j \in Id : j = task[a].new
      BY <1>3, <1>8 DEF StartCall
    <3> QED BY <1>1, <2>2, <3>1 DEF DockerStart, Present, Lives, Container
  <2> QED BY <1>8, <2>1, <2>2 DEF StartCall, Abandon
<1> QED BY <1>4, <1>5, <1>6, <1>7, <1>8 DEF RecreateStep

\* So does every other step.
LEMMA NextLives == ASSUME TypeInv, [Next]_vars PROVE Lives
<1>1. ctr \in [Id -> Container]
  BY DEF TypeInv, Typed, DockerTypeOK
<1>2. CASE \E a \in Actor : Calls(a)
  BY <1>2, CallLives DEF Calls
<1>3. CASE CallError
  BY <1>3, CallLives DEF CallError
<1>4. CASE Sicken
  BY <1>1, <1>4 DEF Sicken, Lives, Container
<1>5. CASE HandRemove
  BY <1>1, <1>5 DEF HandRemove, DockerRemove, Present, Lives, Container
<1>6. CASE HandRestart
  BY <1>1, <1>6 DEF HandRestart, DockerStart, Present, Lives, Container
<1>7. CASE HandRun
  BY <1>1, <1>7 DEF HandRun, Unused, Lives, Container
<1>8. CASE ctr' = ctr
  BY <1>8 DEF Lives
<1>9. CASE Seed \/ Subscribe \/ Panic \/ Crash \/ Release \/ HostPull
  BY <1>8, <1>9 DEF Seed, Subscribe, Panic, Crash, Down, Release, HostPull
<1>10. CASE Exec \/ Rb \/ Watch \/ Monitor
  <2>1. ctr' = ctr
    BY <1>10 DEF Exec, ExecutorStep, ExecIgnore, ExecApply, ExecFail,
       ExecSucceed, ExecRekey, ExecPublish, Rb, RollbackStep, RbAbort,
       RbRestore, RbFail, RbRekey, RbPublish, Watch, WatcherStep, Monitor,
       HealthMonStep, dockerVars
  <2> QED BY <1>8, <2>1
<1>11. CASE \E s \in Slot : Serve(s) \/ Ask(s)
  BY <1>8, <1>11 DEF Serve, RequestStep, Ask, dockerVars
<1>12. CASE UNCHANGED vars
  BY <1>8, <1>12 DEF vars, dockerVars
<1> QED BY <1>2, <1>3, <1>4, <1>5, <1>6, <1>7, <1>9, <1>10, <1>11, <1>12
        DEF Next, Rest

-----------------------------------------------------------------------------
(* One container is not replaced twice.                                    *)

\* How a step may bring an actor past the remove: it was past it, or it has
\* just removed the container itself, while the other did not move.
Passed(a) ==
    task'[a].pc \in PastRemove =>
        /\ task'[a].id = task[a].id
        /\ \/ task[a].pc \in PastRemove
           \/ /\ Present(task[a].id) /\ ctr'[task[a].id].st = "gone"
              /\ \A b \in Actor : b # a => task'[b] = task[b]

\* A step that gives the actors' tasks up, starts one or leaves it.
LEMMA NotMoved ==
    ASSUME RecreateTypeOK, NEW a \in Actor,
           task'[a] = task[a] \/ task'[a].pc \in {"idle", "inspect", "failed"}
    PROVE  Passed(a)
BY DEF Passed, PastRemove

\* Each daemon call, of this actor or the other.
LEMMA CallPasses ==
    ASSUME TypeInv, NEW a \in Actor, NEW b \in Actor,
           RecreateStep(b) \/ CallFails(b)
    PROVE  Passed(a)
<1>1. task \in [Actor -> Task] /\ ctr \in [Id -> Container]
  BY DEF TypeInv, Typed, RecreateTypeOK, DockerTypeOK
<1>2. CallKeeps(b)
  BY RecreateKeeps DEF TypeInv, Typed
<1>3. CASE a # b
  BY <1>2, <1>3, NotMoved DEF CallKeeps, TypeInv, Typed
<1>4. CASE a = b
  <2>1. CASE InspectCall(a) \/ PullCall(a) \/ StopCall(a) \/ CallFails(a)
    <3>1. task'[a].pc \in {"pull", "stop", "remove", "failed"}
      <4>1. CASE InspectCall(a)
        BY <1>1, <4>1 DEF InspectCall, Abandon, Goto, Task
      <4>2. CASE PullCall(a)
        BY <1>1, <4>2 DEF PullCall, Abandon, Goto, Task
      <4>3. CASE StopCall(a)
        BY <1>1, <4>3 DEF StopCall, Abandon, Goto, Task
      <4>4. CASE CallFails(a)
        BY <1>1, <4>4 DEF CallFails, Abandon, Goto, Task
      <4> QED BY <2>1, <4>1, <4>2, <4>3, <4>4
    <3> QED BY <3>1 DEF Passed, PastRemove
  <2>2. CASE RemoveCall(a)
    <3>1. CASE Present(task[a].id)
      <4>1. task[a].id \in Id
        BY <2>2 DEF RemoveCall, TypeInv, TasksKnown, TaskKnown
      <4>2. ctr'[task[a].id].st = "gone"
        <5>1. PICK i \in Id : i = task[a].id
          BY <4>1
        <5>2. ctr' = [ctr EXCEPT ![i].st = "gone"]
          BY <2>2, <3>1, <5>1 DEF RemoveCall, DockerRemove
        <5> QED BY <1>1, <5>1, <5>2 DEF Container
      <4> QED BY <1>2, <1>4, <3>1, <4>2 DEF CallKeeps, Passed
    <3>2. CASE ~Present(task[a].id)
      <4>1. task'[a].pc = "failed"
        BY <1>1, <2>2, <3>2 DEF RemoveCall, Abandon, Goto, Task
      <4> QED BY <4>1 DEF Passed, PastRemove
    <3> QED BY <3>1, <3>2
  <2>3. CASE CreateCall(a) \/ StartCall(a)
    <3>1. task[a].pc \in PastRemove
      BY <2>3 DEF CreateCall, StartCall, PastRemove
    <3> QED BY <1>2, <1>4, <3>1 DEF CallKeeps, Passed
  <2> QED BY <1>4, <2>1, <2>2, <2>3 DEF RecreateStep
<1> QED BY <1>3, <1>4

\* To begin a Recreate, or to end one, is not to get past its remove.
LEMMA NewTask ==
    ASSUME task \in [Actor -> Task], NEW a \in Actor, NEW b \in Actor,
           Finish(b) \/ \E i, r : Start(b, i, r)
    PROVE  task'[a] = task[a] \/ task'[a].pc \in {"idle", "inspect"}
<1>1. CASE Finish(b)
  BY <1>1 DEF Finish, NoTask
<1>2. ASSUME NEW i, NEW r, Start(b, i, r)
      PROVE  task'[a] = task[a] \/ task'[a].pc \in {"idle", "inspect"}
  <2>1. PICK t : t = [NoTask EXCEPT !.pc = "inspect", !.id = i, !.ref = r]
    OBVIOUS
  <2>2. t.pc = "inspect"
    BY <2>1 DEF NoTask
  <2> QED BY <1>2, <2>1, <2>2 DEF Start
<1> QED BY <1>1, <1>2

\* Every other step.
LEMMA NextPasses == ASSUME TypeInv, [Next]_vars, NEW a \in Actor PROVE Passed(a)
<1>1. task \in [Actor -> Task] /\ RecreateTypeOK
  BY DEF TypeInv, Typed, RecreateTypeOK
<1>2. CASE \E b \in Actor : Calls(b)
  BY <1>2, CallPasses DEF Calls
<1>3. CASE CallError
  BY <1>3, CallPasses DEF CallError
<1>4. CASE Panic \/ Crash
  <2>1. task'[a].pc = "idle"
    BY <1>4 DEF Panic, Crash, Down, MemoryEmpty, NoTask
  <2> QED BY <1>1, <2>1, NotMoved
<1>5. CASE Exec
  <2>1. \/ task' = task
        \/ Finish("exec") \/ \E i, r : Start("exec", i, r)
    BY <1>5 DEF Exec, ExecutorStep, ExecIgnore, ExecApply, ExecFail,
       ExecSucceed, ExecRekey, ExecPublish
  <2>2. task'[a] = task[a] \/ task'[a].pc \in {"idle", "inspect"}
    BY <1>1, <2>1, NewTask DEF Actor
  <2> QED BY <1>1, <2>2, NotMoved
<1>6. CASE Rb
  <2>1. \/ task' = task
        \/ Finish("rb") \/ \E i, r : Start("rb", i, r)
    BY <1>6 DEF Rb, RollbackStep, RbAbort, RbRestore, RbFail, RbRekey, RbPublish
  <2>2. task'[a] = task[a] \/ task'[a].pc \in {"idle", "inspect"}
    BY <1>1, <2>1, NewTask DEF Actor
  <2> QED BY <1>1, <2>2, NotMoved
<1>7. CASE task' = task
  BY <1>1, <1>7, NotMoved
<1>8. CASE Seed \/ Subscribe \/ Watch \/ Monitor \/ UNCHANGED vars
  BY <1>7, <1>8 DEF Seed, Subscribe, Watch, Monitor, vars
<1>9. CASE \E s \in Slot : Serve(s) \/ Ask(s)
  BY <1>7, <1>9 DEF Serve, Ask
<1>10. CASE Release \/ HostPull \/ Sicken \/ HandRemove \/ HandRestart \/ HandRun
  BY <1>7, <1>10 DEF Release, HostPull, Sicken, HandRemove, HandRestart, HandRun
<1> QED BY <1>2, <1>3, <1>4, <1>5, <1>6, <1>8, <1>9, <1>10 DEF Next, Rest

\* An actor past the remove has left its container gone, so that the other
\* actor's remove of that container fails, and it never gets past it.
LEMMA ReplaceKept ==
    TypeInv /\ ReplaceInv /\ [Next]_vars => ReplaceInv'
<1> SUFFICES ASSUME TypeInv, ReplaceInv, [Next]_vars PROVE ReplaceInv'
  OBVIOUS
<1>1. Lives /\ Passed("exec") /\ Passed("rb")
  BY NextLives, NextPasses DEF Actor
<1>2. ASSUME NEW a \in Actor, task[a].pc \in PastRemove
      PROVE  task[a].id \in Id /\ ctr[task[a].id].st = "gone"
  BY <1>2 DEF ReplaceInv, RemovedGone, TypeInv, TasksKnown, TaskKnown, PastRemove
<1>3. RemovedGone'
  <2> SUFFICES ASSUME NEW a \in Actor, task'[a].pc \in PastRemove
               PROVE  ctr'[task'[a].id].st = "gone"
    BY DEF RemovedGone, PastRemove
  <2>1. Passed(a)
    BY <1>1 DEF Actor
  <2>2. CASE task[a].pc \in PastRemove
    BY <1>1, <1>2, <2>1, <2>2 DEF Passed, Lives
  <2> QED BY <2>1, <2>2 DEF Passed
<1>4. OneReplacement'
  <2> SUFFICES ASSUME task'["exec"].id = task'["rb"].id,
                      task'["exec"].pc \in PastRemove,
                      task'["rb"].pc \in PastRemove
               PROVE  FALSE
    BY DEF OneReplacement, PastRemove
  <2>1. task["exec"].id = task["rb"].id
    BY <1>1 DEF Passed
  <2>2. CASE task["exec"].pc \in PastRemove /\ task["rb"].pc \in PastRemove
    BY <2>1, <2>2 DEF ReplaceInv, OneReplacement
  <2>3. CASE task["exec"].pc \notin PastRemove
    BY <1>1, <1>2, <2>1, <2>3 DEF Passed, Present, Actor
  <2>4. CASE task["rb"].pc \notin PastRemove
    BY <1>1, <1>2, <2>1, <2>4 DEF Passed, Present, Actor
  <2> QED BY <2>2, <2>3, <2>4
<1> QED BY <1>3, <1>4 DEF ReplaceInv

\* No task has begun.
LEMMA ReplaceInit == Init => ReplaceInv
<1> SUFFICES ASSUME Init PROVE ReplaceInv
  OBVIOUS
<1>1. \A a \in Actor : task[a].pc = "idle"
  BY DEF Init, NoTask
<1> QED BY <1>1 DEF ReplaceInv, RemovedGone, OneReplacement, PastRemove, Actor

\* The executor and the rollback engine never both get past removing one
\* container, although nothing but the daemon keeps them apart.
THEOREM OneReplacementHolds == Spec => []OneReplacement
<1>1. ReplaceInv => OneReplacement
  BY DEF ReplaceInv
<1> QED BY <1>1, TypeInvHolds, ReplaceInit, ReplaceKept, PTL DEF Spec

-----------------------------------------------------------------------------
(* The store's map and its structs stay together.                          *)

\* PushDigest changes a ring, neither an id nor a name.
LEMMA PushInv ==
    ASSUME StoreTypeOK, StoreInv, Lives, NEW p \in Nat, NEW d,
           PushDigest(p, d), UNCHANGED keys
    PROVE  StoreInv'
<1>1. heap \in Seq(Entry) /\ keys \in [Id -> Nat]
      /\ \A i \in Id : keys[i] # 0 => keys[i] \in 1..Len(heap)
  BY DEF StoreTypeOK, Ptr
<1>2. \A q \in 1..Len(heap) :
          heap'[q].id = heap[q].id /\ heap'[q].name = heap[q].name
  <2> SUFFICES ASSUME NEW q \in 1..Len(heap)
               PROVE  heap'[q].id = heap[q].id /\ heap'[q].name = heap[q].name
    OBVIOUS
  <2>1. heap[q] \in Entry /\ DOMAIN heap = 1..Len(heap)
    BY <1>1
  <2>2. PICK e : e = [heap[p] EXCEPT !.hist = Pushed(heap[p].hist, d)]
    OBVIOUS
  <2>3. heap' = [heap EXCEPT ![p] = e]
    BY <2>2 DEF PushDigest
  <2>4. CASE q = p
    <3>1. heap'[q] = e
      BY <2>1, <2>3, <2>4
    <3>2. e.id = heap[q].id /\ e.name = heap[q].name
      BY <2>1, <2>2, <2>4 DEF Entry
    <3> QED BY <3>1, <3>2
  <2>5. CASE q # p
    BY <2>1, <2>3, <2>5
  <2> QED BY <2>4, <2>5
<1> QED BY <1>1, <1>2 DEF StoreInv, KeyedById, NamesMatch, Lives

\* Rekey moves the state to the id it then bears, of a container with the
\* same name.
LEMMA RekeyInv ==
    ASSUME StoreTypeOK, StoreInv, Lives, NEW i \in Id, NEW j \in Id,
           Rekey(i, j), ctr[j].st # "none", ctr[j].name = ctr[i].name
    PROVE  StoreInv'
<1>1. heap \in Seq(Entry) /\ keys \in [Id -> Nat]
      /\ \A k \in Id : keys[k] # 0 => keys[k] \in 1..Len(heap)
  BY DEF StoreTypeOK, Ptr
<1>2. CASE keys[i] = 0
  BY <1>2 DEF Rekey, storeVars, StoreInv, KeyedById, NamesMatch, Lives
<1>3. CASE keys[i] # 0
  <2>1. PICK p \in 1..Len(heap) : p = keys[i]
    BY <1>1, <1>3
  <2>2. PICK e : e = [heap[p] EXCEPT !.id = j]
    OBVIOUS
  <2>3. e.id = j /\ e.name = heap[p].name
    BY <1>1, <2>2 DEF Entry
  <2>4. keys' = [keys EXCEPT ![i] = 0, ![j] = p] /\ heap' = [heap EXCEPT ![p] = e]
    BY <1>3, <2>1, <2>2 DEF Rekey
  <2>5. heap'[p] = e /\ \A q \in 1..Len(heap) : q # p => heap'[q] = heap[q]
    BY <1>1, <2>4
  <2>6. heap[p].id = i /\ heap[p].name = ctr[i].name
    BY <1>3, <2>1 DEF StoreInv, KeyedById, NamesMatch
  <2>7. ASSUME NEW k \in Id, keys'[k] # 0
        PROVE  /\ heap'[keys'[k]].id = k
               /\ ctr'[k].st # "none" /\ heap'[keys'[k]].name = ctr'[k].name
    <3>1. CASE k = j
      <4>1. keys'[k] = p
        BY <1>1, <2>4, <3>1
      <4> QED BY <2>3, <2>5, <2>6, <3>1, <4>1 DEF Lives
    <3>2. CASE k # j
      <4>1. k # i /\ keys'[k] = keys[k] /\ keys[k] \in 1..Len(heap)
        BY <1>1, <2>4, <2>7, <3>2
      <4>2. heap[keys[k]].id = k /\ ctr[k].st # "none"
            /\ heap[keys[k]].name = ctr[k].name
        BY <2>7, <4>1 DEF StoreInv, KeyedById, NamesMatch
      <4>3. keys[k] # p
        BY <2>6, <4>1, <4>2
      <4> QED BY <2>5, <4>1, <4>2, <4>3 DEF Lives
    <3> QED BY <3>1, <3>2
  <2> QED BY <2>7 DEF StoreInv, KeyedById, NamesMatch
<1> QED BY <1>2, <1>3

\* Upsert stores the state under the id it bears.
LEMMA UpsertInv ==
    ASSUME StoreTypeOK, StoreInv, Lives, NEW i \in Id, NEW n, NEW img,
           Upsert(i, n, img), ctr[i].st # "none", ctr[i].name = n
    PROVE  StoreInv'
<1>1. heap \in Seq(Entry) /\ keys \in [Id -> Nat]
      /\ \A k \in Id : keys[k] # 0 => keys[k] \in 1..Len(heap)
  BY DEF StoreTypeOK, Ptr
<1>2. CASE keys[i] = 0
  <2>1. PICK e : e = [id |-> i, name |-> n, image |-> img, hist |-> <<>>]
    OBVIOUS
  <2>2. keys' = [keys EXCEPT ![i] = Len(heap) + 1] /\ heap' = Append(heap, e)
    BY <1>2, <2>1 DEF Upsert
  <2>3. heap'[Len(heap) + 1] = e /\ \A q \in 1..Len(heap) : heap'[q] = heap[q]
    BY <1>1, <2>2
  <2>4. e.id = i /\ e.name = n
    BY <2>1
  <2>5. ASSUME NEW k \in Id, keys'[k] # 0
        PROVE  /\ heap'[keys'[k]].id = k
               /\ ctr'[k].st # "none" /\ heap'[keys'[k]].name = ctr'[k].name
    <3>1. CASE k = i
      <4>1. keys'[k] = Len(heap) + 1
        BY <1>1, <2>2, <3>1
      <4> QED BY <2>3, <2>4, <3>1, <4>1 DEF Lives
    <3>2. CASE k # i
      <4>1. keys'[k] = keys[k] /\ keys[k] \in 1..Len(heap)
        BY <1>1, <2>2, <2>5, <3>2
      <4> QED BY <2>3, <2>5, <4>1 DEF StoreInv, KeyedById, NamesMatch, Lives
    <3> QED BY <3>1, <3>2
  <2> QED BY <2>5 DEF StoreInv, KeyedById, NamesMatch
<1>3. CASE keys[i] # 0
  <2>1. PICK p \in 1..Len(heap) : p = keys[i]
    BY <1>1, <1>3
  <2>2. PICK e : e = [heap[p] EXCEPT !.name = n, !.image = img]
    OBVIOUS
  <2>3. e.id = heap[p].id /\ e.name = n
    <3>1. heap[p] \in Entry
      BY <1>1
    <3> QED BY <2>2, <3>1 DEF Entry
  <2>4. keys' = keys /\ heap' = [heap EXCEPT ![p] = e]
    BY <1>3, <2>1, <2>2 DEF Upsert
  <2>5. heap'[p] = e /\ \A q \in 1..Len(heap) : q # p => heap'[q] = heap[q]
    BY <1>1, <2>4
  <2>6. ASSUME NEW k \in Id, keys[k] # 0
        PROVE  /\ heap'[keys[k]].id = k
               /\ ctr'[k].st # "none" /\ heap'[keys[k]].name = ctr'[k].name
    <3>1. /\ keys[k] \in 1..Len(heap) /\ heap[keys[k]].id = k
          /\ ctr[k].st # "none" /\ heap[keys[k]].name = ctr[k].name
      BY <1>1, <2>6 DEF StoreInv, KeyedById, NamesMatch
    <3>2. CASE keys[k] = p
      <4>1. k = i
        BY <1>3, <2>1, <3>1, <3>2 DEF StoreInv, KeyedById
      <4> QED BY <2>3, <2>5, <3>1, <3>2, <4>1 DEF Lives
    <3>3. CASE keys[k] # p
      BY <2>5, <3>1, <3>3 DEF Lives
    <3> QED BY <3>2, <3>3
  <2> QED BY <2>4, <2>6 DEF StoreInv, KeyedById, NamesMatch
<1> QED BY <1>2, <1>3

\* Remove and an untouched store.
LEMMA ForgetInv ==
    ASSUME StoreTypeOK, StoreInv, Lives,
           UNCHANGED storeVars \/ \E i \in Id : Remove(i)
    PROVE  StoreInv'
BY DEF StoreTypeOK, Remove, storeVars, StoreInv, KeyedById, NamesMatch, Lives

\* The listing of main.
LEMMA SeedInv == ASSUME Seed, TypeInv PROVE StoreInv'
<1>1. keys' = [i \in Id |-> IF i \in Listed THEN i ELSE 0] /\ ctr' = ctr
  BY DEF Seed, SeedStore
<1>2. \A i \in Listed : heap'[i].id = i /\ heap'[i].name = ctr[i].name
  BY DEF Seed, SeedStore, Listed
<1>3. \A i \in Listed : ctr[i].st # "none"
  BY DEF Listed, Present
<1> QED BY <1>1, <1>2, <1>3 DEF StoreInv, KeyedById, NamesMatch

\* Every step of the pipeline keeps the store together: the executor's and
\* the rollback engine's Rekey, the watcher's Upsert and Remove, the pushes.
LEMMA StoreKept == TypeInv /\ StoreInv /\ [Next]_vars => StoreInv'
<1> SUFFICES ASSUME TypeInv, StoreInv, [Next]_vars PROVE StoreInv'
  OBVIOUS
<1>1. Lives /\ StoreTypeOK
  BY NextLives DEF TypeInv, Typed
<1>2. CASE UNCHANGED storeVars
  BY <1>1, <1>2, ForgetInv
<1>3. ASSUME NEW a \in Actor, task[a].pc = "done", NEW i \in Id, i = task[a].id,
             NEW j \in Id, j = task[a].new, Rekey(i, j)
      PROVE  StoreInv'
  <2>1. ctr[j].st # "none" /\ ctr[j].name = ctr[i].name
    BY <1>3 DEF TypeInv, TasksKnown, TaskKnown
  <2> QED BY <1>1, <1>3, <2>1, RekeyInv
<1>4. CASE Exec
  <2>1. CASE ExecRekey
    <3>1. /\ task["exec"].pc = "done" /\ exec.p.id = task["exec"].id
          /\ exec.p.id \in Id /\ task["exec"].new \in Id
      BY <2>1 DEF ExecRekey, TypeInv, ExecKnown, TasksKnown, TaskKnown, Actor,
         ImageUpdated
    <3> QED BY <1>3, <2>1, <3>1 DEF ExecRekey, Actor
  <2>2. CASE ExecPublish
    <3>1. exec.cs \in Nat
      BY DEF TypeInv, Typed, ExecutorTypeOK
    <3> QED BY <1>1, <2>2, <3>1, PushInv DEF ExecPublish
  <2>3. CASE UNCHANGED storeVars
    BY <1>2, <2>3
  <2> QED BY <1>4, <2>1, <2>2, <2>3 DEF Exec, ExecutorStep, ExecIgnore, ExecApply,
          ExecFail, ExecSucceed
<1>5. CASE Rb
  <2>1. CASE RbRekey
    <3>1. /\ task["rb"].pc = "done" /\ rb.p.id = task["rb"].id
          /\ rb.p.id \in Id /\ task["rb"].new \in Id
      BY <2>1 DEF RbRekey, TypeInv, RbKnown, TasksKnown, TaskKnown, Actor, Unhealthy
    <3> QED BY <1>3, <2>1, <3>1 DEF RbRekey, Actor
  <2>2. CASE RbPublish
    <3>1. rb.cs \in Nat
      BY DEF TypeInv, Typed, RollbackTypeOK
    <3>2. \/ UNCHANGED storeVars
          \/ PushDigest(rb.cs, rb.p.prev) /\ UNCHANGED keys
      BY <2>2 DEF RbPublish, storeVars
    <3> QED BY <1>1, <1>2, <3>1, <3>2, PushInv
  <2>3. CASE UNCHANGED storeVars
    BY <1>2, <2>3
  <2> QED BY <1>5, <2>1, <2>2, <2>3 DEF Rb, RollbackStep, RbAbort, RbRestore, RbFail
<1>6. CASE Watch
  <2>1. CASE WatchUpsert
    <3>1. wat.id \in Id /\ ctr[wat.id].st # "none" /\ ctr[wat.id].name = wat.name
      BY <2>1 DEF WatchUpsert, TypeInv, WatKnown
    <3> QED BY <1>1, <2>1, <3>1, UpsertInv DEF WatchUpsert
  <2>2. CASE WatchDestroy
    <3>1. Head(stream).id \in Id
      <4>1. 1 \in DOMAIN stream /\ Head(stream) = stream[1]
        BY <2>2 DEF WatchDestroy, NextEvent, TypeInv, Typed, DockerTypeOK
      <4> QED BY <2>2, <4>1 DEF WatchDestroy, NextEvent, TypeInv, EventsKnown
    <3> QED BY <1>1, <2>2, <3>1, ForgetInv DEF WatchDestroy
  <2>3. CASE UNCHANGED storeVars
    BY <1>2, <2>3
  <2> QED BY <1>6, <2>1, <2>2, <2>3 DEF Watch, WatcherStep, WatchStart, WatchUnhealthy,
          WatchReport, WatchPull, WatchPullOne, WatchPullDone
<1>7. CASE \E s \in Slot : Serve(s)
  <2>1. PICK s \in Slot : Serve(s)
    BY <1>7
  <2>2. CASE CompareSeed(s)
    <3>1. req[s].p \in Nat
      BY DEF TypeInv, Typed, TriggersTypeOK, Request
    <3> QED BY <1>1, <2>2, <3>1, PushInv DEF CompareSeed
  <2>3. CASE UNCHANGED storeVars
    BY <1>2, <2>3
  <2> QED BY <2>1, <2>2, <2>3 DEF Serve, RequestStep, SendOne, SendDone, SweepHead,
          SweepDone, ServiceHead, CompareRead, CompareAct, UpdateHead, RollbackSend
<1>8. CASE \E s \in Slot : Ask(s)
  BY <1>2, <1>8 DEF Ask, PushBegin, HubBegin, SweepBegin, ServiceBegin, UpdateBegin,
     RollbackBegin
<1>9. CASE Seed
  BY <1>9, SeedInv
<1>10. CASE Panic \/ Crash
  BY <1>10 DEF Panic, Crash, Down, StoreInv, KeyedById, NamesMatch
<1>11. CASE Subscribe \/ Monitor \/ (\E a \in Actor : Calls(a)) \/ CallError
  BY <1>2, <1>11 DEF Subscribe, Monitor, HealthMonStep, Calls, CallError
<1>12. CASE Release \/ HostPull \/ Sicken \/ HandRemove \/ HandRestart \/ HandRun
  BY <1>2, <1>12 DEF Release, HostPull, Sicken, HandRemove, HandRestart, HandRun
<1>13. CASE UNCHANGED vars
  BY <1>2, <1>13 DEF vars
<1> QED BY <1>4, <1>5, <1>6, <1>7, <1>8, <1>9, <1>10, <1>11, <1>12, <1>13
        DEF Next, Rest

\* Nothing is tracked before the listing.
LEMMA StoreInit == Init => StoreInv
<1>1. Init => keys = [i \in Id |-> 0]
  BY Zenon DEF Init
<1>2. Init => \A i \in Id : keys[i] = 0
  BY <1>1
<1> QED BY <1>2 DEF StoreInv, KeyedById, NamesMatch

\* A state is always found under the id it bears, and under one id only,
\* whatever Upsert, Rekey and Remove of the three goroutines do between each
\* other's calls.
THEOREM KeyedByIdHolds == Spec => []KeyedById
<1>1. StoreInv => KeyedById
  BY DEF StoreInv
<1> QED BY <1>1, TypeInvHolds, StoreInit, StoreKept, PTL DEF Spec

-----------------------------------------------------------------------------
(* The services held back.                                                 *)

\* A container that has not been inspected has no name to be held under.
LEMMA NoNameFree == NoTask.name \notin Held
BY DockerAssumption, ExecutorAssumption DEF DockerAssumption, ExecutorAssumption, NoTask

\* handle() goes on only for an entry that is not held, which bears the name
\* of the very container it is to recreate.
LEMMA ApplyInv ==
    ASSUME TypeInv, HeldInv, Exec, ExecApply
    PROVE  ExecNotHeld' /\ HeldUntouched'
<1>0. Head(qImage) \in ImageUpdated
  <2>1. qImage \in Seq(ImageUpdated) /\ qImage # <<>>
    BY DEF ExecApply, TypeInv, Typed, TopicsTypeOK
  <2> HIDE DEF ImageUpdated
  <2> QED BY <2>1
<1>1. PICK i \in Id : i = Head(qImage).id
  BY <1>0 DEF ImageUpdated
<1>2. keys[i] # 0 /\ heap[keys[i]].name \notin Held
  BY <1>1 DEF ExecApply
<1>3. ctr[i].st # "none" /\ ctr[i].name \notin Held
  BY <1>2 DEF HeldInv, StoreInv, NamesMatch
<1>4. exec'.p.id = i
  BY <1>1 DEF ExecApply
<1>5. ctr' = ctr
  BY DEF ExecApply
<1>6. task'["exec"].name = NoTask.name
  <2>1. PICK r : Start("exec", i, r)
    BY <1>1 DEF ExecApply
  <2>2. PICK t : t = [NoTask EXCEPT !.pc = "inspect", !.id = i, !.ref = r]
    OBVIOUS
  <2>3. t.name = NoTask.name
    BY <2>2 DEF NoTask
  <2> QED BY <2>1, <2>2, <2>3 DEF Start, TypeInv, Typed, RecreateTypeOK, Actor
<1> QED BY <1>3, <1>4, <1>5, <1>6, NoNameFree DEF ExecNotHeld, HeldUntouched

\* A Recreate learns the name of the container it was started for.
LEMMA CallHeld ==
    ASSUME TypeInv, HeldInv, NEW a \in Actor, RecreateStep(a) \/ CallFails(a)
    PROVE  HeldUntouched'
<1>1. task \in [Actor -> Task]
  BY DEF TypeInv, Typed, RecreateTypeOK
<1>2. CASE a # "exec"
  <2>1. CallKeeps(a)
    BY RecreateKeeps DEF TypeInv, Typed
  <2> QED BY <1>2, <2>1 DEF CallKeeps, HeldInv, HeldUntouched, Actor
<1>3. CASE a = "exec"
  <2>1. CASE task'[a].name = task[a].name
    BY <1>3, <2>1 DEF HeldInv, HeldUntouched
  <2>2. CASE InspectCall(a) /\ task'[a].name = ctr[task[a].id].name
    <3>1. exec.pc # "idle" /\ task[a].id = exec.p.id
      BY <1>3, <2>2 DEF InspectCall, TypeInv, ExecKnown, NoTask
    <3> QED BY <1>3, <2>2, <3>1 DEF HeldInv, ExecNotHeld, HeldUntouched
  <2>3. CASE Abandon(a)
    BY <1>1, <2>1, <2>3 DEF Abandon, Goto, Task
  <2>4. CASE InspectCall(a)
    <3>1. PICK n : n = ctr[task[a].id].name
      OBVIOUS
    <3>2. PICK t : t = [task[a] EXCEPT !.pc = "pull", !.name = n]
      OBVIOUS
    <3>3. Abandon(a) \/ task' = [task EXCEPT ![a] = t]
      BY <2>4, <3>1, <3>2 DEF InspectCall
    <3>4. t.name = n
      <4>1. task[a] \in Task
        BY <1>1
      <4> QED BY <3>2, <4>1 DEF Task
    <3>5. Abandon(a) \/ task'[a].name = n
      BY <1>1, <3>3, <3>4
    <3> QED BY <2>2, <2>3, <2>4, <3>1, <3>5
  <2>5. CASE PullCall(a)
    <3>1. PICK d : \/ Abandon(a)
                   \/ task' = [task EXCEPT ![a] = [@ EXCEPT !.pc = "stop", !.runs = d]]
      BY <2>5 DEF PullCall
    <3> QED BY <1>1, <2>1, <2>3, <3>1 DEF Task
  <2>6. CASE CreateCall(a)
    <3>1. PICK j : \/ Abandon(a)
                   \/ task' = [task EXCEPT ![a] = [@ EXCEPT !.pc = "start", !.new = j]]
      BY <2>6 DEF CreateCall
    <3> QED BY <1>1, <2>1, <2>3, <3>1 DEF Task
  <2>7. CASE StopCall(a) \/ RemoveCall(a) \/ StartCall(a)
    <3>1. Abandon(a) \/ \E l : Goto(a, l)
      BY <2>7 DEF StopCall, RemoveCall, StartCall
    <3>2. ASSUME NEW l, Goto(a, l) PROVE task'[a].name = task[a].name
      BY <1>1, <3>2 DEF Goto, Task
    <3> QED BY <2>1, <2>3, <3>1, <3>2
  <2> QED BY <2>3, <2>4, <2>5, <2>6, <2>7 DEF RecreateStep, CallFails
<1> QED BY <1>2, <1>3

\* Nobody changes what the executor was told to work on.
LEMMA HeldKept == TypeInv /\ HeldInv /\ [Next]_vars => HeldInv'
<1> SUFFICES ASSUME TypeInv, HeldInv, [Next]_vars PROVE HeldInv'
  OBVIOUS
<1>1. StoreInv'
  BY StoreKept DEF HeldInv
<1>2. Lives
  BY NextLives
<1>3. exec.pc # "idle" => exec.p.id \in Id
  BY DEF TypeInv, ExecKnown, ImageUpdated
<1>4. CASE UNCHANGED <<exec, task>>
  <2>1. ExecNotHeld' /\ HeldUntouched'
    BY <1>2, <1>3, <1>4 DEF HeldInv, ExecNotHeld, HeldUntouched, Lives
  <2> QED BY <1>1, <2>1 DEF HeldInv
<1>5. CASE exec' = exec /\ HeldUntouched'
  <2>1. ExecNotHeld'
    BY <1>2, <1>3, <1>5 DEF HeldInv, ExecNotHeld, Lives
  <2> QED BY <1>1, <1>5, <2>1 DEF HeldInv
<1>6. CASE (\E a \in Actor : Calls(a)) \/ CallError
  <2>1. exec' = exec /\ \E a \in Actor : RecreateStep(a) \/ CallFails(a)
    BY <1>6 DEF Calls, CallError
  <2> QED BY <1>5, <2>1, CallHeld
<1>7. CASE Panic \/ Crash
  <2>1. exec' = ExecIdle /\ task'["exec"] = NoTask
    BY <1>7 DEF Panic, Crash, Down, MemoryEmpty, Actor
  <2>2. ExecNotHeld' /\ HeldUntouched'
    BY <2>1, NoNameFree DEF ExecNotHeld, HeldUntouched, ExecIdle
  <2> QED BY <1>1, <2>2 DEF HeldInv
<1>8. CASE Exec
  <2>1. CASE ExecApply
    BY <1>1, <1>8, <2>1, ApplyInv DEF HeldInv
  <2>2. CASE exec' = ExecIdle /\ Finish("exec")
    <3>1. task'["exec"] = NoTask
      BY <2>2 DEF Finish, TypeInv, Typed, RecreateTypeOK, Actor
    <3>2. ExecNotHeld' /\ HeldUntouched'
      BY <2>2, <3>1, NoNameFree DEF ExecNotHeld, HeldUntouched, ExecIdle
    <3> QED BY <1>1, <3>2 DEF HeldInv
  <2>3. CASE ExecSucceed \/ ExecRekey
    <3>1. /\ task' = task /\ exec'.p = exec.p /\ exec.pc # "idle"
      BY <2>3 DEF ExecSucceed, ExecRekey, TypeInv, Typed, ExecutorTypeOK
    <3>2. ExecNotHeld' /\ HeldUntouched'
      BY <1>2, <1>3, <3>1 DEF HeldInv, ExecNotHeld, HeldUntouched, Lives
    <3> QED BY <1>1, <3>2 DEF HeldInv
  <2>4. CASE ExecIgnore
    BY <1>4, <2>4 DEF ExecIgnore
  <2> QED BY <1>8, <2>1, <2>2, <2>3, <2>4 DEF Exec, ExecutorStep, ExecFail, ExecPublish
<1>9. CASE Rb
  <2>1. exec' = exec /\ task'["exec"] = task["exec"]
    BY <1>9 DEF Rb, RollbackStep, RbAbort, RbRestore, RbFail, RbRekey, RbPublish,
       Start, Finish, TypeInv, Typed, RecreateTypeOK, Actor
  <2> QED BY <1>5, <2>1 DEF HeldInv, HeldUntouched
<1>10. CASE Seed \/ Subscribe \/ Watch \/ Monitor \/ UNCHANGED vars
  BY <1>4, <1>10 DEF Seed, Subscribe, Watch, Monitor, vars
<1>11. CASE \E s \in Slot : Serve(s) \/ Ask(s)
  BY <1>4, <1>11 DEF Serve, Ask
<1>12. CASE Release \/ HostPull \/ Sicken \/ HandRemove \/ HandRestart \/ HandRun
  BY <1>4, <1>12 DEF Release, HostPull, Sicken, HandRemove, HandRestart, HandRun
<1> QED BY <1>6, <1>7, <1>8, <1>9, <1>10, <1>11, <1>12 DEF Next, Rest

\* No update is under way when the process has not started.
LEMMA HeldInit == Init => HeldInv
<1> SUFFICES ASSUME Init PROVE HeldInv
  OBVIOUS
<1>1. exec.pc = "idle" /\ task["exec"] = NoTask
  BY DEF Init, ExecIdle, Actor
<1> QED BY <1>1, StoreInit, NoNameFree DEF HeldInv, ExecNotHeld, HeldUntouched

\* The executor never recreates a container whose labels hold it back, by
\* whichever trigger the update came and however Rekey and the watcher moved
\* the store between the event and its handling.
THEOREM HeldUntouchedHolds == Spec => []HeldUntouched
<1>1. HeldInv => HeldUntouched
  BY DEF HeldInv
<1> QED BY <1>1, TypeInvHolds, HeldInit, HeldKept, PTL DEF Spec

-----------------------------------------------------------------------------
(* The event stream.                                                       *)

\* What an Emit may have done to the stream.
Told(e) == stream' = stream \/ stream' = Append(stream, e)

\* An event that is not taken is not lost.
LEMMA TellsMore ==
    ASSUME stream \in Seq(Event), NEW e \in Event, Told(e)
    PROVE  /\ DOMAIN stream \subseteq DOMAIN stream'
           /\ \A q \in DOMAIN stream : stream'[q] = stream[q]
           /\ \A q \in DOMAIN stream' :
                  q \in DOMAIN stream \/ (stream'[q] = e /\ q = Len(stream) + 1)
           /\ \A q \in DOMAIN stream : q \in Nat /\ q <= Len(stream)
BY DEF Told

\* Taking the first event moves the others up.
LEMMA TellsLess ==
    ASSUME stream \in Seq(Event), stream # <<>>, stream' = Tail(stream)
    PROVE  /\ 1 \in DOMAIN stream /\ stream[1] = Head(stream)
           /\ \A q \in DOMAIN stream' :
                  q \in Nat /\ q + 1 \in DOMAIN stream /\ stream'[q] = stream[q + 1]
           /\ \A q \in DOMAIN stream :
                  q \in Nat /\ (q # 1 => q - 1 \in DOMAIN stream' /\ q = (q - 1) + 1)
OBVIOUS

\* What was to be told is still to be told.
LEMMA ComingMore ==
    ASSUME stream \in Seq(Event), NEW e \in Event, Told(e), NEW k, NEW i,
           Coming(k, i)
    PROVE  Coming(k, i)'
BY TellsMore DEF Coming, Tells

\* Unless it is what the watcher has just been told.
LEMMA ComingLess ==
    ASSUME stream \in Seq(Event), stream # <<>>, stream' = Tail(stream),
           NEW k, NEW i, Coming(k, i), ~Tells(1, k, i)
    PROVE  Coming(k, i)'
<1>1. PICK q \in DOMAIN stream : Tells(q, k, i)
  BY DEF Coming
<1>2. PICK p : p = q - 1
  OBVIOUS
<1>3. p \in DOMAIN stream' /\ stream'[p] = stream[q]
  BY <1>1, <1>2, TellsLess
<1> QED BY <1>1, <1>3 DEF Coming, Tells

\* An event that says nothing of the first container's end.
LEMMA AfterMore ==
    ASSUME stream \in Seq(Event), NEW e \in Event, Told(e), NEW i, NEW j,
           EndsAfter(i, j), e.kind = "destroy" => e.id # i
    PROVE  EndsAfter(i, j)'
<1> SUFFICES ASSUME NEW q \in DOMAIN stream', Tells(q, "destroy", i)'
             PROVE  \E r \in DOMAIN stream' : r > q /\ Tells(r, "destroy", j)'
  BY DEF EndsAfter, Tells
<1>1. q \in DOMAIN stream /\ Tells(q, "destroy", i)
  BY TellsMore DEF Tells
<1>2. PICK r \in DOMAIN stream : r > q /\ Tells(r, "destroy", j)
  BY <1>1 DEF EndsAfter
<1> QED BY <1>2, TellsMore DEF Tells

\* The second one's end, told now, comes after whatever was told before.
LEMMA AfterNow ==
    ASSUME stream \in Seq(Event), NEW e \in Event, NEW i, NEW j,
           stream' = Append(stream, e), i # j, e.kind = "destroy", e.id = j
    PROVE  EndsAfter(i, j)'
<1> SUFFICES ASSUME NEW q \in DOMAIN stream', Tells(q, "destroy", i)'
             PROVE  \E r \in DOMAIN stream' : r > q /\ Tells(r, "destroy", j)'
  BY DEF EndsAfter, Tells
<1>1. q \in DOMAIN stream
  BY TellsMore DEF Tells, Told
<1>2. PICK r : r = Len(stream) + 1
  OBVIOUS
<1>3. r \in DOMAIN stream' /\ stream'[r] = e /\ r > q
  BY <1>1, <1>2
<1> QED BY <1>3 DEF Tells

LEMMA AfterLess ==
    ASSUME stream \in Seq(Event), stream # <<>>, stream' = Tail(stream),
           NEW i, NEW j, EndsAfter(i, j)
    PROVE  EndsAfter(i, j)'
<1> SUFFICES ASSUME NEW q \in DOMAIN stream', Tells(q, "destroy", i)'
             PROVE  \E r \in DOMAIN stream' : r > q /\ Tells(r, "destroy", j)'
  BY DEF EndsAfter, Tells
<1>1. q + 1 \in DOMAIN stream /\ Tells(q + 1, "destroy", i) /\ q \in Nat
  BY TellsLess DEF Tells
<1>2. PICK r \in DOMAIN stream : r > q + 1 /\ Tells(r, "destroy", j)
  BY <1>1 DEF EndsAfter
<1>3. PICK p : p = r - 1
  OBVIOUS
<1>4. p \in DOMAIN stream' /\ p > q /\ stream'[p] = stream[r]
  BY <1>1, <1>2, <1>3, TellsLess
<1> QED BY <1>2, <1>4 DEF Tells

\* There are events, and those that end nothing.
LEMMA SomeEvent == \E e \in Event : e.kind = "pull"
<1>1. PICK n \in Name : TRUE
  BY DockerAssumption
<1>2. PICK e : e = [kind |-> "pull", id |-> NoId, name |-> n, dig |-> NoDigest]
  OBVIOUS
<1>3. e \in Event /\ e.kind = "pull"
  BY <1>2 DEF Event, Image
<1> QED BY <1>3

-----------------------------------------------------------------------------
(* What the daemon does.                                                   *)

\* The watcher is told, but has done nothing yet.
SameMind ==
    keys' = keys /\ (wat' = wat \/ (wat.pc # "upsert" /\ wat'.pc # "upsert"))

LEMMA MindStays == ASSUME SameMind, NEW i PROVE Minded(i)' <=> Minded(i)
BY DEF SameMind, Minded

\* What the watcher minds was created.
LEMMA MindedBorn ==
    ASSUME TypeInv, StoreInv, NEW i \in Id, Minded(i) PROVE ctr[i].st # "none"
BY DEF Minded, TypeInv, WatKnown, StoreInv, NamesMatch

\* Nothing is minded by a process that is not there.
LEMMA MindedUp ==
    ASSUME TypeInv, NotUpYet, NEW i \in Id, Minded(i) PROVE proc # "down"
BY DEF Minded, TypeInv, Typed, StoreTypeOK, DownIsEmpty, NotUpYet, Ptr

\* The events on the stream stay true, a new one has to be.
LEMMA NamedStay ==
    ASSUME TypeInv, EventsNamed, Lives, NEW e \in Event, Told(e),
           stream' # stream => EventNamed(e)'
    PROVE  EventsNamed'
<1> SUFFICES ASSUME NEW q \in DOMAIN stream' PROVE EventNamed(stream[q])'
  BY DEF EventsNamed
<1>1. stream \in Seq(Event)
  BY DEF TypeInv, Typed, DockerTypeOK
<1>2. CASE q \in DOMAIN stream
  <2>1. stream'[q] = stream[q] /\ EventNamed(stream[q])
    BY <1>1, <1>2, TellsMore DEF EventsNamed
  <2>2. stream[q].kind # "pull" =>
            stream[q].id \in Id /\ ctr[stream[q].id].st # "none"
    BY <1>2 DEF TypeInv, EventsKnown
  <2> QED BY <2>1, <2>2 DEF EventNamed, Lives
<1>3. CASE q \notin DOMAIN stream
  <2>1. stream'[q] = e /\ stream' # stream
    BY <1>1, <1>3, TellsMore
  <2> QED BY <2>1 DEF EventNamed
<1> QED BY <1>2, <1>3

\* A container that does not end by this step.
LEMMA ForgetsStay ==
    ASSUME TypeInv, StoreInv, Lives, NEW i \in Id, Forgets(i),
           Minded(i)' <=> Minded(i), ctr'[i].st = "gone" => ctr[i].st = "gone",
           NEW e \in Event, Told(e)
    PROVE  Forgets(i)'
<1> SUFFICES ASSUME Minded(i)
             PROVE  /\ ctr'[i].name \in Labelled
                    /\ ctr'[i].st = "gone" => Coming("destroy", i)'
  BY DEF Forgets
<1>1. stream \in Seq(Event)
  BY DEF TypeInv, Typed, DockerTypeOK
<1>2. ctr[i].st # "none"
  BY MindedBorn
<1>3. ctr'[i].name = ctr[i].name
  BY <1>2 DEF Lives
<1>4. ASSUME ctr[i].st = "gone" PROVE Coming("destroy", i)'
  <2>1. Coming("destroy", i)
    BY <1>4 DEF Forgets
  <2> QED BY <1>1, <2>1, ComingMore
<1> QED BY <1>3, <1>4 DEF Forgets

\* Nor is one started by it.
LEMMA LearnsStay ==
    ASSUME TypeInv, Lives, NEW i \in Id, Learns(i), Minded(i)' <=> Minded(i),
           ctr'[i].st = "running" => ctr[i].st = "running",
           NEW e \in Event, Told(e)
    PROVE  Learns(i)'
<1>1. stream \in Seq(Event)
  BY DEF TypeInv, Typed, DockerTypeOK
<1>2. ctr[i].st = "running" => ctr'[i].name = ctr[i].name
  BY DEF Lives
<1>3. Coming("start", i) => Coming("start", i)'
  BY <1>1, ComingMore
<1> QED BY <1>2, <1>3 DEF Learns

\* A step that ends no container and starts none.
LEMMA NothingEnds ==
    ASSUME TypeInv, StoreInv, TrackInv, Lives, proc' = proc,
           \A i \in Id : Minded(i)' <=> Minded(i),
           \A i \in Id : /\ ctr'[i].st = "gone" => ctr[i].st = "gone"
                         /\ ctr'[i].st = "running" => ctr[i].st = "running",
           \A a \in Actor : task'[a] = task[a] \/ task'[a].pc # "done",
           NEW e \in Event, Told(e), e.kind \in {"unhealthy", "pull"}
    PROVE  TrackInv'
<1>1. stream \in Seq(Event)
  BY DEF TypeInv, Typed, DockerTypeOK
<1>2. EventsNamed'
  BY NamedStay DEF TrackInv, EventNamed
<1>3. \A i \in Id : Forgets(i)'
  BY ForgetsStay DEF TrackInv
<1>4. proc' # "down" => \A i \in Id : Learns(i)'
  BY LearnsStay DEF TrackInv
<1>5. ASSUME NEW a \in Actor PROVE EndsInOrder(task[a])'
  <2> SUFFICES ASSUME task'[a].pc = "done", ctr'[task'[a].new].st = "gone"
               PROVE  EndsAfter(task[a].id, task[a].new)'
    BY DEF EndsInOrder
  <2>1. task'[a] = task[a] /\ task[a].new \in Id
    BY DEF TypeInv, TasksKnown, TaskKnown
  <2>2. EndsAfter(task[a].id, task[a].new)
    BY <2>1 DEF TrackInv, EndsInOrder
  <2>3. PICK i, j : i = task[a].id /\ j = task[a].new
    OBVIOUS
  <2>4. EndsAfter(i, j)'
    BY <1>1, <2>2, <2>3, AfterMore
  <2> QED BY <2>1, <2>3, <2>4 DEF EndsAfter, Tells
<1> QED BY <1>2, <1>3, <1>4, <1>5 DEF TrackInv

\* A replaced container and its replacement bear one name.
LEMMA Replaced ==
    ASSUME TypeInv, ReplaceInv, NotUpYet, NEW a \in Actor, task[a].pc = "done"
    PROVE  /\ task[a].id \in Id /\ task[a].new \in Id
           /\ ctr[task[a].id].st = "gone" /\ ctr[task[a].new].st # "none"
           /\ ctr[task[a].id].name = ctr[task[a].new].name
           /\ proc = "up"
BY DEF TypeInv, TasksKnown, TaskKnown, ReplaceInv, RemovedGone, PastRemove, NotUpYet

\* A container is removed, by a Recreate or by a person: whoever minds it
\* will be told, and told of a replacement's end after the replaced one's.
LEMMA OneEnds ==
    ASSUME TypeInv, StoreInv, ReplaceInv, MatchInv, Lives,
           NEW i \in Id, Present(i), DockerRemove(i), proc # "seeded",
           keys' = keys, wat' = wat, proc' = proc,
           \A a \in Actor : task'[a] = task[a] \/ task'[a].pc # "done"
    PROVE  TrackInv'
<1>1. /\ stream \in Seq(Event) /\ ctr \in [Id -> Container]
      /\ proc \in {"down", "seeded", "up"} /\ ctr[i].name \in Name
  BY DEF TypeInv, Typed, DockerTypeOK, Present
<1>2. PICK e : e = [kind |-> "destroy", id |-> i, name |-> ctr[i].name,
                    dig |-> NoDigest]
  OBVIOUS
<1>3. /\ e \in Event /\ e.kind = "destroy" /\ e.id = i
      /\ e.name = ctr[i].name
  BY <1>1, <1>2 DEF Event, Image
<1>4. /\ stream' = IF proc = "up" /\ ctr[i].name \in Labelled
                   THEN Append(stream, e) ELSE stream
      /\ ctr' = [ctr EXCEPT ![i].st = "gone"]
  BY <1>2 DEF DockerRemove, Emit
<1>5. Told(e) /\ SameMind
  BY <1>4 DEF Told, SameMind
<1>6. /\ ctr'[i].st = "gone" /\ ctr'[i].name = ctr[i].name
      /\ \A j \in Id : j # i => ctr'[j] = ctr[j]
  BY <1>1, <1>4 DEF Container
<1>7. NotUpYet /\ TrackInv
  BY DEF MatchInv
<1>8. EventsNamed'
  <2>1. stream' # stream => EventNamed(e)'
    BY <1>3, <1>4, <1>6 DEF EventNamed
  <2> QED BY <1>3, <1>5, <1>7, <2>1, NamedStay DEF TrackInv
<1>9. ASSUME NEW j \in Id PROVE Forgets(j)'
  <2>1. CASE j # i
    BY <1>3, <1>5, <1>6, <1>7, <2>1, ForgetsStay, MindStays DEF TrackInv
  <2>2. CASE j = i
    <3> SUFFICES ASSUME Minded(i)
                 PROVE  ctr'[i].name \in Labelled /\ Coming("destroy", i)'
      BY <1>5, <2>2, MindStays DEF Forgets
    <3>1. ctr[i].name \in Labelled /\ proc # "down"
      BY <1>7, MindedUp DEF TrackInv, Forgets
    <3>2. stream' = Append(stream, e)
      BY <1>1, <1>4, <3>1
    <3>3. PICK q : q = Len(stream) + 1
      OBVIOUS
    <3>4. q \in DOMAIN stream' /\ stream'[q] = e
      BY <1>1, <3>2, <3>3
    <3> QED BY <1>3, <1>6, <3>1, <3>4 DEF Coming, Tells
  <2> QED BY <2>1, <2>2
<1>10. proc' # "down" => \A j \in Id : Learns(j)'
  <2>1. \A j \in Id : ctr'[j].st = "running" => ctr[j].st = "running"
    BY <1>6
  <2> QED BY <1>3, <1>5, <1>7, <2>1, LearnsStay, MindStays DEF TrackInv
<1>11. ASSUME NEW a \in Actor PROVE EndsInOrder(task[a])'
  <2> SUFFICES ASSUME task'[a].pc = "done", ctr'[task'[a].new].st = "gone"
               PROVE  EndsAfter(task[a].id, task[a].new)'
    BY DEF EndsInOrder
  <2>1. task'[a] = task[a]
    OBVIOUS
  <2>2. PICK k, j : k = task[a].id /\ j = task[a].new
    OBVIOUS
  <2>3. /\ k \in Id /\ j \in Id /\ ctr[k].st = "gone"
        /\ ctr[k].name = ctr[j].name /\ proc = "up"
    BY <1>7, <2>1, <2>2, Replaced
  <2>4. k # i
    BY <2>3 DEF Present
  <2>5. CASE j # i
    <3>1. EndsAfter(k, j)
      BY <1>6, <1>7, <2>1, <2>2, <2>3, <2>5 DEF TrackInv, EndsInOrder
    <3>2. EndsAfter(k, j)'
      BY <1>1, <1>3, <1>5, <2>4, <3>1, AfterMore
    <3> QED BY <2>1, <2>2, <3>2 DEF EndsAfter, Tells
  <2>6. CASE j = i /\ ctr[i].name \in Labelled
    <3>1. EndsAfter(k, j)'
      BY <1>1, <1>3, <1>4, <2>3, <2>4, <2>6, AfterNow
    <3> QED BY <2>1, <2>2, <3>1 DEF EndsAfter, Tells
  <2>7. CASE j = i /\ ctr[i].name \notin Labelled
    <3>1. \A q \in DOMAIN stream : ~Tells(q, "destroy", k)
      BY <1>7, <2>3, <2>7 DEF TrackInv, EventsNamed, EventNamed, Tells
    <3>2. EndsAfter(k, j)'
      BY <1>4, <2>7, <3>1 DEF EndsAfter, Tells
    <3> QED BY <2>1, <2>2, <3>2 DEF EndsAfter, Tells
  <2> QED BY <2>5, <2>6, <2>7
<1> QED BY <1>8, <1>9, <1>10, <1>11 DEF TrackInv

\* A container is started, by a Recreate or by a person: the watcher will be
\* told.
LEMMA OneStarts ==
    ASSUME TypeInv, StoreInv, ReplaceInv, MatchInv, Lives,
           NEW i \in Id, NEW c, ctr' = [ctr EXCEPT ![i] = c],
           c.st = "running", ctr[i].st # "gone", c.name \in Name,
           NEW d \in Image, Emit("start", i, c.name, d), proc # "seeded",
           keys' = keys, wat' = wat, proc' = proc,
           \A a \in Actor : \/ task'[a] = task[a] \/ task'[a].pc # "done"
                            \/ task'[a].new = i
    PROVE  TrackInv'
<1>1. /\ stream \in Seq(Event) /\ ctr \in [Id -> Container]
      /\ proc \in {"down", "seeded", "up"}
  BY DEF TypeInv, Typed, DockerTypeOK
<1>2. PICK e : e = [kind |-> "start", id |-> i, name |-> c.name, dig |-> d]
  OBVIOUS
<1>3. /\ e \in Event /\ e.kind = "start" /\ e.id = i /\ e.name = c.name
  BY <1>1, <1>2 DEF Event
<1>4. stream' = IF proc = "up" /\ c.name \in Labelled
                THEN Append(stream, e) ELSE stream
  BY <1>2 DEF Emit
<1>5. Told(e) /\ SameMind
  BY <1>4 DEF Told, SameMind
<1>6. ctr'[i] = c /\ \A j \in Id : j # i => ctr'[j] = ctr[j]
  BY <1>1
<1>7. NotUpYet /\ TrackInv
  BY DEF MatchInv
<1>8. EventsNamed'
  <2>1. stream' # stream => EventNamed(e)'
    BY <1>3, <1>4, <1>6 DEF EventNamed
  <2> QED BY <1>3, <1>5, <1>7, <2>1, NamedStay DEF TrackInv
<1>9. \A j \in Id : Forgets(j)'
  <2>1. \A j \in Id : ctr'[j].st = "gone" => ctr[j].st = "gone"
    BY <1>6
  <2> QED BY <1>3, <1>5, <1>7, <2>1, ForgetsStay, MindStays DEF TrackInv
<1>10. ASSUME NEW j \in Id, proc' # "down" PROVE Learns(j)'
  <2>1. CASE j # i
    <3>1. ctr'[j].st = "running" => ctr[j].st = "running"
      BY <1>6, <2>1
    <3> QED BY <1>3, <1>5, <1>7, <1>10, <3>1, LearnsStay, MindStays DEF TrackInv
  <2>2. CASE j = i
    <3> SUFFICES ASSUME c.name \in Labelled PROVE Coming("start", i)'
      BY <1>6, <2>2 DEF Learns
    <3>1. stream' = Append(stream, e)
      BY <1>1, <1>4, <1>10
    <3>2. PICK q : q = Len(stream) + 1
      OBVIOUS
    <3>3. q \in DOMAIN stream' /\ stream'[q] = e
      BY <1>1, <3>1, <3>2
    <3> QED BY <1>3, <3>3 DEF Coming, Tells
  <2> QED BY <2>1, <2>2
<1>11. ASSUME NEW a \in Actor PROVE EndsInOrder(task[a])'
  <2> SUFFICES ASSUME task'[a].pc = "done", ctr'[task'[a].new].st = "gone"
               PROVE  EndsAfter(task[a].id, task[a].new)'
    BY DEF EndsInOrder
  <2>1. task'[a].new # i
    BY <1>6
  <2>2. task'[a] = task[a]
    BY <2>1
  <2>3. PICK k, j : k = task[a].id /\ j = task[a].new
    OBVIOUS
  <2>4. k \in Id /\ j \in Id
    BY <1>7, <2>2, <2>3, Replaced
  <2>5. EndsAfter(k, j)
    BY <1>6, <1>7, <2>1, <2>2, <2>3, <2>4 DEF TrackInv, EndsInOrder
  <2>6. EndsAfter(k, j)'
    BY <1>1, <1>3, <1>5, <2>5, AfterMore
  <2> QED BY <2>2, <2>3, <2>6 DEF EndsAfter, Tells
<1> QED BY <1>8, <1>9, <1>10, <1>11 DEF TrackInv

-----------------------------------------------------------------------------
(* What dockwatch does about it.                                           *)

\* Nothing at the daemon moves, nor does what the watcher minds.
LEMMA NothingHappens ==
    ASSUME TypeInv, StoreInv, TrackInv, UNCHANGED <<ctr, stream, proc>>,
           \A i \in Id : Minded(i)' <=> Minded(i),
           \A a \in Actor : task'[a] = task[a] \/ task'[a].pc # "done"
    PROVE  TrackInv'
<1>1. Lives
  BY DEF Lives
<1>2. PICK e \in Event : e.kind = "pull"
  BY SomeEvent
<1>3. Told(e)
  BY DEF Told
<1> QED BY <1>1, <1>2, <1>3, NothingEnds

\* The watcher takes an event: it stays true, and in its place, what is told
\* besides.
LEMMA Taken ==
    ASSUME TypeInv, TrackInv, stream # <<>>, stream' = Tail(stream),
           UNCHANGED <<ctr, task>>
    PROVE  /\ EventsNamed'
           /\ \A a \in Actor : EndsInOrder(task[a])'
           /\ \A k, i : Coming(k, i) /\ ~(Head(stream).kind = k /\ Head(stream).id = i)
                            => Coming(k, i)'
           /\ EventNamed(Head(stream))
<1>1. stream \in Seq(Event)
  BY DEF TypeInv, Typed, DockerTypeOK
<1>2. EventsNamed'
  BY <1>1, TellsLess DEF TrackInv, EventsNamed, EventNamed
<1>3. EventNamed(Head(stream))
  BY <1>1, TellsLess DEF TrackInv, EventsNamed
<1>4. ASSUME NEW k, NEW i, Coming(k, i),
             ~(Head(stream).kind = k /\ Head(stream).id = i)
      PROVE  Coming(k, i)'
  <2>1. ~Tells(1, k, i)
    BY <1>1, <1>4, TellsLess DEF Tells
  <2> QED BY <1>1, <1>4, <2>1, ComingLess
<1>5. ASSUME NEW a \in Actor PROVE EndsInOrder(task[a])'
  <2> SUFFICES ASSUME task[a].pc = "done", ctr[task[a].new].st = "gone"
               PROVE  EndsAfter(task[a].id, task[a].new)'
    BY DEF EndsInOrder
  <2>1. PICK i, j : i = task[a].id /\ j = task[a].new
    OBVIOUS
  <2>2. EndsAfter(i, j)
    BY <2>1 DEF TrackInv, EndsInOrder
  <2>3. EndsAfter(i, j)'
    BY <1>1, <2>2, AfterLess
  <2> QED BY <2>1, <2>3 DEF EndsAfter, Tells
<1> QED BY <1>2, <1>3, <1>4, <1>5

\* An event that starts nothing and ends nothing.
LEMMA OtherTaken ==
    ASSUME TypeInv, TrackInv, NEW k \in {"unhealthy", "pull"}, NextEvent(k),
           stream' = Tail(stream), UNCHANGED <<ctr, task, keys, proc>>,
           wat' = wat \/ wat'.pc # "upsert"
    PROVE  TrackInv'
<1>1. SameMind
  BY DEF SameMind, NextEvent
<1>2. \A i \in Id : Forgets(i)' /\ (proc # "down" => Learns(i)')
  BY <1>1, Taken, MindStays DEF TrackInv, Forgets, Learns, NextEvent
<1> QED BY <1>2, Taken DEF TrackInv, NextEvent

\* A start: the container that runs is going to be upserted.
LEMMA StartTaken ==
    ASSUME TypeInv, TrackInv, WatchStart, UNCHANGED <<ctr, task, proc>>
    PROVE  TrackInv'
<1>1. PICK ev : ev = Head(stream)
  OBVIOUS
<1>2. /\ stream # <<>> /\ stream' = Tail(stream) /\ ev.kind = "start"
      /\ wat.pc = "idle" /\ keys' = keys
      /\ wat' = IF Present(ev.id)
                THEN [WatIdle EXCEPT !.pc = "upsert", !.id = ev.id,
                                     !.name = ctr[ev.id].name, !.image = ev.dig]
                ELSE wat
  BY <1>1 DEF WatchStart, NextEvent, storeVars
<1>3. /\ Present(ev.id) => wat'.pc = "upsert" /\ wat'.id = ev.id
      /\ ~Present(ev.id) => wat' = wat
  BY <1>2 DEF WatIdle
<1>4. ctr[ev.id].name \in Labelled
  BY <1>1, <1>2, Taken DEF EventNamed
<1>5. ASSUME NEW i \in Id PROVE Forgets(i)'
  <2>1. CASE i = ev.id /\ Present(i)
    BY <1>4, <2>1 DEF Forgets, Present
  <2>2. CASE ~(i = ev.id /\ Present(i))
    <3>1. Minded(i)' => Minded(i)
      BY <1>2, <1>3, <2>2 DEF Minded
    <3>2. Coming("destroy", i) => Coming("destroy", i)'
      BY <1>1, <1>2, Taken
    <3> QED BY <3>1, <3>2 DEF TrackInv, Forgets
  <2> QED BY <2>1, <2>2
<1>6. ASSUME NEW i \in Id, proc # "down" PROVE Learns(i)'
  <2>1. CASE i = ev.id /\ Present(i)
    BY <1>3, <2>1 DEF Learns, Minded
  <2>2. CASE i = ev.id /\ ~Present(i)
    BY <2>2 DEF Learns, Present
  <2>3. CASE i # ev.id
    <3>1. Minded(i) => Minded(i)'
      BY <1>2 DEF Minded
    <3>2. Coming("start", i) => Coming("start", i)'
      BY <1>1, <1>2, <2>3, Taken
    <3> QED BY <1>6, <3>1, <3>2 DEF TrackInv, Learns
  <2> QED BY <2>1, <2>2, <2>3
<1> QED BY <1>2, <1>5, <1>6, Taken DEF TrackInv

\* A destroy: the container is gone, and no longer tracked.
LEMMA DestroyTaken ==
    ASSUME TypeInv, TrackInv, WatchDestroy, UNCHANGED <<ctr, task, proc>>
    PROVE  TrackInv'
<1>1. PICK ev : ev = Head(stream)
  OBVIOUS
<1>2. /\ stream # <<>> /\ stream' = Tail(stream) /\ ev.kind = "destroy"
      /\ wat.pc = "idle" /\ wat' = wat
      /\ keys' = [keys EXCEPT ![ev.id] = 0] /\ keys \in [Id -> Nat]
  BY <1>1 DEF WatchDestroy, NextEvent, Remove, TypeInv, Typed, StoreTypeOK
<1>3. ctr[ev.id].st = "gone"
  BY <1>1, <1>2, Taken DEF EventNamed
<1>4. ASSUME NEW i \in Id PROVE Forgets(i)' /\ (proc # "down" => Learns(i)')
  <2>1. CASE i = ev.id
    BY <1>2, <1>3, <2>1 DEF Forgets, Learns, Minded
  <2>2. CASE i # ev.id
    <3>1. Minded(i)' <=> Minded(i)
      BY <1>2, <2>2 DEF Minded
    <3>2. \A k : Coming(k, i) => Coming(k, i)'
      BY <1>1, <1>2, <2>2, Taken
    <3> QED BY <3>1, <3>2 DEF TrackInv, Forgets, Learns
  <2> QED BY <2>1, <2>2
<1> QED BY <1>2, <1>4, Taken DEF TrackInv

\* Every step of the watcher.
LEMMA WatchTracks ==
    ASSUME TypeInv, StoreInv, TrackInv, Watch PROVE TrackInv'
<1>1. UNCHANGED <<ctr, task, proc>>
  BY DEF Watch, WatcherStep
<1>2. CASE WatchStart
  BY <1>1, <1>2, StartTaken
<1>3. CASE WatchDestroy
  BY <1>1, <1>3, DestroyTaken
<1>4. CASE WatchUnhealthy
  <2>1. wat' = wat \/ wat'.pc = "report"
    BY <1>4 DEF WatchUnhealthy, WatIdle
  <2> QED BY <1>1, <1>4, <2>1, OtherTaken DEF WatchUnhealthy, storeVars
<1>5. CASE WatchPull
  <2>1. wat'.pc = "pull"
    BY <1>5 DEF WatchPull, WatIdle
  <2> QED BY <1>1, <1>5, <2>1, OtherTaken DEF WatchPull, storeVars
<1>6. CASE WatchUpsert
  <2>1. PICK i \in Id : i = wat.id
    BY <1>6 DEF WatchUpsert, TypeInv, WatKnown
  <2>2. /\ wat.pc = "upsert" /\ wat'.pc = "idle" /\ stream' = stream
        /\ Upsert(i, wat.name, wat.image)
        /\ keys \in [Id -> Nat] /\ Len(heap) \in Nat
    BY <1>6, <2>1 DEF WatchUpsert, WatIdle, TypeInv, Typed, StoreTypeOK
  <2>3. keys'[i] # 0 /\ \A j \in Id : j # i => keys'[j] = keys[j]
    BY <2>2 DEF Upsert
  <2>4. \A j \in Id : Minded(j)' <=> Minded(j)
    BY <2>1, <2>2, <2>3 DEF Minded
  <2> QED BY <1>1, <2>2, <2>4, NothingHappens
<1>7. CASE WatchReport \/ WatchPullOne \/ WatchPullDone
  <2>0. WatchPullOne => wat.pc = "pull" /\ wat'.pc = "pull"
    BY DEF WatchPullOne, TypeInv, Typed, WatcherTypeOK
  <2>1. /\ wat.pc # "upsert" /\ wat'.pc # "upsert"
        /\ keys' = keys /\ stream' = stream
    BY <1>7, <2>0 DEF WatchReport, WatchPullOne, WatchPullDone, WatIdle, storeVars
  <2>2. \A j \in Id : Minded(j)' <=> Minded(j)
    BY <2>1 DEF Minded
  <2> QED BY <1>1, <2>1, <2>2, NothingHappens
<1> QED BY <1>2, <1>3, <1>4, <1>5, <1>6, <1>7 DEF Watch, WatcherStep

\* Rekey: the new container is minded in place of the old one, whose end has
\* been told or will be before the new one's.
LEMMA RekeyTracks ==
    ASSUME TypeInv, StoreInv, ReplaceInv, MatchInv,
           NEW a \in Actor, task[a].pc = "done",
           Rekey(task[a].id, task[a].new),
           UNCHANGED <<ctr, stream, proc, wat, task>>
    PROVE  TrackInv'
<1>1. PICK i \in Id, j \in Id : i = task[a].id /\ j = task[a].new
  BY Replaced DEF MatchInv
<1>2. NotUpYet /\ TrackInv
  BY DEF MatchInv
<1>3. /\ ctr[i].st = "gone" /\ ctr[j].st # "none" /\ ctr[j].name = ctr[i].name
  BY <1>1, <1>2, Replaced
<1>4. CASE keys[i] = 0
  <2>1. \A k \in Id : Minded(k)' <=> Minded(k)
    BY <1>1, <1>4 DEF Rekey, storeVars, Minded
  <2> QED BY <1>2, <2>1, NothingHappens
<1>5. CASE keys[i] # 0
  <2>1. keys' = [keys EXCEPT ![i] = 0, ![j] = keys[i]] /\ keys \in [Id -> Nat]
    BY <1>1, <1>5 DEF Rekey, TypeInv, Typed, StoreTypeOK
  <2>2. /\ keys'[j] # 0
        /\ \A k \in Id : k # j => keys'[k] = 0 \/ keys'[k] = keys[k]
        /\ \A k \in Id : k # i => keys'[k] # 0 \/ keys'[k] = keys[k]
    BY <1>5, <2>1
  <2>3. ctr[i].name \in Labelled /\ Coming("destroy", i)
    BY <1>2, <1>3, <1>5 DEF TrackInv, Forgets, Minded
  <2>4. Forgets(j)'
    <3>1. ASSUME ctr[j].st = "gone" PROVE Coming("destroy", j)
      <4>1. EndsAfter(i, j)
        BY <1>1, <1>2, <3>1 DEF TrackInv, EndsInOrder
      <4> QED BY <2>3, <4>1 DEF EndsAfter, Coming
    <3> QED BY <1>3, <2>3, <3>1 DEF Forgets, Coming, Tells
  <2>5. ASSUME NEW k \in Id, k # j PROVE Forgets(k)'
    <3>1. Minded(k)' => Minded(k)
      BY <2>2, <2>5 DEF Minded
    <3> QED BY <1>2, <3>1 DEF TrackInv, Forgets, Coming, Tells
  <2>6. ASSUME NEW k \in Id, proc # "down" PROVE Learns(k)'
    <3>1. CASE k = i
      BY <1>3, <3>1 DEF Learns
    <3>2. CASE k # i
      <4>1. Minded(k) => Minded(k)'
        BY <2>2, <3>2 DEF Minded
      <4> QED BY <1>2, <2>6, <4>1 DEF TrackInv, Learns, Coming, Tells
    <3> QED BY <3>1, <3>2
  <2>7. EventsNamed' /\ \A b \in Actor : EndsInOrder(task[b])'
    BY <1>2 DEF TrackInv, EventsNamed, EventNamed, EndsInOrder, EndsAfter, Tells
  <2> QED BY <2>4, <2>5, <2>6, <2>7 DEF TrackInv
<1> QED BY <1>4, <1>5

\* The listing finds all there are.
LEMMA SeedTracks == ASSUME TypeInv, MatchInv, Seed PROVE TrackInv'
<1>1. /\ proc = "down" /\ UNCHANGED <<ctr, stream, task, wat>>
      /\ keys' = [i \in Id |-> IF i \in Listed THEN i ELSE 0]
  BY DEF Seed, SeedStore
<1>2. /\ stream = <<>> /\ wat.pc = "idle"
      /\ \A a \in Actor : task[a].pc = "idle"
  BY <1>1 DEF MatchInv, NotUpYet
<1>3. EventsNamed' /\ \A a \in Actor : EndsInOrder(task[a])'
  BY <1>1, <1>2 DEF EventsNamed, EndsInOrder
<1>4. ASSUME NEW i \in Id PROVE Forgets(i)' /\ Learns(i)'
  <2>1. i # 0
    BY Ids DEF NoId
  <2>2. Minded(i)' <=> i \in Listed
    BY <1>1, <1>2, <2>1 DEF Minded
  <2> QED BY <1>1, <2>2 DEF Forgets, Learns, Listed, Present
<1> QED BY <1>3, <1>4 DEF TrackInv

\* The end of the process leaves nothing to be minded or told.
LEMMA DownTracks == ASSUME TypeInv, Down PROVE TrackInv'
<1>1. /\ proc' = "down" /\ stream' = <<>> /\ wat'.pc = "idle"
      /\ \A i \in Id : keys'[i] = 0
      /\ \A a \in Actor : task'[a].pc = "idle"
  BY DEF Down, MemoryEmpty, WatIdle, NoTask
<1> QED BY <1>1 DEF TrackInv, EventsNamed, Forgets, Minded, EndsInOrder

\* The call of a Recreate, done or failed.
LEMMA CallTracks ==
    ASSUME TypeInv, StoreInv, ReplaceInv, MatchInv, NEW a \in Actor,
           RecreateStep(a) \/ CallFails(a), UNCHANGED <<keys, wat>>
    PROVE  TrackInv'
<1>1. /\ ctr \in [Id -> Container] /\ task \in [Actor -> Task] /\ Lives
  BY CallLives DEF TypeInv, Typed, DockerTypeOK, RecreateTypeOK
<1>2. /\ \A b \in Actor : b # a => task'[b] = task[b]
      /\ task[a].pc \in Call
  BY RecreateKeeps DEF CallKeeps, TypeInv, Typed
<1>3. proc' = proc /\ proc = "up"
  BY <1>2 DEF RecreateStep, CallFails, MatchInv, NotUpYet, Call, TypeInv, Typed,
     DockerTypeOK
<1>4. TrackInv /\ \A i \in Id : Minded(i)' <=> Minded(i)
  BY DEF MatchInv, Minded
<1>5. ASSUME Abandon(a) \/ InspectCall(a) \/ PullCall(a) PROVE TrackInv'
  <2>1. UNCHANGED <<ctr, stream>> /\ task'[a].pc # "done"
    BY <1>1, <1>5 DEF Abandon, Goto, InspectCall, PullCall, Task
  <2> QED BY <1>2, <1>3, <1>4, <2>1, NothingHappens
<1>6. CASE StopCall(a) /\ ~Abandon(a)
  <2>1. PICK i : i = task[a].id
    OBVIOUS
  <2>2. /\ Present(i) /\ DockerStop(i) /\ task'[a].pc = "remove"
    BY <1>1, <1>6, <2>1 DEF StopCall, Goto, Task
  <2>3. i \in Id
    BY <1>6, <2>1 DEF StopCall, TypeInv, TasksKnown, TaskKnown
  <2>4. /\ stream' = stream
        /\ \A j \in Id : /\ ctr'[j].st = "gone" => ctr[j].st = "gone"
                         /\ ctr'[j].st = "running" => ctr[j].st = "running"
    BY <1>1, <2>2, <2>3 DEF DockerStop, Container
  <2>5. PICK e \in Event : e.kind = "pull"
    BY SomeEvent
  <2> QED BY <1>1, <1>2, <1>3, <1>4, <2>2, <2>4, <2>5, NothingEnds DEF Told
<1>7. CASE RemoveCall(a) /\ ~Abandon(a)
  <2>1. PICK i : i = task[a].id
    OBVIOUS
  <2>2. /\ Present(i) /\ DockerRemove(i) /\ task'[a].pc = "create"
    BY <1>1, <1>7, <2>1 DEF RemoveCall, Goto, Task
  <2>3. i \in Id
    BY <1>7, <2>1 DEF RemoveCall, TypeInv, TasksKnown, TaskKnown
  <2> QED BY <1>1, <1>2, <1>3, <2>2, <2>3, OneEnds
<1>8. CASE CreateCall(a) /\ ~Abandon(a)
  <2>1. PICK i \in Id :
          /\ Unused(i) /\ DockerCreate(i, task[a].name, task[a].ref, task[a].runs)
          /\ task' = [task EXCEPT ![a] = [@ EXCEPT !.pc = "start", !.new = i]]
    BY <1>8 DEF CreateCall
  <2>2. task'[a].pc # "done"
    BY <1>1, <2>1 DEF Task
  <2>3. /\ stream' = stream
        /\ \A j \in Id : /\ ctr'[j].st = "gone" => ctr[j].st = "gone"
                         /\ ctr'[j].st = "running" => ctr[j].st = "running"
    BY <1>1, <2>1 DEF DockerCreate
  <2>4. PICK e \in Event : e.kind = "pull"
    BY SomeEvent
  <2> QED BY <1>1, <1>2, <1>3, <1>4, <2>2, <2>3, <2>4, NothingEnds DEF Told
<1>9. CASE StartCall(a) /\ ~Abandon(a)
  <2>1. PICK i : i = task[a].new
    OBVIOUS
  <2>2. /\ Present(i) /\ DockerStart(i) /\ task'[a].new = i
    BY <1>1, <1>9, <2>1 DEF StartCall, Goto, Task
  <2>3. i \in Id
    BY <1>9, <2>1 DEF StartCall, TypeInv, TasksKnown, TaskKnown
  <2>4. PICK c : c = [ctr[i] EXCEPT !.st = "running", !.ran = TRUE, !.sick = FALSE]
    OBVIOUS
  <2>5. /\ ctr' = [ctr EXCEPT ![i] = c]
        /\ Emit("start", i, ctr[i].name, ctr[i].image)
    BY <2>2, <2>4 DEF DockerStart
  <2>6. /\ c.st = "running" /\ c.name = ctr[i].name /\ ctr[i].st # "gone"
        /\ c.name \in Name /\ ctr[i].image \in Image
    BY <1>1, <2>2, <2>3, <2>4 DEF Container, Present, TypeInv, Typed, DockerTypeOK
  <2> QED BY <1>1, <1>2, <1>3, <2>2, <2>3, <2>5, <2>6, OneStarts
<1> QED BY <1>5, <1>6, <1>7, <1>8, <1>9 DEF RecreateStep, CallFails

\* People at the daemon, who let main's listing and listening alone.
LEMMA HandTracks ==
    ASSUME "gap" \notin Env, TypeInv, StoreInv, ReplaceInv, MatchInv, Lives,
           HandRemove \/ HandRestart \/ HandRun
    PROVE  TrackInv'
<1>1. /\ ctr \in [Id -> Container] /\ reg \in [Name -> Digest]
      /\ proc # "seeded" /\ UNCHANGED <<keys, wat, proc, task>>
  BY DEF HandRemove, HandRestart, HandRun, Outside, storeVars, TypeInv, Typed,
     DockerTypeOK
<1>2. CASE HandRemove
  BY <1>1, <1>2, OneEnds DEF HandRemove
<1>3. CASE HandRestart
  <2>1. PICK i \in Id : Present(i) /\ DockerStart(i)
    BY <1>3 DEF HandRestart
  <2>2. PICK c : c = [ctr[i] EXCEPT !.st = "running", !.ran = TRUE, !.sick = FALSE]
    OBVIOUS
  <2>3. /\ ctr' = [ctr EXCEPT ![i] = c]
        /\ Emit("start", i, ctr[i].name, ctr[i].image)
    BY <2>1, <2>2 DEF DockerStart
  <2>4. /\ c.st = "running" /\ c.name = ctr[i].name /\ ctr[i].st # "gone"
        /\ c.name \in Name /\ ctr[i].image \in Image
    BY <1>1, <2>1, <2>2 DEF Container, Present, TypeInv, Typed, DockerTypeOK
  <2> QED BY <1>1, <2>3, <2>4, OneStarts
<1>4. CASE HandRun
  <2>1. PICK n \in Name, i \in Id : /\ Unused(i)
                                    /\ ctr' = [ctr EXCEPT ![i] = RunBare(n)]
                                    /\ Emit("start", i, n, NoDigest)
    BY <1>4 DEF HandRun
  <2>2. RunBare(n).st = "running" /\ RunBare(n).name = n
    BY DEF RunBare
  <2>3. ctr[i].st # "gone" /\ NoDigest \in Image
    BY <2>1 DEF Unused, Image
  <2> QED BY <1>1, <2>1, <2>2, <2>3, OneStarts
<1> QED BY <1>2, <1>3, <1>4

\* A container turns unhealthy, an image is pulled.
LEMMA NewsTracks ==
    ASSUME TypeInv, StoreInv, TrackInv, Lives, Sicken \/ HostPull PROVE TrackInv'
<1>1. /\ ctr \in [Id -> Container] /\ reg \in [Name -> Digest]
      /\ UNCHANGED <<keys, wat, proc, task>>
  BY DEF Sicken, HostPull, storeVars, TypeInv, Typed, DockerTypeOK
<1>2. /\ \A i \in Id : Minded(i)' <=> Minded(i)
      /\ \A a \in Actor : task'[a] = task[a]
  BY <1>1 DEF Minded
<1>3. \E k \in {"unhealthy", "pull"}, i \in Id \cup {NoId}, n \in Name, d \in Image :
          Emit(k, i, n, d)
  <2>1. CASE Sicken
    <3>1. PICK i \in Id : /\ ctr[i].st = "running"
                          /\ Emit("unhealthy", i, ctr[i].name, NoDigest)
      BY <2>1 DEF Sicken
    <3>2. ctr[i].name \in Name /\ NoDigest \in Image
      BY <3>1 DEF TypeInv, Typed, DockerTypeOK, Image
    <3> QED BY <3>1, <3>2
  <2>2. CASE HostPull
    BY <1>1, <2>2 DEF HostPull, Image
  <2> QED BY <2>1, <2>2
<1>4. PICK k \in {"unhealthy", "pull"}, i \in Id \cup {NoId}, n \in Name, d \in Image :
          Emit(k, i, n, d)
  BY <1>3
<1>5. PICK e : e = [kind |-> k, id |-> i, name |-> n, dig |-> d]
  OBVIOUS
<1>6. e \in Event /\ e.kind \in {"unhealthy", "pull"} /\ Told(e)
  BY <1>4, <1>5 DEF Event, Emit, Told
<1>7. \A j \in Id : /\ ctr'[j].st = "gone" => ctr[j].st = "gone"
                    /\ ctr'[j].st = "running" => ctr[j].st = "running"
  BY <1>1 DEF Sicken, HostPull, Container
<1> QED BY <1>1, <1>2, <1>6, <1>7, NothingEnds

-----------------------------------------------------------------------------
(* The invariant.                                                          *)

\* A goroutine that has nothing in hand does nothing before the process
\* listens.
LEMMA NotUpKept == TypeInv /\ NotUpYet /\ [Next]_vars => NotUpYet'
<1> SUFFICES ASSUME TypeInv, NotUpYet, [Next]_vars PROVE NotUpYet'
  OBVIOUS
<1>1. CASE Panic \/ Crash
  BY <1>1 DEF Panic, Crash, Down, MemoryEmpty, NotUpYet, WatIdle, ExecIdle,
     RbIdle, NoTask, NoReq
<1>2. CASE proc' = "up"
  BY <1>2 DEF NotUpYet
<1> SUFFICES ASSUME proc' # "up", ~(Panic \/ Crash) PROVE NotUpYet'
  BY <1>1, <1>2
<1>3. proc # "up"
  BY DEF Next, Seed, Subscribe, Exec, ExecutorStep, execView, Rb, RollbackStep,
     Calls, RecreateStep, Watch, WatcherStep, Monitor, HealthMonStep, Serve,
     RequestStep, Ask, Release, HostPull, Sicken, HandRemove, HandRestart,
     HandRun, CallError, CallFails, Rest, vars, dockerVars
<1>4. /\ stream = <<>> /\ qImage = <<>> /\ qUnhealthy = <<>>
      /\ exec.pc = "idle" /\ rb.pc = "idle" /\ wat.pc = "idle"
      /\ \A a \in Actor : task[a].pc = "idle"
      /\ \A s \in Slot : req[s].pc = "idle"
  BY <1>3 DEF NotUpYet
<1>5. CASE UNCHANGED <<stream, qImage, qUnhealthy, exec, rb, wat, task, req>>
  BY <1>4, <1>5 DEF NotUpYet
<1>6. CASE Seed \/ Release \/ UNCHANGED vars
  BY <1>5, <1>6 DEF Seed, Release, vars, dockerVars, topicVars
<1>7. CASE HostPull \/ Sicken \/ HandRemove \/ HandRestart \/ HandRun
  BY <1>3, <1>5, <1>7 DEF HostPull, Sicken, HandRemove, HandRestart, HandRun,
     DockerRemove, DockerStart, Emit, topicVars
<1>8. ~Exec /\ ~Rb /\ ~Watch /\ ~Monitor /\ ~Subscribe
  BY <1>3, <1>4 DEF Exec, ExecutorStep, ExecIgnore, ExecApply, ExecFail,
     ExecSucceed, ExecRekey, ExecPublish, Rb, RollbackStep, RbAbort, RbRestore,
     RbFail, RbRekey, RbPublish, Watch, WatcherStep, Monitor, HealthMonStep,
     Subscribe
<1>9. ~CallError /\ \A a \in Actor : ~Calls(a)
  BY <1>4 DEF CallError, CallFails, Call, Calls, RecreateStep, InspectCall,
     PullCall, StopCall, RemoveCall, CreateCall, StartCall
<1>10. \A s \in Slot : ~Serve(s) /\ ~Ask(s)
  BY <1>3, <1>4 DEF Serve, RequestStep, SendOne, SendDone, SweepHead, SweepDone,
     ServiceHead, CompareRead, CompareSeed, CompareAct, UpdateHead, RollbackSend, Ask
<1> QED BY <1>6, <1>7, <1>8, <1>9, <1>10 DEF Next, Rest

\* Whatever happens to a container that is minded, or starts, is told.
LEMMA MatchKept ==
    ASSUME "gap" \notin Env
    PROVE  TypeInv /\ StoreInv /\ ReplaceInv /\ MatchInv /\ [Next]_vars => MatchInv'
<1> SUFFICES ASSUME TypeInv, StoreInv, ReplaceInv, MatchInv, [Next]_vars
             PROVE  MatchInv'
  OBVIOUS
<1>1. NotUpYet' /\ NotUpYet /\ TrackInv /\ Lives
  BY NotUpKept, NextLives DEF MatchInv
<1>2. task \in [Actor -> Task]
  BY DEF TypeInv, Typed, RecreateTypeOK
<1>3. CASE /\ UNCHANGED <<ctr, stream, proc, keys, wat>>
           /\ \A a \in Actor : task'[a] = task[a] \/ task'[a].pc # "done"
  <2>1. \A i \in Id : Minded(i)' <=> Minded(i)
    BY <1>3 DEF Minded
  <2> QED BY <1>1, <1>3, <2>1, NothingHappens DEF MatchInv
<1>4. CASE Exec
  <2>1. UNCHANGED <<ctr, stream, proc, wat>>
    BY <1>4 DEF Exec, ExecutorStep, execView, ExecIgnore, ExecApply, ExecFail,
       ExecSucceed, ExecRekey, ExecPublish
  <2>2. CASE ExecRekey
    <3>1. /\ task["exec"].pc = "done" /\ task' = task
          /\ Rekey(task["exec"].id, task["exec"].new) /\ "exec" \in Actor
      BY <2>2 DEF ExecRekey, TypeInv, ExecKnown, Actor
    <3> QED BY <1>1, <2>1, <3>1, RekeyTracks DEF MatchInv
  <2>3. CASE ~ExecRekey
    <3>1. keys' = keys
      BY <1>4, <2>3 DEF Exec, ExecutorStep, ExecIgnore, ExecApply, ExecFail,
         ExecSucceed, ExecPublish, storeVars
    <3>2. task' = task \/ Finish("exec") \/ \E i, r : Start("exec", i, r)
      BY <1>4, <2>3 DEF Exec, ExecutorStep, ExecIgnore, ExecApply, ExecFail,
         ExecSucceed, ExecPublish
    <3>3. \A a \in Actor : task'[a] = task[a] \/ task'[a].pc # "done"
      BY <1>2, <3>2, NewTask DEF Actor
    <3> QED BY <1>3, <2>1, <3>1, <3>3
  <2> QED BY <2>2, <2>3
<1>5. CASE Rb
  <2>1. UNCHANGED <<ctr, stream, proc, wat>>
    BY <1>5 DEF Rb, RollbackStep, RbAbort, RbRestore, RbFail, RbRekey, RbPublish
  <2>2. CASE RbRekey
    <3>1. /\ task["rb"].pc = "done" /\ task' = task
          /\ Rekey(task["rb"].id, task["rb"].new) /\ "rb" \in Actor
      BY <2>2 DEF RbRekey, TypeInv, RbKnown, Actor
    <3> QED BY <1>1, <2>1, <3>1, RekeyTracks DEF MatchInv
  <2>3. CASE ~RbRekey
    <3>1. keys' = keys
      BY <1>5, <2>3 DEF Rb, RollbackStep, RbAbort, RbRestore, RbFail, RbPublish,
         storeVars
    <3>2. task' = task \/ Finish("rb") \/ \E i, r : Start("rb", i, r)
      BY <1>5, <2>3 DEF Rb, RollbackStep, RbAbort, RbRestore, RbFail, RbPublish
    <3>3. \A a \in Actor : task'[a] = task[a] \/ task'[a].pc # "done"
      BY <1>2, <3>2, NewTask DEF Actor
    <3> QED BY <1>3, <2>1, <3>1, <3>3
  <2> QED BY <2>2, <2>3
<1>6. CASE (\E a \in Actor : Calls(a)) \/ CallError
  BY <1>1, <1>6, CallTracks DEF Calls, CallError, storeVars, MatchInv
<1>7. CASE Watch
  BY <1>1, <1>7, WatchTracks DEF MatchInv
<1>8. CASE HandRemove \/ HandRestart \/ HandRun
  BY <1>1, <1>8, HandTracks DEF MatchInv
<1>9. CASE Sicken \/ HostPull
  BY <1>1, <1>9, NewsTracks DEF MatchInv
<1>10. CASE Seed
  BY <1>1, <1>10, SeedTracks DEF MatchInv
<1>11. CASE Panic \/ Crash
  BY <1>1, <1>11, DownTracks DEF MatchInv, Panic, Crash
<1>12. CASE Subscribe
  <2>1. proc = "seeded" /\ UNCHANGED <<ctr, stream, keys, wat, task>>
    BY <1>12 DEF Subscribe, storeVars
  <2>2. TrackInv'
    BY <1>1, <2>1 DEF TrackInv, EventsNamed, EventNamed, Forgets, Learns, Minded,
       Coming, Tells, EndsInOrder, EndsAfter
  <2> QED BY <1>1, <2>2 DEF MatchInv
<1>13. CASE Monitor \/ Release \/ UNCHANGED vars
  BY <1>3, <1>13 DEF Monitor, HealthMonStep, Release, vars, dockerVars, storeVars
<1>14. CASE \E s \in Slot : Serve(s) \/ Ask(s)
  <2>1. UNCHANGED <<ctr, stream, proc, wat, task>>
    BY <1>14 DEF Serve, RequestStep, Ask, dockerVars
  <2>2. keys' = keys
    BY <1>14 DEF Serve, RequestStep, SendOne, SendDone, SweepHead, SweepDone,
       ServiceHead, CompareRead, CompareSeed, CompareAct, UpdateHead, RollbackSend,
       Ask, PushBegin, HubBegin, SweepBegin, ServiceBegin, UpdateBegin,
       RollbackBegin, storeVars
  <2> QED BY <1>3, <2>1, <2>2
<1> QED BY <1>4, <1>5, <1>6, <1>7, <1>8, <1>9, <1>10, <1>11, <1>12, <1>13, <1>14
        DEF Next, Rest

\* The process has not started.
LEMMA MatchInit == Init => MatchInv
<1> SUFFICES ASSUME Init PROVE MatchInv
  OBVIOUS
<1>1. /\ proc = "down" /\ stream = <<>> /\ wat.pc = "idle"
      /\ \A i \in Id : keys[i] = 0
      /\ \A a \in Actor : task[a].pc = "idle"
  BY DEF Init, WatIdle, NoTask
<1>2. NotUpYet
  BY <1>1 DEF Init, NotUpYet, ExecIdle, RbIdle, NoReq
<1>3. TrackInv
  BY <1>1 DEF TrackInv, EventsNamed, Forgets, Minded, EndsInOrder
<1> QED BY <1>2, <1>3 DEF MatchInv

\* When nothing is under way the store tracks the labelled containers there
\* are: no interleaving of the events of a replacement with the executor's and
\* the rollback engine's Rekey leaves an entry of a container that is gone, or
\* a container that runs without one. Of what happens between the listing and
\* the listening at start-up the watcher is not told.
THEOREM StoreMatchesHolds ==
    ASSUME "gap" \notin Env PROVE Spec => []StoreMatches
<1>1. TypeInv /\ StoreInv /\ MatchInv => StoreMatches
  <2> SUFFICES ASSUME TypeInv, StoreInv, MatchInv, Quiet, NEW i \in Id
               PROVE  /\ keys[i] # 0 => Present(i)
                      /\ ctr[i].st = "running" /\ ctr[i].name \in Labelled
                             => keys[i] # 0
    BY DEF StoreMatches
  <2>1. Minded(i) <=> keys[i] # 0
    BY DEF Quiet, Minded
  <2>2. \A k : ~Coming(k, i)
    BY DEF Quiet, Coming
  <2>3. keys[i] # 0 => ctr[i].st \notin {"gone", "none"}
    BY <2>1, <2>2, MindedBorn DEF MatchInv, TrackInv, Forgets
  <2>4. ctr[i].st \in {"none", "created", "running", "exited", "gone"}
    BY DEF TypeInv, Typed, DockerTypeOK, Container
  <2>5. Learns(i)
    BY DEF MatchInv, TrackInv, Quiet
  <2> QED BY <2>1, <2>2, <2>3, <2>4, <2>5 DEF Learns, Present
<1>2. Init => StoreInv /\ ReplaceInv /\ MatchInv
  BY StoreInit, ReplaceInit, MatchInit
<1>3. TypeInv /\ (StoreInv /\ ReplaceInv /\ MatchInv) /\ [Next]_vars
          => (StoreInv /\ ReplaceInv /\ MatchInv)'
  BY StoreKept, ReplaceKept, MatchKept
<1> QED BY <1>1, <1>2, <1>3, TypeInvHolds, PTL DEF Spec
=============================================================================
