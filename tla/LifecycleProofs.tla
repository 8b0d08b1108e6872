--------------------------- MODULE LifecycleProofs ---------------------------
(***************************************************************************)
(* The theorem that the pipeline implements the lifecycle of services: the *)
(* invariant that follows every digest from where it was offered to the    *)
(* container that runs it, and the simulation of each step.                *)
(***************************************************************************)
EXTENDS PipelineLife, ServiceLife

-----------------------------------------------------------------------------
(* The inductive invariant: where the digests in everybody's hands come    *)
(* from, and whose containers the ids are.                                 *)

\* Container i of c has the label, or had it while there was one.
Ours(c, i) == i \in Id /\ c[i].st # "none" /\ c[i].name \in Labelled

\* The digest is none, or was offered for this service.
Known(o, n, d) == d \in o[n] \cup {NoDigest}

\* The container's service may be brought to this digest.
Wants(c, o, i, d) == Ours(c, i) /\ Known(o, c[i].name, d)

\* A pointer that somebody holds: to the state of one of our containers,
\* or to what the watcher knew of one that is gone.
Named(c, h, p) ==
    p \in 1..Len(h) /\ Ours(c, h[p].id) /\ h[p].name = c[h[p].id].name

Offers(c, h, o, p, d) == Named(c, h, p) /\ Known(o, h[p].name, d)

OfferKnown ==
    /\ offered \in [Name -> SUBSET Digest]
    /\ \A n \in Name : /\ reg[n] \in offered[n]
                        /\ Known(offered, n, lastDigest[n])
                        /\ \A d \in Reported(n) : Known(offered, n, d)

RunsOffered ==
    \A i \in Id : ctr[i].st # "none" => ctr[i].runs \in offered[ctr[i].name]

RingsOffered ==
    \A p \in Ptr : \A k \in DOMAIN heap[p].hist :
        Known(offered, heap[p].name, heap[p].hist[k])

TracksOurs == \A i \in Id : keys[i] # 0 => Ours(ctr, i)

StreamOurs ==
    \A q \in DOMAIN stream :
        /\ stream[q].kind = "start" => Ours(ctr, stream[q].id)
        /\ stream[q].kind = "pull" => Known(offered, stream[q].name, stream[q].dig)

QueuesOffered ==
    /\ \A k \in DOMAIN qImage : Wants(ctr, offered, qImage[k].id, qImage[k].new)
    /\ \A k \in DOMAIN qApplied : Ours(ctr, qApplied[k].id)
    /\ \A k \in DOMAIN qUnhealthy :
          Wants(ctr, offered, qUnhealthy[k].id, qUnhealthy[k].prev)

ActorsOffered ==
    /\ exec.pc # "idle" => Wants(ctr, offered, exec.p.id, exec.p.new)
    /\ rb.pc # "idle" => Wants(ctr, offered, rb.p.id, rb.p.prev)
    /\ \A a \in Actor :
          task[a].pc \in {"stop", "remove", "create", "start"} =>
              task[a].runs \in offered[task[a].name]

WatOffered ==
    /\ wat.pc = "upsert" => Ours(ctr, wat.id)
    /\ wat.pc \in {"report", "pull"} => \A p \in wat.todo : Named(ctr, heap, p)
    /\ wat.pc = "pull" =>
          \A p \in wat.todo : Offers(ctr, heap, offered, p, wat.image)

MonOurs == \A i \in Id : mon[i].pc # "off" => Ours(ctr, i)

ReqOffered(r) ==
    /\ r.p # 0 => /\ Offers(ctr, heap, offered, r.p, r.dig)
                  /\ Offers(ctr, heap, offered, r.p, r.cur)
    /\ \A p \in r.todo :
          /\ Named(ctr, heap, p)
          /\ r.pc = "send" => Offers(ctr, heap, offered, p, r.dig)
    /\ r.pc = "head" /\ r.kind = "service" => Known(offered, r.name, r.cur)
    /\ r.pc = "sweep" => r.cur = NoDigest

ReqsOffered == \A s \in Slot : ReqOffered(req[s])

\* A lost service is down.
LostDown == \A n \in lost : ~Running(n)

LifeInv ==
    /\ OfferKnown /\ RunsOffered /\ RingsOffered /\ TracksOurs /\ StreamOurs
    /\ QueuesOffered /\ ActorsOffered /\ WatOffered /\ MonOurs /\ ReqsOffered
    /\ LostDown

-----------------------------------------------------------------------------
(* What stays known.                                                       *)

\* Containers keep their names, and nothing offered is forgotten.
Onward == Lives /\ \A n \in Name : offered[n] \subseteq offered'[n]

LEMMA OursStays ==
    ASSUME Onward, NEW i, Ours(ctr, i) PROVE Ours(ctr', i) /\ ctr'[i].name = ctr[i].name
BY DEF Onward, Lives, Ours

LEMMA KnownStays ==
    ASSUME Onward, NEW n \in Name, NEW d, Known(offered, n, d)
    PROVE  Known(offered', n, d)
BY DEF Onward, Known

LEMMA OursNamed == ASSUME NEW c, NEW i, Ours(c, i) PROVE i \in Id /\ c[i].name \in Name
BY DockerAssumption DEF Ours, DockerAssumption

LEMMA WantsStays ==
    ASSUME Onward, NEW i, NEW d, Wants(ctr, offered, i, d)
    PROVE  Wants(ctr', offered', i, d)
<1>1. Ours(ctr, i) /\ Known(offered, ctr[i].name, d)
  BY DEF Wants
<1>2. Ours(ctr', i) /\ ctr'[i].name = ctr[i].name /\ ctr[i].name \in Name
  BY <1>1, OursStays, OursNamed
<1>3. Known(offered', ctr'[i].name, d)
  BY <1>1, <1>2, KnownStays
<1> QED BY <1>2, <1>3 DEF Wants

\* The states of the heap keep their names, and their ids but for a Rekey.
HeapOnward ==
    /\ NamesKept
    /\ \A q \in Ptr : heap'[q].id = heap[q].id \/ \E j \in Id : keys'[j] = q

\* The pointers in hand are still good.
NamedKept ==
    \A p : Named(ctr, heap, p) => /\ Named(ctr', heap', p)
                                  /\ heap'[p].name = heap[p].name

LEMMA NamedStays ==
    ASSUME TypeInv', StoreInv', Onward, HeapOnward PROVE NamedKept
<1> SUFFICES ASSUME NEW p, Named(ctr, heap, p)
             PROVE  Named(ctr', heap', p) /\ heap'[p].name = heap[p].name
  BY DEF NamedKept
<1>1. /\ p \in Ptr /\ Ours(ctr, heap[p].id) /\ heap[p].name = ctr[heap[p].id].name
      /\ heap[p].name \in Labelled
  BY DEF Named, Ptr, Ours
<1>2. p \in 1..Len(heap') /\ heap'[p].name = heap[p].name
  BY <1>1 DEF HeapOnward, NamesKept
<1>3. CASE heap'[p].id = heap[p].id
  <2>1. PICK i : i = heap[p].id
    OBVIOUS
  <2>2. Ours(ctr', i) /\ ctr'[i].name = ctr[i].name
    BY <1>1, <2>1, OursStays
  <2> QED BY <1>1, <1>2, <1>3, <2>1, <2>2 DEF Named
<1>4. CASE \E j \in Id : keys'[j] = p
  <2>1. PICK j \in Id : keys'[j] = p
    BY <1>4
  <2>2. p # 0
    BY <1>1 DEF Ptr
  <2>3. heap'[p].id = j /\ ctr'[j].st # "none" /\ heap'[p].name = ctr'[j].name
    BY <2>1, <2>2 DEF StoreInv, KeyedById, NamesMatch
  <2> QED BY <1>1, <1>2, <2>3 DEF Named, Ours
<1> QED BY <1>1, <1>2, <1>3, <1>4 DEF HeapOnward

LEMMA OffersStays ==
    ASSUME Onward, NamedKept, NEW p, NEW d, Offers(ctr, heap, offered, p, d)
    PROVE  Offers(ctr', heap', offered', p, d)
<1>1. Named(ctr, heap, p) /\ Known(offered, heap[p].name, d)
  BY DEF Offers
<1>2. heap[p].name \in Name
  BY <1>1, OursNamed DEF Named
<1>3. Named(ctr', heap', p) /\ heap'[p].name = heap[p].name
  BY <1>1 DEF NamedKept
<1> QED BY <1>1, <1>2, <1>3, KnownStays DEF Offers

-----------------------------------------------------------------------------
(* The store.                                                              *)

\* PushDigest, Upsert and Rekey on the heap.
LEMMA PushIds ==
    ASSUME StoreTypeOK, NEW p \in Nat, NEW d, PushDigest(p, d)
    PROVE  \A q \in Ptr : heap'[q].id = heap[q].id
<1>1. heap \in Seq(Entry) /\ Len(heap) \in Nat
  BY DEF StoreTypeOK
<1>2. PICK e : e = [heap[p] EXCEPT !.hist = Pushed(heap[p].hist, d)]
  OBVIOUS
<1>3. heap' = [heap EXCEPT ![p] = e]
  BY <1>2 DEF PushDigest
<1>4. p \in Ptr => e.id = heap[p].id
  <2>1. p \in Ptr => heap[p] \in Entry
    BY <1>1 DEF Ptr
  <2> QED BY <1>2, <2>1 DEF Entry
<1> QED BY <1>1, <1>3, <1>4 DEF Ptr

LEMMA UpsertIds ==
    ASSUME StoreTypeOK, NEW i \in Id, NEW n, NEW img, Upsert(i, n, img)
    PROVE  \A q \in Ptr : heap'[q].id = heap[q].id
<1>1. heap \in Seq(Entry) /\ Len(heap) \in Nat
      /\ (keys[i] # 0 => keys[i] \in 1..Len(heap))
  BY DEF StoreTypeOK, Ptr
<1>2. CASE keys[i] = 0
  <2>1. PICK e : heap' = Append(heap, e)
    BY <1>2 DEF Upsert
  <2> QED BY <1>1, <2>1 DEF Ptr
<1>3. CASE keys[i] # 0
  <2>1. PICK p \in 1..Len(heap) : p = keys[i]
    BY <1>1, <1>3
  <2>2. PICK e : e = [heap[p] EXCEPT !.name = n, !.image = img]
    OBVIOUS
  <2>3. heap' = [heap EXCEPT ![p] = e]
    BY <1>3, <2>1, <2>2 DEF Upsert
  <2>4. heap[p] \in Entry
    BY <1>1
  <2>5. e.id = heap[p].id
    BY <2>2, <2>4 DEF Entry
  <2> QED BY <1>1, <2>3, <2>5 DEF Ptr
<1> QED BY <1>2, <1>3

LEMMA RekeyIds ==
    ASSUME StoreTypeOK, NEW i \in Id, NEW j \in Id, Rekey(i, j)
    PROVE  \A q \in Ptr : heap'[q].id = heap[q].id \/ \E k \in Id : keys'[k] = q
<1>1. heap \in Seq(Entry) /\ keys \in [Id -> Nat] /\ Len(heap) \in Nat
  BY DEF StoreTypeOK
<1>2. CASE keys[i] = 0
  BY <1>2 DEF Rekey, storeVars
<1>3. CASE keys[i] # 0
  <2>1. keys'[j] = keys[i]
    BY <1>1, <1>3 DEF Rekey
  <2>2. \A q \in Ptr : q # keys[i] => heap'[q] = heap[q]
    BY <1>1, <1>3 DEF Rekey, Ptr
  <2> QED BY <2>1, <2>2
<1> QED BY <1>2, <1>3

LEMMA NextHeap ==
    ASSUME TypeInv, StoreInv, [Next]_vars PROVE HeapOnward \/ Panic \/ Crash
<1>1. StoreTypeOK
  BY DEF TypeInv, Typed
<1>2. NamesKept \/ Panic \/ Crash
  BY NextNames
<1> DEFINE Same == \A q \in Ptr : heap'[q].id = heap[q].id \/ \E j \in Id : keys'[j] = q
<1>3. heap' = heap => Same
  OBVIOUS
<1>4. CASE Exec
  <2>1. CASE ExecRekey
    <3>1. exec.p.id \in Id /\ task["exec"].new \in Id
      BY <2>1 DEF ExecRekey, TypeInv, ExecKnown, TasksKnown, TaskKnown, Actor,
         ImageUpdated
    <3> QED BY <1>1, <1>2, <2>1, <3>1, RekeyIds DEF ExecRekey, HeapOnward
  <2>2. CASE ExecPublish
    <3>1. exec.cs \in Nat
      BY DEF TypeInv, Typed, ExecutorTypeOK
    <3> QED BY <1>1, <1>2, <2>2, <3>1, PushIds DEF ExecPublish, HeapOnward
  <2> QED BY <1>2, <1>3, <1>4, <2>1, <2>2 DEF Exec, ExecutorStep, ExecIgnore, ExecApply,
          ExecFail, ExecSucceed, storeVars, HeapOnward
<1>5. CASE Rb
  <2>1. CASE RbRekey
    <3>1. rb.p.id \in Id /\ task["rb"].new \in Id
      BY <2>1 DEF RbRekey, TypeInv, RbKnown, TasksKnown, TaskKnown, Actor, Unhealthy
    <3> QED BY <1>1, <1>2, <2>1, <3>1, RekeyIds DEF RbRekey, HeapOnward
  <2>2. CASE RbPublish
    <3>1. rb.cs \in Nat
      BY DEF TypeInv, Typed, RollbackTypeOK
    <3> QED BY <1>1, <1>2, <1>3, <2>2, <3>1, PushIds DEF RbPublish, HeapOnward
  <2> QED BY <1>2, <1>3, <1>5, <2>1, <2>2 DEF Rb, RollbackStep, RbAbort, RbRestore,
          RbFail, storeVars, HeapOnward
<1>6. CASE Watch
  <2>1. CASE WatchUpsert
    <3>1. wat.id \in Id
      BY <2>1 DEF WatchUpsert, TypeInv, WatKnown
    <3> QED BY <1>1, <1>2, <2>1, <3>1, UpsertIds DEF WatchUpsert, HeapOnward
  <2> QED BY <1>2, <1>3, <1>6, <2>1 DEF Watch, WatcherStep, WatchStart, WatchDestroy,
          Remove, WatchUnhealthy, WatchReport, WatchPull, WatchPullOne,
          WatchPullDone, storeVars, HeapOnward
<1>7. CASE \E s \in Slot : Serve(s)
  <2>1. PICK s \in Slot : Serve(s)
    BY <1>7
  <2>2. CASE CompareSeed(s)
    <3>1. req[s].p \in Nat
      BY DEF TypeInv, Typed, TriggersTypeOK, Request
    <3> QED BY <1>1, <1>2, <2>2, <3>1, PushIds DEF CompareSeed, HeapOnward
  <2> QED BY <1>2, <1>3, <2>1, <2>2 DEF Serve, RequestStep, SendOne, SendDone,
          SweepHead, SweepDone, ServiceHead, CompareRead, CompareAct, UpdateHead,
          RollbackSend, storeVars, HeapOnward
<1>8. CASE \E s \in Slot : Ask(s)
  BY <1>2, <1>3, <1>8 DEF Ask, PushBegin, HubBegin, SweepBegin, ServiceBegin,
     UpdateBegin, RollbackBegin, storeVars, HeapOnward
<1>9. CASE Seed
  <2>1. heap = <<>>
    BY <1>9 DEF Seed, TypeInv, DownIsEmpty
  <2> QED BY <1>2, <2>1 DEF Ptr, HeapOnward
<1>10. CASE Subscribe \/ Monitor \/ (\E a \in Actor : Calls(a)) \/ CallError
  BY <1>2, <1>3, <1>10 DEF Subscribe, Monitor, HealthMonStep, Calls, CallError,
     storeVars, HeapOnward
<1>11. CASE Release \/ HostPull \/ Sicken \/ HandRemove \/ HandRestart \/ HandRun
  BY <1>2, <1>3, <1>11 DEF Release, HostPull, Sicken, HandRemove, HandRestart,
     HandRun, storeVars, HeapOnward
<1>12. CASE UNCHANGED vars
  BY <1>2, <1>3, <1>12 DEF vars, storeVars, HeapOnward
<1> QED BY <1>2, <1>4, <1>5, <1>6, <1>7, <1>8, <1>9, <1>10, <1>11, <1>12 DEF Next, Rest

-----------------------------------------------------------------------------
(* What is offered.                                                        *)

\* The digests on the services' rows are the registry's.
LEMMA RowsKnown ==
    ASSUME TypeInv, [Next]_vars
    PROVE  \A n \in Name : lastDigest'[n] = lastDigest[n] \/ lastDigest'[n] = reg[n]
<1>1. lastDigest \in [Name -> Image]
  BY DEF TypeInv, Typed, TriggersTypeOK
<1>2. CASE \E s \in Slot : Serve(s) /\ ServiceHead(s)
  BY <1>1, <1>2 DEF ServiceHead
<1>3. CASE lastDigest' = lastDigest
  BY <1>3
<1>4. CASE \E s \in Slot : Serve(s) \/ Ask(s)
  BY <1>2, <1>3, <1>4 DEF Serve, RequestStep, SendOne, SendDone, SweepHead, SweepDone,
     CompareRead, CompareSeed, CompareAct, UpdateHead, RollbackSend, Ask, PushBegin,
     HubBegin, SweepBegin, ServiceBegin, UpdateBegin, RollbackBegin
<1>5. CASE Seed \/ Subscribe \/ Panic \/ Crash \/ Exec \/ Rb \/ Watch \/ Monitor
  BY <1>3, <1>5 DEF Seed, Subscribe, Panic, Crash, Down, Exec, Rb, Watch, Monitor
<1>6. CASE (\E a \in Actor : Calls(a)) \/ CallError
  BY <1>3, <1>6 DEF Calls, CallError
<1>7. CASE Release \/ HostPull \/ Sicken \/ HandRemove \/ HandRestart \/ HandRun
  BY <1>3, <1>7 DEF Release, HostPull, Sicken, HandRemove, HandRestart, HandRun
<1>8. CASE UNCHANGED vars
  BY <1>3, <1>8 DEF vars
<1> QED BY <1>4, <1>5, <1>6, <1>7, <1>8 DEF Next, Rest

\* A step of the history is one of the pipeline, with what it reports noted.
LEMMA Stepped ==
    ASSUME TypeInv, OfferKnown, [LifeNext]_<<vars, offered>>
    PROVE  [Next]_vars /\ Onward /\ TypeInv' /\ OfferKnown'
<1>1. [Next]_vars
  BY DEF LifeNext
<1>2. TypeInv' /\ Lives
  BY <1>1, NextTyped, NextLives
<1>3. reg' \in [Name -> Digest] /\ \A s \in Slot : req'[s].dig \in Image
  BY <1>2 DEF TypeInv, Typed, DockerTypeOK, TriggersTypeOK, Request
<1>4. offered \in [Name -> SUBSET Digest]
  BY DEF OfferKnown
<1>5. CASE LifeNext
  <2>1. ASSUME NEW n \in Name
        PROVE  offered'[n] = offered[n] \cup {reg'[n]} \cup (Reported(n)' \ {NoDigest})
    BY <1>5 DEF LifeNext, Remember
  <2>2. ASSUME NEW n \in Name PROVE Reported(n)' \subseteq Digest \cup {NoDigest}
    BY <1>3 DEF Reported, Image
  <2>3. offered' = [n \in Name |-> offered'[n]]
    BY <1>5, Zenon DEF LifeNext, Remember
  <2>4. ASSUME NEW n \in Name
        PROVE  /\ offered'[n] \subseteq Digest /\ reg'[n] \in offered'[n]
               /\ offered[n] \subseteq offered'[n]
               /\ \A d \in Reported(n)' : d \in offered'[n] \cup {NoDigest}
    BY <1>3, <1>4, <2>1, <2>2
  <2>5. offered' \in [Name -> SUBSET Digest]
    BY <2>3, <2>4
  <2>6. Onward
    BY <1>2, <2>4 DEF Onward
  <2>7. ASSUME NEW n \in Name PROVE Known(offered', n, lastDigest'[n])
    BY <1>1, <2>4, RowsKnown DEF OfferKnown, Known
  <2> QED BY <1>1, <1>2, <2>4, <2>5, <2>6, <2>7 DEF OfferKnown, Known
<1>6. CASE UNCHANGED <<vars, offered>>
  <2>1. offered' = offered /\ reg' = reg /\ lastDigest' = lastDigest /\ req' = req
    BY <1>6 DEF vars, dockerVars
  <2>2. OfferKnown' /\ Onward
    BY <1>2, <2>1 DEF OfferKnown, Reported, Onward
  <2> QED BY <1>1, <1>2, <2>2
<1> QED BY <1>5, <1>6

\* What is known before and after a step.
Stepping ==
    /\ TypeInv /\ RingInv /\ LifeInv /\ [Next]_vars
    /\ TypeInv' /\ StoreInv' /\ OfferKnown'
    /\ Onward /\ KeepsRuns

-----------------------------------------------------------------------------
(* What containers run.                                                    *)

\* A new container is what a Recreate pulled, or what a person ran.
LEMMA Born ==
    ASSUME TypeInv, [Next]_vars, NEW i \in Id, ctr[i].st = "none", ctr'[i].st # "none"
    PROVE  \/ \E a \in Actor : /\ task[a].pc = "create"
                               /\ ctr'[i].runs = task[a].runs
                               /\ ctr'[i].name = task[a].name
           \/ ctr'[i].name \in Name /\ ctr'[i].runs = reg[ctr'[i].name]
<1>1. ctr \in [Id -> Container]
  BY DEF TypeInv, Typed, DockerTypeOK
<1>2. ctr' # ctr
  OBVIOUS
<1>3. CASE \E a \in Actor : RecreateStep(a)
  <2>1. PICK a \in Actor : RecreateStep(a)
    BY <1>3
  <2>2. CASE CreateCall(a)
    <3>1. PICK j \in Id :
            DockerCreate(j, task[a].name, task[a].ref, task[a].runs)
      BY <1>2, <2>2 DEF CreateCall, Abandon
    <3>2. i # j => ctr'[i] = ctr[i]
      BY <1>1, <3>1 DEF DockerCreate
    <3>3. ctr'[j].runs = task[a].runs /\ ctr'[j].name = task[a].name
      BY <1>1, <3>1 DEF DockerCreate
    <3> QED BY <2>2, <3>2, <3>3 DEF CreateCall
  <2>3. CASE StopCall(a)
    <3>1. DockerStop(task[a].id) /\ Present(task[a].id)
      BY <1>2, <2>3 DEF StopCall, Abandon
    <3>2. i # task[a].id
      BY <3>1 DEF Present
    <3> QED BY <1>1, <3>1, <3>2 DEF DockerStop
  <2>4. CASE RemoveCall(a)
    <3>1. DockerRemove(task[a].id) /\ Present(task[a].id)
      BY <1>2, <2>4 DEF RemoveCall, Abandon
    <3>2. i # task[a].id
      BY <3>1 DEF Present
    <3> QED BY <1>1, <3>1, <3>2 DEF DockerRemove
  <2>5. CASE StartCall(a)
    <3>1. DockerStart(task[a].new) /\ Present(task[a].new)
      BY <1>2, <2>5 DEF StartCall, Abandon
    <3>2. i # task[a].new
      BY <3>1 DEF Present
    <3> QED BY <1>1, <3>1, <3>2 DEF DockerStart
  <2>6. CASE InspectCall(a) \/ PullCall(a)
    BY <1>2, <2>6 DEF InspectCall, PullCall, Abandon
  <2> QED BY <2>1, <2>2, <2>3, <2>4, <2>5, <2>6 DEF RecreateStep
<1>4. CASE Sicken
  BY <1>1, <1>4 DEF Sicken
<1>5. CASE HandRemove
  BY <1>1, <1>5 DEF HandRemove, DockerRemove, Present
<1>6. CASE HandRestart
  BY <1>1, <1>6 DEF HandRestart, DockerStart, Present
<1>7. CASE HandRun
  <2>1. PICK n \in Name, j \in Id : ctr' = [ctr EXCEPT ![j] = RunBare(n)]
    BY <1>7 DEF HandRun
  <2>2. RunBare(n).runs = reg[n] /\ RunBare(n).name = n
    BY DEF RunBare
  <2>3. ctr'[j] = RunBare(n) /\ \A k \in Id : k # j => ctr'[k] = ctr[k]
    BY <1>1, <2>1
  <2> QED BY <2>2, <2>3
<1>8. ctr' = ctr \/ (\E a \in Actor : RecreateStep(a)) \/ Sicken \/ HandRemove
      \/ HandRestart \/ HandRun
  BY DEF Next, Seed, Subscribe, Panic, Crash, Down, Release, HostPull, Exec,
     ExecutorStep, ExecIgnore, ExecApply, ExecFail, ExecSucceed, ExecRekey,
     ExecPublish, Rb, RollbackStep, RbAbort, RbRestore, RbFail, RbRekey, RbPublish,
     Watch, WatcherStep, Monitor, HealthMonStep, Serve, RequestStep, Ask, Calls,
     CallError, CallFails, Abandon, Rest, vars, dockerVars
<1> QED BY <1>2, <1>3, <1>4, <1>5, <1>6, <1>7, <1>8

LEMMA RunsOfferedKept == ASSUME Stepping PROVE RunsOffered'
<1> SUFFICES ASSUME NEW i \in Id, ctr'[i].st # "none"
             PROVE  ctr'[i].runs \in offered'[ctr'[i].name]
  BY DEF RunsOffered
<1>1. /\ TypeInv /\ [Next]_vars /\ KeepsRuns /\ Lives /\ RunsOffered /\ OfferKnown
      /\ ActorsOffered /\ \A n \in Name : offered[n] \subseteq offered'[n]
  BY DEF Stepping, Onward, LifeInv
<1>2. CASE ctr[i].st # "none"
  <2>1. ctr'[i].runs = ctr[i].runs /\ ctr'[i].name = ctr[i].name /\ ctr[i].name \in Name
    BY <1>1, <1>2 DEF KeepsRuns, Lives, TypeInv, Typed, DockerTypeOK
  <2> QED BY <1>1, <1>2, <2>1 DEF RunsOffered
<1>3. CASE ctr[i].st = "none"
  <2>1. \A a \in Actor : task[a].pc = "create" =>
            task[a].runs \in offered[task[a].name] /\ task[a].name \in Name
    BY <1>1 DEF ActorsOffered, TypeInv, TasksKnown, TaskKnown
  <2>2. \A n \in Name : reg[n] \in offered[n]
    BY <1>1 DEF OfferKnown
  <2> QED BY <1>1, <1>3, <2>1, <2>2, Born
<1> QED BY <1>2, <1>3

-----------------------------------------------------------------------------
(* Pointers, and the digests in rings.                                     *)

LEMMA TrackedNamed ==
    ASSUME TypeInv, StoreInv, TracksOurs
    PROVE  /\ \A i \in Id : keys[i] # 0 =>
                  Named(ctr, heap, keys[i]) /\ heap[keys[i]].name = ctr[i].name
           /\ \A p \in Tracked : Named(ctr, heap, p)
<1>1. ASSUME NEW i \in Id, keys[i] # 0
      PROVE  Named(ctr, heap, keys[i]) /\ heap[keys[i]].name = ctr[i].name
  <2>1. keys[i] \in 1..Len(heap) /\ heap[keys[i]].id = i
    BY <1>1 DEF TypeInv, Typed, StoreTypeOK, Ptr, StoreInv, KeyedById
  <2>2. Ours(ctr, i) /\ heap[keys[i]].name = ctr[i].name
    BY <1>1 DEF TracksOurs, StoreInv, NamesMatch
  <2> QED BY <2>1, <2>2 DEF Named
<1> QED BY <1>1 DEF Tracked

LEMMA OffersWants ==
    ASSUME NEW p, NEW d, Offers(ctr, heap, offered, p, d)
    PROVE  Wants(ctr, offered, heap[p].id, d)
BY DEF Offers, Named, Wants

LEMMA OffersNone ==
    ASSUME NEW p, Named(ctr, heap, p) PROVE Offers(ctr, heap, offered, p, NoDigest)
BY DEF Offers, Known

LEMMA RingOffers ==
    ASSUME TypeInv, RingsOffered, NEW p, Named(ctr, heap, p)
    PROVE  /\ Offers(ctr, heap, offered, p, CurrentDigest(p))
           /\ Offers(ctr, heap, offered, p, PreviousDigest(p))
<1>1. p \in Ptr /\ heap \in Seq(Entry)
  BY DEF Named, Ptr, TypeInv, Typed, StoreTypeOK
<1>2. heap[p].hist \in Seq(Image)
  <2>1. heap[p] \in Entry
    BY <1>1 DEF Ptr
  <2> QED BY <2>1 DEF Entry
<1>3. \A k \in DOMAIN heap[p].hist : Known(offered, heap[p].name, heap[p].hist[k])
  BY <1>1 DEF RingsOffered
<1>4. Known(offered, heap[p].name, NoDigest)
  BY DEF Known
<1>5. Known(offered, heap[p].name, CurrentDigest(p))
  BY <1>2, <1>3, <1>4 DEF CurrentDigest
<1>6. Known(offered, heap[p].name, PreviousDigest(p))
  BY <1>2, <1>3, <1>4 DEF PreviousDigest
<1> QED BY <1>5, <1>6 DEF Offers

-----------------------------------------------------------------------------
(* The topics.                                                             *)

\* What is in a queue after an event was put in, or taken.
LEMMA QueueMore ==
    ASSUME NEW S, NEW q \in Seq(S), NEW m, NEW r,
           r = Publish(q, m) \/ r = Append(q, m) \/ r = q, NEW k \in DOMAIN r
    PROVE  r[k] = m \/ \E l \in DOMAIN q : r[k] = q[l]
<1>1. CASE r = Append(q, m)
  <2>1. r[k] = m \/ (k \in DOMAIN q /\ r[k] = q[k])
    BY <1>1
  <2> QED BY <2>1
<1>2. CASE r = q
  BY <1>2
<1> QED BY <1>1, <1>2 DEF Publish

LEMMA QueueLess ==
    ASSUME NEW S, NEW q \in Seq(S), q # <<>>
    PROVE  /\ \A k \in DOMAIN Tail(q) : \E l \in DOMAIN q : Tail(q)[k] = q[l]
           /\ \E l \in DOMAIN q : Head(q) = q[l]
<1>1. \A k \in DOMAIN Tail(q) : k + 1 \in DOMAIN q /\ Tail(q)[k] = q[k + 1]
  OBVIOUS
<1>2. 1 \in DOMAIN q /\ Head(q) = q[1]
  OBVIOUS
<1> QED BY <1>1, <1>2

\* What one queue holds after a step: what it held, and what was just said.
LEMMA ImagesFrom ==
    ASSUME Stepping,
           \A k \in DOMAIN qImage' :
               \/ \E l \in DOMAIN qImage : qImage'[k] = qImage[l]
               \/ Wants(ctr, offered, qImage'[k].id, qImage'[k].new)
    PROVE  \A k \in DOMAIN qImage' :
               Wants(ctr', offered', qImage'[k].id, qImage'[k].new)
<1>1. Onward /\ \A l \in DOMAIN qImage : Wants(ctr, offered, qImage[l].id, qImage[l].new)
  BY DEF Stepping, LifeInv, QueuesOffered
<1> QED BY <1>1, WantsStays

LEMMA ImagesKept ==
    ASSUME Stepping
    PROVE  \A k \in DOMAIN qImage' :
               Wants(ctr', offered', qImage'[k].id, qImage'[k].new)
<1>1. /\ TypeInv /\ StoreInv /\ [Next]_vars /\ WatOffered /\ ReqsOffered
      /\ qImage \in Seq(ImageUpdated)
  BY DEF Stepping, LifeInv, RingInv, TypeInv, Typed, TopicsTypeOK
<1>2. CASE qImage' = qImage
  BY <1>2, ImagesFrom
<1>3. CASE qImage # <<>> /\ qImage' = Tail(qImage)
  BY <1>1, <1>3, QueueLess, ImagesFrom
<1>4. ASSUME NEW m, Wants(ctr, offered, m.id, m.new), qImage' = Publish(qImage, m)
      PROVE  \A k \in DOMAIN qImage' :
                 Wants(ctr', offered', qImage'[k].id, qImage'[k].new)
  <2>1. \A k \in DOMAIN qImage' :
            qImage'[k] = m \/ \E l \in DOMAIN qImage : qImage'[k] = qImage[l]
    BY <1>1, <1>4, QueueMore
  <2> QED BY <1>4, <2>1, ImagesFrom
<1>5. CASE \E s \in Slot : Serve(s) \/ Ask(s)
  <2>1. PICK s \in Slot : Serve(s) \/ Ask(s)
    BY <1>5
  <2>2. CASE SendOne(s)
    <3>1. PICK p \in req[s].todo :
            qImage' = Publish(qImage, [id |-> heap[p].id, name |-> heap[p].name,
                                       image |-> NoDigest, new |-> req[s].dig])
      BY <2>2 DEF SendOne
    <3>2. Offers(ctr, heap, offered, p, req[s].dig)
      BY <1>1, <2>2, <3>1 DEF ReqsOffered, ReqOffered, SendOne
    <3> QED BY <1>4, <3>1, <3>2, OffersWants
  <2>3. CASE CompareAct(s) /\ qImage' # qImage
    <3>1. PICK p : p = req[s].p
      OBVIOUS
    <3>2. qImage' = Publish(qImage, [id |-> heap[p].id, name |-> heap[p].name,
                                     image |-> heap[p].image, new |-> req[s].dig])
      BY <2>3, <3>1 DEF CompareAct
    <3>3. p # 0
      BY <1>1, <2>3, <3>1 DEF CompareAct, TypeInv, ReqsKnown, ReqKnown
    <3>4. Offers(ctr, heap, offered, p, req[s].dig)
      BY <1>1, <3>1, <3>3 DEF ReqsOffered, ReqOffered
    <3> QED BY <1>4, <3>2, <3>4, OffersWants
  <2>4. qImage' = qImage \/ SendOne(s) \/ CompareAct(s)
    BY <2>1 DEF Serve, RequestStep, SendDone, SweepHead, SweepDone, ServiceHead,
       CompareRead, CompareSeed, UpdateHead, RollbackSend, Ask, PushBegin, HubBegin,
       SweepBegin, ServiceBegin, UpdateBegin, RollbackBegin
  <2> QED BY <1>2, <2>2, <2>3, <2>4
<1>6. CASE Watch
  <2>1. CASE WatchPullOne /\ qImage' # qImage
    <3>1. PICK p \in wat.todo :
            qImage' = Publish(qImage, [id |-> heap[p].id, name |-> heap[p].name,
                                       image |-> NoDigest, new |-> wat.image])
      BY <2>1 DEF WatchPullOne
    <3>2. Offers(ctr, heap, offered, p, wat.image)
      BY <1>1, <2>1, <3>1 DEF WatOffered, WatchPullOne
    <3> QED BY <1>4, <3>1, <3>2, OffersWants
  <2> QED BY <1>2, <1>6, <2>1 DEF Watch, WatcherStep, WatchStart, WatchUpsert,
          WatchDestroy, WatchUnhealthy, WatchReport, WatchPull, WatchPullDone
<1>7. CASE Exec
  BY <1>2, <1>3, <1>7 DEF Exec, ExecutorStep, ExecIgnore, ExecApply, ExecFail,
     ExecSucceed, ExecRekey, ExecPublish
<1>8. CASE Panic \/ Crash
  BY <1>8 DEF Panic, Crash, Down, MemoryEmpty
<1>9. CASE Seed \/ Subscribe \/ Rb \/ Monitor \/ (\E a \in Actor : Calls(a)) \/ CallError
  BY <1>2, <1>9 DEF Seed, Subscribe, Rb, RollbackStep, Monitor, HealthMonStep, Calls,
     CallError, topicVars
<1>10. CASE Release \/ HostPull \/ Sicken \/ HandRemove \/ HandRestart \/ HandRun
  BY <1>2, <1>10 DEF Release, HostPull, Sicken, HandRemove, HandRestart, HandRun,
     topicVars
<1>11. CASE UNCHANGED vars
  BY <1>2, <1>11 DEF vars, topicVars
<1> QED BY <1>1, <1>5, <1>6, <1>7, <1>8, <1>9, <1>10, <1>11 DEF Next, Rest

\* The container an actor has made is ours as the old one was.
LEMMA NewOurs ==
    ASSUME TypeInv, NEW a \in Actor, task[a].pc = "done", Ours(ctr, task[a].id)
    PROVE  Ours(ctr, task[a].new)
BY DEF TypeInv, TasksKnown, TaskKnown, Ours

LEMMA AppliedsKept ==
    ASSUME Stepping PROVE \A k \in DOMAIN qApplied' : Ours(ctr', qApplied'[k].id)
<1>1. /\ TypeInv /\ [Next]_vars /\ ActorsOffered /\ qApplied \in Seq(UpdateApplied)
      /\ Onward /\ \A l \in DOMAIN qApplied : Ours(ctr, qApplied[l].id)
  BY DEF Stepping, LifeInv, TypeInv, Typed, TopicsTypeOK, QueuesOffered
<1>2. CASE \A k \in DOMAIN qApplied' :
             \/ \E l \in DOMAIN qApplied : qApplied'[k] = qApplied[l]
             \/ Ours(ctr, qApplied'[k].id)
  BY <1>1, <1>2, OursStays
<1>3. CASE Exec
  <2>1. CASE ExecPublish
    <3>1. PICK p : p = exec.p
      OBVIOUS
    <3>2. PICK j : j = task["exec"].new
      OBVIOUS
    <3>3. PICK m : m = [p EXCEPT !.id = j]
      OBVIOUS
    <3>4. qApplied' = Publish(qApplied, m)
      BY <2>1, <3>1, <3>2, <3>3 DEF ExecPublish
    <3>5. m.id = j
      BY <1>1, <2>1, <3>1, <3>3 DEF ExecPublish, TypeInv, ExecKnown, ImageUpdated
    <3>6. /\ "exec" \in Actor /\ task["exec"].pc = "done"
          /\ Ours(ctr, task["exec"].id)
      BY <1>1, <2>1 DEF ExecPublish, TypeInv, ExecKnown, Actor, ActorsOffered, Wants
    <3>7. Ours(ctr, m.id)
      BY <1>1, <3>2, <3>5, <3>6, NewOurs
    <3>8. \A k \in DOMAIN qApplied' :
              qApplied'[k] = m \/ \E l \in DOMAIN qApplied : qApplied'[k] = qApplied[l]
      BY <1>1, <3>4, QueueMore
    <3> QED BY <1>2, <3>7, <3>8
  <2> QED BY <1>2, <1>3, <2>1 DEF Exec, ExecutorStep, ExecIgnore, ExecApply, ExecFail,
          ExecSucceed, ExecRekey
<1>4. CASE Monitor
  <2>1. CASE MonStart
    <3>1. qApplied # <<>> /\ qApplied' = Tail(qApplied)
      BY <2>1 DEF MonStart
    <3> QED BY <1>1, <1>2, <3>1, QueueLess
  <2> QED BY <1>2, <1>4, <2>1 DEF Monitor, HealthMonStep, MonDetect, MonReport, MonExpire
<1>5. CASE Panic \/ Crash
  BY <1>5 DEF Panic, Crash, Down, MemoryEmpty
<1>6. CASE qApplied' = qApplied
  BY <1>2, <1>6
<1>7. CASE Seed \/ Subscribe \/ Rb \/ Watch \/ (\E a \in Actor : Calls(a)) \/ CallError
  BY <1>6, <1>7 DEF Seed, Subscribe, Rb, RollbackStep, Watch, WatcherStep, Calls,
     CallError, topicVars
<1>8. CASE \E s \in Slot : Serve(s) \/ Ask(s)
  BY <1>6, <1>8 DEF Serve, RequestStep, Ask
<1>9. CASE Release \/ HostPull \/ Sicken \/ HandRemove \/ HandRestart \/ HandRun
  BY <1>6, <1>9 DEF Release, HostPull, Sicken, HandRemove, HandRestart, HandRun,
     topicVars
<1>10. CASE UNCHANGED vars
  BY <1>6, <1>10 DEF vars, topicVars
<1> QED BY <1>1, <1>3, <1>4, <1>5, <1>7, <1>8, <1>9, <1>10 DEF Next, Rest

LEMMA UnhealthysFrom ==
    ASSUME Stepping,
           \A k \in DOMAIN qUnhealthy' :
               \/ \E l \in DOMAIN qUnhealthy : qUnhealthy'[k] = qUnhealthy[l]
               \/ Wants(ctr, offered, qUnhealthy'[k].id, qUnhealthy'[k].prev)
    PROVE  \A k \in DOMAIN qUnhealthy' :
               Wants(ctr', offered', qUnhealthy'[k].id, qUnhealthy'[k].prev)
<1>1. Onward /\ \A l \in DOMAIN qUnhealthy :
                    Wants(ctr, offered, qUnhealthy[l].id, qUnhealthy[l].prev)
  BY DEF Stepping, LifeInv, QueuesOffered
<1> QED BY <1>1, WantsStays

LEMMA UnhealthysKept ==
    ASSUME Stepping
    PROVE  \A k \in DOMAIN qUnhealthy' :
               Wants(ctr', offered', qUnhealthy'[k].id, qUnhealthy'[k].prev)
<1>1. /\ TypeInv /\ StoreInv /\ [Next]_vars /\ WatOffered /\ ReqsOffered /\ MonOurs
      /\ RingsOffered /\ TracksOurs /\ qUnhealthy \in Seq(Unhealthy)
  BY DEF Stepping, LifeInv, RingInv, TypeInv, Typed, TopicsTypeOK
<1>2. CASE qUnhealthy' = qUnhealthy
  BY <1>2, UnhealthysFrom
<1>3. CASE qUnhealthy # <<>> /\ qUnhealthy' = Tail(qUnhealthy)
  BY <1>1, <1>3, QueueLess, UnhealthysFrom
<1>4. ASSUME NEW m, Wants(ctr, offered, m.id, m.prev),
             qUnhealthy' = Publish(qUnhealthy, m)
      PROVE  \A k \in DOMAIN qUnhealthy' :
                 Wants(ctr', offered', qUnhealthy'[k].id, qUnhealthy'[k].prev)
  <2>1. \A k \in DOMAIN qUnhealthy' :
            qUnhealthy'[k] = m \/ \E l \in DOMAIN qUnhealthy :
                                      qUnhealthy'[k] = qUnhealthy[l]
    BY <1>1, <1>4, QueueMore
  <2> QED BY <1>4, <2>1, UnhealthysFrom
<1>5. CASE \E s \in Slot : Serve(s) \/ Ask(s)
  <2>1. PICK s \in Slot : Serve(s) \/ Ask(s)
    BY <1>5
  <2>2. CASE RollbackSend(s)
    <3>1. PICK p : p = req[s].p
      OBVIOUS
    <3>2. qUnhealthy' = Publish(qUnhealthy,
              [id |-> heap[p].id, name |-> heap[p].name, image |-> heap[p].image,
               applied |-> CurrentDigest(p), prev |-> req[s].cur])
      BY <2>2, <3>1 DEF RollbackSend
    <3>3. p # 0
      BY <1>1, <2>2, <3>1 DEF RollbackSend, TypeInv, ReqsKnown, ReqKnown
    <3>4. Offers(ctr, heap, offered, p, req[s].cur)
      BY <1>1, <3>1, <3>3 DEF ReqsOffered, ReqOffered
    <3> QED BY <1>4, <3>2, <3>4, OffersWants
  <2>3. qUnhealthy' = qUnhealthy \/ RollbackSend(s)
    BY <2>1 DEF Serve, RequestStep, SendOne, SendDone, SweepHead, SweepDone,
       ServiceHead, CompareRead, CompareSeed, CompareAct, UpdateHead, Ask, PushBegin,
       HubBegin, SweepBegin, ServiceBegin, UpdateBegin, RollbackBegin
  <2> QED BY <1>2, <2>2, <2>3
<1>6. CASE Watch
  <2>1. CASE WatchReport
    <3>1. PICK p \in wat.todo :
            qUnhealthy' = Publish(qUnhealthy,
              [id |-> heap[p].id, name |-> heap[p].name, image |-> heap[p].image,
               applied |-> wat.applied, prev |-> PreviousDigest(p)])
      BY <2>1 DEF WatchReport
    <3>2. Named(ctr, heap, p)
      BY <1>1, <2>1, <3>1 DEF WatOffered, WatchReport
    <3>3. Offers(ctr, heap, offered, p, PreviousDigest(p))
      BY <1>1, <3>2, RingOffers
    <3> QED BY <1>4, <3>1, <3>3, OffersWants
  <2> QED BY <1>2, <1>6, <2>1 DEF Watch, WatcherStep, WatchStart, WatchUpsert,
          WatchDestroy, WatchUnhealthy, WatchPull, WatchPullOne, WatchPullDone
<1>7. CASE Monitor
  <2>1. ASSUME NEW i \in Id, MonReport(i) PROVE qUnhealthy' = qUnhealthy \/
             \E m : qUnhealthy' = Publish(qUnhealthy, m) /\ Wants(ctr, offered, m.id, m.prev)
    <3>1. PICK d : d = IF keys[i] = 0 THEN NoDigest ELSE PreviousDigest(keys[i])
      OBVIOUS
    <3>2. Wants(ctr, offered, i, d)
      <4>1. Ours(ctr, i)
        BY <1>1, <2>1 DEF MonReport, MonOurs
      <4>2. CASE keys[i] = 0
        BY <3>1, <4>1, <4>2 DEF Wants, Known
      <4>3. CASE keys[i] # 0
        <5>1. Named(ctr, heap, keys[i]) /\ heap[keys[i]].name = ctr[i].name
          BY <1>1, <4>3, TrackedNamed
        <5>2. Offers(ctr, heap, offered, keys[i], d)
          BY <1>1, <3>1, <4>3, <5>1, RingOffers
        <5> QED BY <4>1, <5>1, <5>2 DEF Offers, Wants
      <4> QED BY <4>2, <4>3
    <3> DEFINE m == [id |-> i, name |-> mon[i].name, image |-> mon[i].image,
                     applied |-> mon[i].new, prev |-> d]
    <3>3. qUnhealthy' = Publish(qUnhealthy, m) /\ m.id = i /\ m.prev = d
      BY <2>1, <3>1 DEF MonReport
    <3> HIDE DEF m
    <3> QED BY <3>2, <3>3
  <2>2. qUnhealthy' = qUnhealthy \/ \E i \in Id : MonReport(i)
    BY <1>7 DEF Monitor, HealthMonStep, MonStart, MonDetect, MonExpire
  <2> QED BY <1>2, <1>4, <2>1, <2>2
<1>8. CASE Rb
  BY <1>2, <1>3, <1>8 DEF Rb, RollbackStep, RbAbort, RbRestore, RbFail, RbRekey,
     RbPublish
<1>9. CASE Panic \/ Crash
  BY <1>9 DEF Panic, Crash, Down, MemoryEmpty
<1>10. CASE Seed \/ Subscribe \/ Exec \/ (\E a \in Actor : Calls(a)) \/ CallError
  BY <1>2, <1>10 DEF Seed, Subscribe, Exec, ExecutorStep, execView, Calls, CallError,
     topicVars
<1>11. CASE Release \/ HostPull \/ Sicken \/ HandRemove \/ HandRestart \/ HandRun
  BY <1>2, <1>11 DEF Release, HostPull, Sicken, HandRemove, HandRestart, HandRun,
     topicVars
<1>12. CASE UNCHANGED vars
  BY <1>2, <1>12 DEF vars, topicVars
<1> QED BY <1>1, <1>5, <1>6, <1>7, <1>8, <1>9, <1>10, <1>11, <1>12 DEF Next, Rest

LEMMA QueuesKept == ASSUME Stepping PROVE QueuesOffered'
BY ImagesKept, AppliedsKept, UnhealthysKept DEF QueuesOffered

-----------------------------------------------------------------------------
(* What is tracked, and what the stream tells.                             *)

LEMMA TracksKept == ASSUME Stepping PROVE TracksOurs'
<1>1. /\ TypeInv /\ StoreInv /\ [Next]_vars /\ TracksOurs /\ WatOffered /\ Onward
      /\ keys \in [Id -> Nat]
  BY DEF Stepping, LifeInv, RingInv, TypeInv, Typed, StoreTypeOK
<1>2. CASE \A i \in Id : keys'[i] # 0 => keys[i] # 0 \/ Ours(ctr, i)
  BY <1>1, <1>2, OursStays DEF TracksOurs
<1>3. ASSUME NEW a \in Actor, task[a].pc = "done",
             Rekey(task[a].id, task[a].new)
      PROVE  TracksOurs'
  <2>1. PICK i \in Id, j \in Id : i = task[a].id /\ j = task[a].new
    BY <1>1, <1>3 DEF TypeInv, TasksKnown, TaskKnown
  <2>2. CASE keys[i] = 0
    BY <1>2, <1>3, <2>1, <2>2 DEF Rekey, storeVars
  <2>3. CASE keys[i] # 0
    <3>1. Ours(ctr, i)
      BY <1>1, <2>3 DEF TracksOurs
    <3>2. Ours(ctr, j)
      BY <1>1, <1>3, <2>1, <3>1, NewOurs
    <3>3. keys' = [keys EXCEPT ![i] = 0, ![j] = keys[i]]
      BY <1>3, <2>1, <2>3 DEF Rekey
    <3> QED BY <1>1, <1>2, <3>2, <3>3
  <2> QED BY <2>2, <2>3
<1>4. CASE Exec
  <2>1. CASE ExecRekey
    <3>1. /\ "exec" \in Actor /\ task["exec"].pc = "done"
          /\ task["exec"].id = exec.p.id
      BY <1>1, <2>1 DEF ExecRekey, TypeInv, ExecKnown, Actor
    <3> QED BY <1>3, <2>1, <3>1 DEF ExecRekey
  <2> QED BY <1>2, <1>4, <2>1 DEF Exec, ExecutorStep, ExecIgnore, ExecApply, ExecFail,
          ExecSucceed, ExecPublish, storeVars
<1>5. CASE Rb
  <2>1. CASE RbRekey
    <3>1. "rb" \in Actor /\ task["rb"].pc = "done" /\ task["rb"].id = rb.p.id
      BY <1>1, <2>1 DEF RbRekey, TypeInv, RbKnown, Actor
    <3> QED BY <1>3, <2>1, <3>1 DEF RbRekey
  <2> QED BY <1>2, <1>5, <2>1 DEF Rb, RollbackStep, RbAbort, RbRestore, RbFail,
          RbPublish, storeVars
<1>6. CASE Watch
  <2>1. CASE WatchUpsert
    <3>1. Ours(ctr, wat.id)
      BY <1>1, <2>1 DEF WatchUpsert, WatOffered
    <3> QED BY <1>1, <1>2, <2>1, <3>1 DEF WatchUpsert, Upsert
  <2>2. CASE WatchDestroy
    BY <1>1, <1>2, <2>2 DEF WatchDestroy, Remove
  <2> QED BY <1>2, <1>6, <2>1, <2>2 DEF Watch, WatcherStep, WatchStart, WatchUnhealthy,
          WatchReport, WatchPull, WatchPullOne, WatchPullDone, storeVars
<1>7. CASE Seed
  BY <1>1, <1>2, <1>7 DEF Seed, SeedStore, Listed, Present, Ours
<1>8. CASE Panic \/ Crash
  BY <1>2, <1>8 DEF Panic, Crash, Down
<1>9. CASE \E s \in Slot : Serve(s) \/ Ask(s)
  BY <1>2, <1>9 DEF Serve, RequestStep, SendOne, SendDone, SweepHead, SweepDone,
     ServiceHead, CompareRead, CompareSeed, CompareAct, UpdateHead, RollbackSend, Ask,
     PushBegin, HubBegin, SweepBegin, ServiceBegin, UpdateBegin, RollbackBegin, storeVars
<1>10. CASE Subscribe \/ Monitor \/ (\E a \in Actor : Calls(a)) \/ CallError
  BY <1>2, <1>10 DEF Subscribe, Monitor, HealthMonStep, Calls, CallError, storeVars
<1>11. CASE Release \/ HostPull \/ Sicken \/ HandRemove \/ HandRestart \/ HandRun
  BY <1>2, <1>11 DEF Release, HostPull, Sicken, HandRemove, HandRestart, HandRun,
     storeVars
<1>12. CASE UNCHANGED vars
  BY <1>2, <1>12 DEF vars, storeVars
<1> QED BY <1>1, <1>4, <1>5, <1>6, <1>7, <1>8, <1>9, <1>10, <1>11, <1>12 DEF Next, Rest

\* What an event must say when it is put on the stream.
TellsOurs(e) ==
    /\ e.kind = "start" => Ours(ctr', e.id)
    /\ e.kind = "pull" => e.name \in Name /\ Known(offered, e.name, e.dig)

LEMMA StreamFrom ==
    ASSUME Stepping,
           \A q \in DOMAIN stream' :
               (\E l \in DOMAIN stream : stream'[q] = stream[l]) \/ TellsOurs(stream'[q])
    PROVE  StreamOurs'
<1>1. Onward /\ StreamOurs /\ stream \in Seq(Event)
  BY DEF Stepping, LifeInv, TypeInv, Typed, DockerTypeOK
<1>2. ASSUME NEW l \in DOMAIN stream PROVE TellsOurs(stream[l])
  <2>1. stream[l] \in Event
    BY <1>1
  <2>2. stream[l].name \in Name
    BY <2>1 DEF Event
  <2> QED BY <1>1, <2>2, OursStays DEF StreamOurs, TellsOurs
<1>3. ASSUME NEW q \in DOMAIN stream' PROVE TellsOurs(stream'[q])
  BY <1>2
<1>4. ASSUME NEW q \in DOMAIN stream'
      PROVE  /\ stream'[q].kind = "start" => Ours(ctr', stream'[q].id)
             /\ stream'[q].kind = "pull" =>
                    Known(offered', stream'[q].name, stream'[q].dig)
  BY <1>1, <1>3, KnownStays DEF TellsOurs
<1> QED BY <1>4 DEF StreamOurs

LEMMA Emits ==
    ASSUME Stepping, NEW k, NEW i, NEW n, NEW d, Emit(k, i, n, d),
           n \in Labelled => TellsOurs([kind |-> k, id |-> i, name |-> n, dig |-> d])
    PROVE  StreamOurs'
<1>1. PICK e : e = [kind |-> k, id |-> i, name |-> n, dig |-> d]
  OBVIOUS
<1>2. stream \in Seq(Event)
  BY DEF Stepping, TypeInv, Typed, DockerTypeOK
<1>3. CASE stream' = stream
  BY <1>3, StreamFrom
<1>4. CASE stream' = Append(stream, e) /\ n \in Labelled
  <2>1. \A q \in DOMAIN stream' :
            stream'[q] = e \/ \E l \in DOMAIN stream : stream'[q] = stream[l]
    BY <1>2, <1>4, QueueMore
  <2> QED BY <1>1, <1>4, <2>1, StreamFrom
<1> QED BY <1>1, <1>3, <1>4 DEF Emit

\* A container that is started, and one that is removed.
LEMMA StartEmits ==
    ASSUME Stepping, NEW i \in Id, Present(i), DockerStart(i) PROVE StreamOurs'
<1>1. Emit("start", i, ctr[i].name, ctr[i].image) /\ Onward
  BY DEF DockerStart, Stepping
<1>2. ctr[i].name \in Labelled => Ours(ctr', i)
  BY <1>1, OursStays DEF Ours, Present
<1> QED BY <1>1, <1>2, Emits DEF TellsOurs

LEMMA RemoveEmits ==
    ASSUME Stepping, NEW i, DockerRemove(i) PROVE StreamOurs'
BY Emits DEF DockerRemove, TellsOurs

LEMMA StreamKept == ASSUME Stepping PROVE StreamOurs'
<1>1. /\ TypeInv /\ [Next]_vars /\ OfferKnown /\ Onward
      /\ stream \in Seq(Event) /\ ctr \in [Id -> Container]
  BY DEF Stepping, LifeInv, TypeInv, Typed, DockerTypeOK
<1>2. CASE stream' = stream
  BY <1>2, StreamFrom
<1>3. CASE stream # <<>> /\ stream' = Tail(stream)
  BY <1>1, <1>3, QueueLess, StreamFrom
<1>4. CASE \E a \in Actor : RecreateStep(a)
  <2>1. PICK a \in Actor : RecreateStep(a)
    BY <1>4
  <2>2. CASE RemoveCall(a) /\ stream' # stream
    BY <2>2, RemoveEmits DEF RemoveCall, Abandon
  <2>3. CASE StartCall(a) /\ stream' # stream
    <3>1. Present(task[a].new) /\ DockerStart(task[a].new) /\ task[a].new \in Id
      BY <1>1, <2>3 DEF StartCall, Abandon, TypeInv, TasksKnown, TaskKnown
    <3> QED BY <3>1, StartEmits
  <2> QED BY <1>2, <2>1, <2>2, <2>3 DEF RecreateStep, InspectCall, PullCall, StopCall,
          DockerStop, CreateCall, DockerCreate, Abandon
<1>5. CASE Watch
  BY <1>2, <1>3, <1>5 DEF Watch, WatcherStep, NextEvent, WatchStart, WatchUpsert,
     WatchDestroy, WatchUnhealthy, WatchReport, WatchPull, WatchPullOne, WatchPullDone
<1>6. CASE HostPull
  <2>1. PICK n \in Name : Emit("pull", NoId, n, reg[n])
    BY <1>6 DEF HostPull
  <2>2. Known(offered, n, reg[n])
    BY <1>1 DEF OfferKnown, Known
  <2> QED BY <2>1, <2>2, Emits DEF TellsOurs
<1>7. CASE Sicken
  BY <1>7, Emits DEF Sicken, TellsOurs
<1>8. CASE HandRemove
  BY <1>8, RemoveEmits DEF HandRemove
<1>9. CASE HandRestart
  BY <1>9, StartEmits DEF HandRestart
<1>10. CASE HandRun
  <2>1. PICK n \in Name, i \in Id : /\ ctr' = [ctr EXCEPT ![i] = RunBare(n)]
                                    /\ Emit("start", i, n, NoDigest)
    BY <1>10 DEF HandRun
  <2>2. RunBare(n).st = "running" /\ RunBare(n).name = n
    BY DEF RunBare
  <2>3. n \in Labelled => Ours(ctr', i)
    BY <1>1, <2>1, <2>2 DEF Ours
  <2> QED BY <2>1, <2>3, Emits DEF TellsOurs
<1>11. CASE Panic \/ Crash
  BY <1>11 DEF Panic, Crash, Down, MemoryEmpty, StreamOurs
<1>12. CASE Exec
  BY <1>2, <1>12 DEF Exec, ExecutorStep, ExecIgnore, ExecApply, ExecFail,
     ExecSucceed, ExecRekey, ExecPublish
<1>13. CASE Rb
  BY <1>2, <1>13 DEF Rb, RollbackStep, RbAbort, RbRestore, RbFail, RbRekey, RbPublish
<1>14. CASE Seed \/ Subscribe \/ Monitor \/ Release \/ UNCHANGED vars
  BY <1>2, <1>14 DEF Seed, Subscribe, Monitor, HealthMonStep, Release, vars, dockerVars
<1>15. CASE \E s \in Slot : Serve(s) \/ Ask(s)
  BY <1>2, <1>15 DEF Serve, RequestStep, Ask, dockerVars
<1>16. CASE CallError
  BY <1>2, <1>16 DEF CallError, CallFails, Abandon
<1>17. CASE \E a \in Actor : Calls(a)
  BY <1>4, <1>17 DEF Calls
<1> QED BY <1>1, <1>5, <1>6, <1>7, <1>8, <1>9, <1>10, <1>11, <1>12, <1>13, <1>14,
           <1>15, <1>16, <1>17 DEF Next, Rest

-----------------------------------------------------------------------------
(* What the executor, the rollback engine and the monitor have in hand.    *)

LEMMA ExecOffered ==
    ASSUME Stepping
    PROVE  exec'.pc # "idle" => Wants(ctr', offered', exec'.p.id, exec'.p.new)
<1>1. /\ TypeInv /\ [Next]_vars /\ Onward /\ ActorsOffered /\ QueuesOffered
      /\ qImage \in Seq(ImageUpdated)
  BY DEF Stepping, LifeInv, TypeInv, Typed, TopicsTypeOK
<1>2. CASE exec'.pc # "idle" => exec.pc # "idle" /\ exec'.p = exec.p
  BY <1>1, <1>2, WantsStays DEF ActorsOffered
<1>3. CASE Exec
  <2>1. CASE ExecApply
    <3>1. PICK l \in DOMAIN qImage : Head(qImage) = qImage[l]
      BY <1>1, <2>1, QueueLess DEF ExecApply
    <3>2. exec'.p = qImage[l]
      BY <2>1, <3>1 DEF ExecApply
    <3> QED BY <1>1, <3>2, WantsStays DEF QueuesOffered
  <2>2. CASE ExecSucceed \/ ExecRekey
    <3>1. exec.pc # "idle" /\ exec'.p = exec.p
      BY <1>1, <2>2 DEF ExecSucceed, ExecRekey, TypeInv, Typed, ExecutorTypeOK
    <3> QED BY <1>2, <3>1
  <2>3. CASE ExecIgnore \/ ExecFail \/ ExecPublish
    BY <1>2, <2>3 DEF ExecIgnore, ExecFail, ExecPublish, ExecIdle
  <2> QED BY <1>3, <2>1, <2>2, <2>3 DEF Exec, ExecutorStep
<1>4. CASE Panic \/ Crash
  BY <1>4 DEF Panic, Crash, Down, MemoryEmpty, ExecIdle
<1>5. CASE exec' = exec
  BY <1>2, <1>5
<1>6. CASE Seed \/ Subscribe \/ Rb \/ Watch \/ Monitor \/ UNCHANGED vars
  BY <1>5, <1>6 DEF Seed, Subscribe, Rb, Watch, Monitor, vars
<1>7. CASE (\E a \in Actor : Calls(a)) \/ CallError
  BY <1>5, <1>7 DEF Calls, CallError
<1>8. CASE \E s \in Slot : Serve(s) \/ Ask(s)
  BY <1>5, <1>8 DEF Serve, Ask
<1>9. CASE Release \/ HostPull \/ Sicken \/ HandRemove \/ HandRestart \/ HandRun
  BY <1>5, <1>9 DEF Release, HostPull, Sicken, HandRemove, HandRestart, HandRun
<1> QED BY <1>1, <1>3, <1>4, <1>6, <1>7, <1>8, <1>9 DEF Next, Rest

LEMMA RbOffered ==
    ASSUME Stepping
    PROVE  rb'.pc # "idle" => Wants(ctr', offered', rb'.p.id, rb'.p.prev)
<1>1. /\ TypeInv /\ [Next]_vars /\ Onward /\ ActorsOffered /\ QueuesOffered
      /\ qUnhealthy \in Seq(Unhealthy)
  BY DEF Stepping, LifeInv, TypeInv, Typed, TopicsTypeOK
<1>2. CASE rb'.pc # "idle" => rb.pc # "idle" /\ rb'.p = rb.p
  BY <1>1, <1>2, WantsStays DEF ActorsOffered
<1>3. CASE Rb
  <2>1. CASE RbRestore
    <3>1. PICK l \in DOMAIN qUnhealthy : Head(qUnhealthy) = qUnhealthy[l]
      BY <1>1, <2>1, QueueLess DEF RbRestore
    <3>2. rb'.p = qUnhealthy[l]
      BY <2>1, <3>1 DEF RbRestore
    <3> QED BY <1>1, <3>2, WantsStays DEF QueuesOffered
  <2>2. CASE RbRekey
    <3>1. rb.pc # "idle" /\ rb'.p = rb.p
      BY <1>1, <2>2 DEF RbRekey, TypeInv, Typed, RollbackTypeOK
    <3> QED BY <1>2, <3>1
  <2>3. CASE RbAbort \/ RbFail \/ RbPublish
    BY <1>2, <2>3 DEF RbAbort, RbFail, RbPublish, RbIdle
  <2> QED BY <1>3, <2>1, <2>2, <2>3 DEF Rb, RollbackStep
<1>4. CASE Panic \/ Crash
  BY <1>4 DEF Panic, Crash, Down, MemoryEmpty, RbIdle
<1>5. CASE rb' = rb
  BY <1>2, <1>5
<1>6. CASE Seed \/ Subscribe \/ Exec \/ Watch \/ Monitor \/ UNCHANGED vars
  BY <1>5, <1>6 DEF Seed, Subscribe, Exec, Watch, Monitor, vars
<1>7. CASE (\E a \in Actor : Calls(a)) \/ CallError
  BY <1>5, <1>7 DEF Calls, CallError
<1>8. CASE \E s \in Slot : Serve(s) \/ Ask(s)
  BY <1>5, <1>8 DEF Serve, Ask
<1>9. CASE Release \/ HostPull \/ Sicken \/ HandRemove \/ HandRestart \/ HandRun
  BY <1>5, <1>9 DEF Release, HostPull, Sicken, HandRemove, HandRestart, HandRun
<1> QED BY <1>1, <1>3, <1>4, <1>6, <1>7, <1>8, <1>9 DEF Next, Rest

\* An actor at work has one of our containers in hand, and pins a digest that
\* was offered for its service.
LEMMA ActorWants ==
    ASSUME TypeInv, RunInv, ActorsOffered, NEW a \in Actor, task[a].pc # "idle"
    PROVE  /\ Ours(ctr, task[a].id)
           /\ task[a].ref # BadRef =>
                  Known(offered, ctr[task[a].id].name, task[a].ref)
<1>1. CASE a = "exec"
  <2>1. exec.pc # "idle" /\ task[a].id = exec.p.id
    BY <1>1 DEF TypeInv, ExecKnown, NoTask
  <2>2. task[a].ref # BadRef => task[a].ref \in {exec.p.new, NoDigest}
    BY <1>1, <2>1 DEF RunInv, RefsPinned, Pin
  <2> QED BY <2>1, <2>2 DEF ActorsOffered, Wants, Known
<1>2. CASE a = "rb"
  <2>1. rb.pc # "idle" /\ task[a].id = rb.p.id
    BY <1>2 DEF TypeInv, RbKnown, NoTask
  <2>2. task[a].ref # BadRef => task[a].ref \in {rb.p.prev, NoDigest}
    BY <1>2, <2>1 DEF RunInv, RefsPinned, Pin
  <2> QED BY <2>1, <2>2 DEF ActorsOffered, Wants, Known
<1> QED BY <1>1, <1>2 DEF Actor

\* The digest a Recreate is going to run was offered for its service.
RunsKnown(t, o) ==
    t.pc \in {"stop", "remove", "create", "start"} => t.runs \in o[t.name]

LEMMA CallRunsKnown ==
    ASSUME Stepping, NEW a \in Actor, RecreateStep(a) \/ CallFails(a)
    PROVE  RunsKnown(task'[a], offered)
<1>1. /\ TypeInv /\ RunInv /\ ActorsOffered /\ OfferKnown
      /\ task \in [Actor -> Task] /\ task[a] \in Task /\ TaskKnown(task[a])
  BY DEF Stepping, LifeInv, RingInv, TypeInv, Typed, RecreateTypeOK, TasksKnown
<1>2. RunsKnown(task[a], offered)
  BY <1>1 DEF ActorsOffered, RunsKnown
<1>3. CASE Abandon(a)
  <2>1. task'[a].pc = "failed"
    BY <1>1, <1>3, GotoTask DEF Abandon
  <2> QED BY <2>1 DEF RunsKnown
<1>4. CASE InspectCall(a) /\ ~Abandon(a)
  <2>1. PICK n, t : task' = [task EXCEPT ![a] = t]
                    /\ t = [task[a] EXCEPT !.pc = "pull", !.name = n]
    BY <1>4 DEF InspectCall
  <2>2. t.pc = "pull" /\ task'[a] = t
    BY <1>1, <2>1 DEF Task
  <2> QED BY <2>2 DEF RunsKnown
<1>5. CASE PullCall(a) /\ ~Abandon(a)
  <2>1. PICK d : d = IF task[a].ref = NoDigest THEN reg[task[a].name]
                     ELSE task[a].ref
    OBVIOUS
  <2>2. PICK t : t = [task[a] EXCEPT !.pc = "stop", !.runs = d]
    OBVIOUS
  <2>3. task' = [task EXCEPT ![a] = t] /\ task[a].ref # BadRef /\ task[a].pc = "pull"
    BY <1>5, <2>1, <2>2 DEF PullCall
  <2>4. t.runs = d /\ t.name = task[a].name /\ task'[a] = t
    BY <1>1, <2>2, <2>3 DEF Task
  <2>5. task[a].name \in Name /\ task[a].name = ctr[task[a].id].name
    BY <1>1, <2>3 DEF TaskKnown
  <2>6. Known(offered, task[a].name, task[a].ref)
    BY <1>1, <2>3, <2>5, ActorWants
  <2>7. d \in offered[task[a].name]
    BY <1>1, <2>1, <2>5, <2>6 DEF OfferKnown, Known
  <2> QED BY <2>4, <2>7 DEF RunsKnown
<1>6. CASE (StopCall(a) \/ RemoveCall(a) \/ StartCall(a)) /\ ~Abandon(a)
  <2>1. PICK l : Goto(a, l) /\ task[a].pc \in {"stop", "remove", "start"}
    BY <1>6 DEF StopCall, RemoveCall, StartCall
  <2>2. PICK t : t = [task[a] EXCEPT !.pc = l]
    OBVIOUS
  <2>3. task'[a] = t /\ t.runs = task[a].runs /\ t.name = task[a].name
    BY <1>1, <2>1, <2>2 DEF Goto, Task
  <2> QED BY <1>2, <2>1, <2>3 DEF RunsKnown
<1>7. CASE CreateCall(a) /\ ~Abandon(a)
  <2>1. PICK j, t : task' = [task EXCEPT ![a] = t]
                    /\ t = [task[a] EXCEPT !.pc = "start", !.new = j]
    BY <1>7 DEF CreateCall
  <2>2. task'[a] = t /\ t.runs = task[a].runs /\ t.name = task[a].name
    BY <1>1, <2>1 DEF Task
  <2> QED BY <1>2, <1>7, <2>2 DEF RunsKnown, CreateCall
<1> QED BY <1>3, <1>4, <1>5, <1>6, <1>7 DEF RecreateStep, CallFails

LEMMA TasksOffered ==
    ASSUME Stepping, NEW a \in Actor PROVE RunsKnown(task'[a], offered')
<1>1. /\ TypeInv /\ TypeInv' /\ [Next]_vars /\ Onward /\ task \in [Actor -> Task]
      /\ RunsKnown(task[a], offered)
  BY DEF Stepping, LifeInv, ActorsOffered, RunsKnown, TypeInv, Typed, RecreateTypeOK
<1>2. CASE RunsKnown(task'[a], offered)
  <2>1. task'[a].pc \in {"stop", "remove", "create", "start"} => task'[a].name \in Name
    BY <1>1 DEF TypeInv, TasksKnown, TaskKnown
  <2> QED BY <1>1, <1>2, <2>1 DEF RunsKnown, Onward
<1>3. CASE task'[a] = task[a]
  BY <1>1, <1>2, <1>3
<1>4. ASSUME NEW b \in Actor, Finish(b) \/ \E i, r : Start(b, i, r)
      PROVE  RunsKnown(task'[a], offered')
  <2>1. task'[a] = task[a] \/ task'[a].pc \in {"idle", "inspect"}
    BY <1>1, <1>4, TaskBegins, TaskEnds DEF NoTask
  <2> QED BY <1>3, <2>1 DEF RunsKnown
<1>5. CASE \E b \in Actor : RecreateStep(b) \/ CallFails(b)
  <2>1. PICK b \in Actor : RecreateStep(b) \/ CallFails(b)
    BY <1>5
  <2>2. b # a => task'[a] = task[a]
    BY <1>1, <2>1, RecreateKeeps DEF CallKeeps, TypeInv, Typed
  <2>3. b = a => RunsKnown(task'[a], offered)
    BY <2>1, CallRunsKnown
  <2> QED BY <1>2, <1>3, <2>2, <2>3
<1>6. CASE Exec
  <2>1. "exec" \in Actor
    BY DEF Actor
  <2> QED BY <1>3, <1>4, <1>6, <2>1 DEF Exec, ExecutorStep, ExecIgnore, ExecApply,
          ExecFail, ExecSucceed, ExecRekey, ExecPublish
<1>7. CASE Rb
  <2>1. "rb" \in Actor
    BY DEF Actor
  <2> QED BY <1>3, <1>4, <1>7, <2>1 DEF Rb, RollbackStep, RbAbort, RbRestore, RbFail,
          RbRekey, RbPublish
<1>8. CASE Panic \/ Crash
  BY <1>8 DEF Panic, Crash, Down, MemoryEmpty, NoTask, RunsKnown
<1>9. CASE Seed \/ Subscribe \/ Watch \/ Monitor \/ UNCHANGED vars
  BY <1>3, <1>9 DEF Seed, Subscribe, Watch, Monitor, vars
<1>10. CASE \E s \in Slot : Serve(s) \/ Ask(s)
  BY <1>3, <1>10 DEF Serve, Ask
<1>11. CASE Release \/ HostPull \/ Sicken \/ HandRemove \/ HandRestart \/ HandRun
  BY <1>3, <1>11 DEF Release, HostPull, Sicken, HandRemove, HandRestart, HandRun
<1>12. CASE (\E b \in Actor : Calls(b)) \/ CallError
  BY <1>5, <1>12 DEF Calls, CallError
<1> QED BY <1>1, <1>6, <1>7, <1>8, <1>9, <1>10, <1>11, <1>12 DEF Next, Rest

LEMMA ActorsKept == ASSUME Stepping PROVE ActorsOffered'
BY ExecOffered, RbOffered, TasksOffered DEF ActorsOffered, RunsKnown

LEMMA MonKept == ASSUME Stepping PROVE MonOurs'
<1>1. /\ TypeInv /\ [Next]_vars /\ Onward /\ MonOurs /\ QueuesOffered
      /\ qApplied \in Seq(UpdateApplied) /\ DOMAIN mon = Id
  BY DEF Stepping, LifeInv, TypeInv, Typed, TopicsTypeOK, HealthMonTypeOK
<1>2. CASE \A i \in Id : mon'[i].pc # "off" => mon[i].pc # "off" \/ Ours(ctr, i)
  BY <1>1, <1>2, OursStays DEF MonOurs
<1>3. CASE Monitor
  <2>1. CASE MonStart
    <3>1. PICK l \in DOMAIN qApplied : Head(qApplied) = qApplied[l]
      BY <1>1, <2>1, QueueLess DEF MonStart
    <3>2. \A i \in Id : i # qApplied[l].id => mon'[i] = mon[i]
      BY <1>1, <2>1, <3>1 DEF MonStart
    <3>3. Ours(ctr, qApplied[l].id)
      BY <1>1 DEF QueuesOffered
    <3> QED BY <1>2, <3>2, <3>3
  <2>2. ASSUME NEW i \in Id, MonDetect(i) \/ MonReport(i) \/ MonExpire(i)
        PROVE  \A j \in Id : mon'[j].pc # "off" => mon[j].pc # "off"
    <3>1. \A j \in Id : j # i => mon'[j] = mon[j]
      BY <1>1, <2>2 DEF MonDetect, MonReport, MonExpire
    <3>2. mon[i].pc # "off"
      BY <2>2 DEF MonDetect, MonReport, MonExpire
    <3> QED BY <3>1, <3>2
  <2> QED BY <1>2, <1>3, <2>1, <2>2 DEF Monitor, HealthMonStep
<1>4. CASE Panic \/ Crash
  BY <1>4 DEF Panic, Crash, Down, MemoryEmpty, MonOff, MonOurs
<1>5. CASE mon' = mon
  BY <1>2, <1>5
<1>6. CASE Seed \/ Subscribe \/ Exec \/ Rb \/ Watch \/ UNCHANGED vars
  BY <1>5, <1>6 DEF Seed, Subscribe, Exec, Rb, Watch, vars
<1>7. CASE (\E a \in Actor : Calls(a)) \/ CallError
  BY <1>5, <1>7 DEF Calls, CallError
<1>8. CASE \E s \in Slot : Serve(s) \/ Ask(s)
  BY <1>5, <1>8 DEF Serve, Ask
<1>9. CASE Release \/ HostPull \/ Sicken \/ HandRemove \/ HandRestart \/ HandRun
  BY <1>5, <1>9 DEF Release, HostPull, Sicken, HandRemove, HandRestart, HandRun
<1> QED BY <1>1, <1>3, <1>4, <1>6, <1>7, <1>8, <1>9 DEF Next, Rest

-----------------------------------------------------------------------------
(* What the rings hold.                                                    *)

\* What can be said of a ring's digests before the step holds after it.
LEMMA RingStays ==
    ASSUME Stepping, NEW q \in 1..Len(heap'), q \in Ptr, heap'[q].name = heap[q].name,
           \A k \in DOMAIN heap'[q].hist :
               Known(offered, heap[q].name, heap'[q].hist[k])
    PROVE  \A k \in DOMAIN heap'[q].hist :
               Known(offered', heap'[q].name, heap'[q].hist[k])
<1>1. heap \in Seq(Entry) /\ Onward
  BY DEF Stepping, TypeInv, Typed, StoreTypeOK
<1>2. heap[q].name \in Name
  <2>1. heap[q] \in Entry
    BY <1>1 DEF Ptr
  <2> QED BY <2>1 DEF Entry
<1> QED BY <1>1, <1>2, KnownStays

\* Nobody pushed.
LEMMA RingsOfferedStay == ASSUME Stepping, RingsKept PROVE RingsOffered'
<1> SUFFICES ASSUME NEW q \in 1..Len(heap'), NEW k \in DOMAIN heap'[q].hist
             PROVE  Known(offered', heap'[q].name, heap'[q].hist[k])
  BY DEF RingsOffered, Ptr
<1>1. q \in Ptr /\ heap'[q].name = heap[q].name /\ heap'[q].hist = heap[q].hist
  BY DEF RingsKept
<1>2. \A l \in DOMAIN heap'[q].hist : Known(offered, heap[q].name, heap'[q].hist[l])
  BY <1>1 DEF Stepping, LifeInv, RingsOffered
<1> QED BY <1>1, <1>2, RingStays

\* Somebody pushed what was offered for the state's service.
LEMMA RingsOfferedPush ==
    ASSUME Stepping, NEW p, NEW d \in Image, PushesRing(p, d),
           p \in Ptr => Known(offered, heap[p].name, d)
    PROVE  RingsOffered'
<1> SUFFICES ASSUME NEW q \in 1..Len(heap'), NEW k \in DOMAIN heap'[q].hist
             PROVE  Known(offered', heap'[q].name, heap'[q].hist[k])
  BY DEF RingsOffered, Ptr
<1>1. q \in Ptr /\ heap'[q].name = heap[q].name
  BY DEF PushesRing, Ptr
<1>2. \A l \in DOMAIN heap[q].hist : Known(offered, heap[q].name, heap[q].hist[l])
  BY <1>1 DEF Stepping, LifeInv, RingsOffered
<1>3. heap[q].hist \in Seq(Image)
  <2>1. heap \in Seq(Entry)
    BY DEF Stepping, TypeInv, Typed, StoreTypeOK
  <2>2. heap[q] \in Entry
    BY <1>1, <2>1 DEF Ptr
  <2> QED BY <2>2 DEF Entry
<1>4. CASE q # p
  <2>1. heap'[q].hist = heap[q].hist
    BY <1>1, <1>4 DEF PushesRing
  <2> QED BY <1>1, <1>2, <2>1, RingStays
<1>5. CASE q = p
  <2>1. heap'[q].hist = Pushed(heap[q].hist, d)
    BY <1>1, <1>5 DEF PushesRing
  <2>2. \A l \in DOMAIN heap'[q].hist :
            heap'[q].hist[l] = d \/ \E m \in DOMAIN heap[q].hist :
                                        heap'[q].hist[l] = heap[q].hist[m]
    BY <1>3, <2>1, PushedFrom
  <2>3. \A l \in DOMAIN heap'[q].hist :
            Known(offered, heap[q].name, heap'[q].hist[l])
    BY <1>1, <1>2, <1>5, <2>2
  <2> QED BY <1>1, <2>3, RingStays
<1> QED BY <1>4, <1>5

LEMMA RingsOfferedKept == ASSUME Stepping PROVE RingsOffered'
<1>1. /\ TypeInv /\ StoreInv /\ [Next]_vars /\ ActorsOffered /\ ReqsOffered
      /\ ExecNamed /\ RbNamed
  BY DEF Stepping, LifeInv, RingInv, PushNamed
<1>2. CASE Panic \/ Crash
  <2>1. heap' = <<>>
    BY <1>2 DEF Panic, Crash, Down
  <2> QED BY <2>1 DEF RingsOffered, Ptr
<1>3. CASE Exec /\ ExecPublish /\ PushesRing(exec.cs, exec.p.new)
  <2>1. /\ Wants(ctr, offered, exec.p.id, exec.p.new) /\ exec.p \in ImageUpdated
        /\ heap[exec.cs].name = ctr[exec.p.id].name
    BY <1>1, <1>3 DEF ExecPublish, ActorsOffered, ExecNamed, TypeInv, ExecKnown
  <2> QED BY <1>3, <2>1, RingsOfferedPush DEF Wants, ImageUpdated
<1>4. CASE Rb /\ RbPublish /\ rb.cs # 0 /\ PushesRing(rb.cs, rb.p.prev)
  <2>1. /\ Wants(ctr, offered, rb.p.id, rb.p.prev) /\ rb.p \in Unhealthy
        /\ heap[rb.cs].name = ctr[rb.p.id].name
    BY <1>1, <1>4 DEF RbPublish, ActorsOffered, RbNamed, TypeInv, RbKnown
  <2> QED BY <1>4, <2>1, RingsOfferedPush DEF Wants, Unhealthy
<1>5. ASSUME NEW s \in Slot, CompareSeed(s), PushesRing(req[s].p, req[s].cur)
      PROVE  RingsOffered'
  <2>1. req[s].p # 0 /\ req[s].cur \in Image
    BY <1>1, <1>5 DEF CompareSeed, TypeInv, Typed, TriggersTypeOK, Request, ReqsKnown,
       ReqKnown
  <2>2. Offers(ctr, heap, offered, req[s].p, req[s].cur)
    BY <1>1, <2>1 DEF ReqsOffered, ReqOffered
  <2> QED BY <1>5, <2>1, <2>2, RingsOfferedPush DEF Offers
<1> QED BY <1>1, <1>2, <1>3, <1>4, <1>5, NextRings, RingsOfferedStay

-----------------------------------------------------------------------------
(* What the watcher has in hand.                                           *)

\* A state the watcher keeps, or has just found.
LEMMA WatKept == ASSUME Stepping, NamedKept PROVE WatOffered'
<1>1. /\ TypeInv /\ StoreInv /\ [Next]_vars /\ Onward /\ TracksOurs /\ StreamOurs
      /\ WatOffered /\ stream \in Seq(Event)
  BY DEF Stepping, RingInv, LifeInv, TypeInv, Typed, DockerTypeOK
<1>2. ASSUME wat'.pc = "upsert" => Ours(ctr, wat'.id),
             wat'.pc \in {"report", "pull"} => \A p \in wat'.todo : Named(ctr, heap, p),
             wat'.pc = "pull" =>
                 \A p \in wat'.todo : Offers(ctr, heap, offered, p, wat'.image)
      PROVE  WatOffered'
  BY <1>1, <1>2, OursStays, OffersStays DEF WatOffered, NamedKept
<1>3. CASE wat' = wat
  BY <1>1, <1>2, <1>3 DEF WatOffered
<1>4. CASE wat'.pc = "idle"
  BY <1>2, <1>4
<1>5. CASE Watch
  <2>1. CASE WatchStart /\ wat' # wat
    <3>1. PICK l \in DOMAIN stream : Head(stream) = stream[l]
      BY <1>1, <2>1, QueueLess DEF WatchStart, NextEvent
    <3>2. Ours(ctr, Head(stream).id)
      BY <1>1, <2>1, <3>1 DEF WatchStart, NextEvent, StreamOurs
    <3>3. wat'.pc = "upsert" /\ wat'.id = Head(stream).id
      BY <2>1 DEF WatchStart, WatIdle
    <3> QED BY <1>2, <3>2, <3>3
  <2>2. CASE WatchUnhealthy /\ wat' # wat
    <3>1. PICK cs : cs = keys[Head(stream).id]
      OBVIOUS
    <3>2. cs # 0 /\ wat'.pc = "report" /\ wat'.todo = {cs}
      BY <2>2, <3>1 DEF WatchUnhealthy, WatIdle
    <3>3. Head(stream).id \in Id
      BY <1>1, <2>2, EventTaken DEF WatchUnhealthy, NextEvent, TypeInv, Typed
    <3>4. Named(ctr, heap, cs)
      BY <1>1, <3>1, <3>2, <3>3, TrackedNamed
    <3> QED BY <1>2, <3>2, <3>4
  <2>3. CASE WatchPull
    <3>1. PICK l \in DOMAIN stream : Head(stream) = stream[l]
      BY <1>1, <2>3, QueueLess DEF WatchPull, NextEvent
    <3>2. /\ wat'.pc = "pull" /\ wat'.image = Head(stream).dig
          /\ wat'.todo = {p \in Tracked : heap[p].name = Head(stream).name}
      BY <2>3 DEF WatchPull, WatIdle
    <3>3. Known(offered, Head(stream).name, Head(stream).dig)
      BY <1>1, <2>3, <3>1 DEF WatchPull, NextEvent, StreamOurs
    <3>4. ASSUME NEW p \in wat'.todo PROVE Offers(ctr, heap, offered, p, wat'.image)
      BY <1>1, <3>2, <3>3, TrackedNamed DEF Offers
    <3> QED BY <1>2, <3>2, <3>4 DEF Offers
  <2>4. CASE WatchPullOne
    <3>1. wat.pc = "pull"
      BY <2>4 DEF WatchPullOne
    <3>2. wat'.pc = wat.pc /\ wat'.image = wat.image /\ wat'.todo \subseteq wat.todo
      BY <1>1, <2>4 DEF WatchPullOne, TypeInv, Typed, WatcherTypeOK
    <3> QED BY <1>1, <1>2, <3>1, <3>2 DEF WatOffered
  <2>5. CASE WatchUpsert \/ WatchReport \/ WatchPullDone
    BY <1>4, <2>5 DEF WatchUpsert, WatchReport, WatchPullDone, WatIdle
  <2> QED BY <1>3, <1>5, <2>1, <2>2, <2>3, <2>4, <2>5 DEF Watch, WatcherStep,
          WatchDestroy
<1>6. CASE Panic \/ Crash
  BY <1>4, <1>6 DEF Panic, Crash, Down, MemoryEmpty, WatIdle
<1>7. CASE Seed \/ Subscribe \/ Exec \/ Rb \/ Monitor \/ UNCHANGED vars
  BY <1>3, <1>7 DEF Seed, Subscribe, Exec, Rb, Monitor, vars
<1>8. CASE (\E a \in Actor : Calls(a)) \/ CallError
  BY <1>3, <1>8 DEF Calls, CallError
<1>9. CASE \E s \in Slot : Serve(s) \/ Ask(s)
  BY <1>3, <1>9 DEF Serve, Ask
<1>10. CASE Release \/ HostPull \/ Sicken \/ HandRemove \/ HandRestart \/ HandRun
  BY <1>3, <1>10 DEF Release, HostPull, Sicken, HandRemove, HandRestart, HandRun
<1> QED BY <1>1, <1>5, <1>6, <1>7, <1>8, <1>9, <1>10 DEF Next, Rest

-----------------------------------------------------------------------------
(* What the requests have in hand.                                         *)

\* What was offered to a request that does not move still is.
LEMMA ReqStaysOffered ==
    ASSUME Stepping, NamedKept, NEW r, ReqOffered(r),
           r.pc = "head" /\ r.kind = "service" => r.name \in Name
    PROVE  ReqOffered(r)'
<1>1. Onward
  BY DEF Stepping
<1>2. ASSUME r.p # 0
      PROVE  Offers(ctr', heap', offered', r.p, r.dig)
             /\ Offers(ctr', heap', offered', r.p, r.cur)
  BY <1>1, <1>2, OffersStays DEF ReqOffered
<1>3. ASSUME NEW p \in r.todo
      PROVE  /\ Named(ctr', heap', p)
             /\ r.pc = "send" => Offers(ctr', heap', offered', p, r.dig)
  BY <1>1, <1>3, OffersStays DEF ReqOffered, NamedKept
<1>4. ASSUME r.pc = "head", r.kind = "service" PROVE Known(offered', r.name, r.cur)
  BY <1>1, <1>4, KnownStays DEF ReqOffered
<1> QED BY <1>2, <1>3, <1>4 DEF ReqOffered

\* The requests when one of them moves.
LEMMA ReqsMove ==
    ASSUME Stepping, NamedKept, NEW s \in Slot, NEW r,
           req' = [req EXCEPT ![s] = r], ReqOffered(r)'
    PROVE  ReqsOffered'
<1>1. req \in [Slot -> Request] /\ ReqsKnown /\ ReqsOffered
  BY DEF Stepping, LifeInv, TypeInv, Typed, TriggersTypeOK
<1>2. req'[s] = r /\ \A t \in Slot : t # s => req'[t] = req[t]
  BY <1>1
<1>3. ReqOffered(req[s])'
  BY <1>2 DEF ReqOffered
<1>4. ASSUME NEW t \in Slot, t # s PROVE ReqOffered(req[t])'
  <2>1. PICK e : e = req[t] /\ req'[t] = e
    BY <1>2, <1>4
  <2>2. ReqOffered(e) /\ (e.pc = "head" /\ e.kind = "service" => e.name \in Name)
    BY <1>1, <2>1 DEF ReqsOffered, ReqsKnown, ReqKnown
  <2>3. ReqOffered(e)'
    BY <2>2, ReqStaysOffered
  <2> QED BY <2>1, <2>3 DEF ReqOffered
<1> QED BY <1>3, <1>4 DEF ReqsOffered

LEMMA ReqsStayOffered ==
    ASSUME Stepping, NamedKept, req' = req PROVE ReqsOffered'
<1>1. ReqsKnown /\ ReqsOffered
  BY DEF Stepping, LifeInv, TypeInv
<1>2. ASSUME NEW t \in Slot PROVE ReqOffered(req[t])'
  <2>1. PICK e : e = req[t] /\ req'[t] = e
    OBVIOUS
  <2>2. ReqOffered(e) /\ (e.pc = "head" /\ e.kind = "service" => e.name \in Name)
    BY <1>1, <2>1 DEF ReqsOffered, ReqsKnown, ReqKnown
  <2>3. ReqOffered(e)'
    BY <2>2, ReqStaysOffered
  <2> QED BY <2>1, <2>3 DEF ReqOffered
<1> QED BY <1>2 DEF ReqsOffered

\* A request that moves with nothing in hand but what it was offered.
LEMMA ReqsOwn ==
    ASSUME Stepping, NamedKept, NEW s \in Slot, NEW r,
           req' = [req EXCEPT ![s] = r], ReqOffered(r),
           r.pc = "head" /\ r.kind = "service" => r.name \in Name
    PROVE  ReqsOffered'
BY ReqStaysOffered, ReqsMove

LEMMA NoReqOffered == ReqOffered(NoReq)
BY DEF ReqOffered, NoReq

LEMMA ServeOffered ==
    ASSUME Stepping, NamedKept, NEW s \in Slot, RequestStep(s)
    PROVE  ReqsOffered'
<1>1. PICK r : r = req[s]
  OBVIOUS
<1>2. /\ TypeInv /\ StoreInv /\ RingsOffered /\ OfferKnown /\ TracksOurs
      /\ r \in Request /\ ReqOffered(r) /\ ReqKnown(r)
  BY <1>1 DEF Stepping, RingInv, LifeInv, ReqsOffered, TypeInv, Typed, TriggersTypeOK,
     ReqsKnown
<1>3. ASSUME NEW p, Named(ctr, heap, p)
      PROVE  Offers(ctr, heap, offered, p, reg[heap[p].name])
  <2>1. heap[p].name \in Name
    BY <1>3, OursNamed DEF Named
  <2> QED BY <1>2, <1>3, <2>1 DEF Offers, OfferKnown, Known
<1>4. CASE req' = [req EXCEPT ![s] = NoReq]
  <2>1. NoReq.pc = "idle"
    BY DEF NoReq
  <2> QED BY <1>4, <2>1, NoReqOffered, ReqsOwn
<1>5. CASE SendOne(s)
  <2>1. PICK p, e : /\ req' = [req EXCEPT ![s] = e]
                    /\ e = [r EXCEPT !.todo = r.todo \ {p}]
    BY <1>1, <1>5 DEF SendOne, Set
  <2>2. /\ e.pc = r.pc /\ e.kind = r.kind /\ e.name = r.name /\ e.p = r.p
        /\ e.cur = r.cur /\ e.dig = r.dig /\ e.todo \subseteq r.todo
    BY <1>2, <2>1 DEF Request
  <2>3. ReqOffered(e) /\ e.pc = "send"
    BY <1>1, <1>2, <1>5, <2>2 DEF ReqOffered, SendOne
  <2> QED BY <2>1, <2>3, ReqsOwn
<1>6. CASE SweepHead(s)
  <2>1. r.pc = "sweep" /\ r.cur = NoDigest
    BY <1>1, <1>2, <1>6 DEF SweepHead, ReqOffered
  <2>2. PICK p \in r.todo :
          \/ req' = [req EXCEPT ![s] =
                        [r EXCEPT !.pc = "read", !.p = p, !.todo = r.todo \ {p},
                                  !.dig = reg[heap[p].name]]]
          \/ req' = [req EXCEPT ![s] = [r EXCEPT !.todo = r.todo \ {p}]]
    BY <1>1, <1>6, Zenon DEF SweepHead, Set
  <2>3. CASE req' = [req EXCEPT ![s] =
                        [r EXCEPT !.pc = "read", !.p = p, !.todo = r.todo \ {p},
                                  !.dig = reg[heap[p].name]]]
    <3>1. PICK d, e : /\ req' = [req EXCEPT ![s] = e] /\ d = reg[heap[p].name]
                      /\ e = [r EXCEPT !.pc = "read", !.p = p,
                                       !.todo = r.todo \ {p}, !.dig = d]
      BY <2>3, Zenon
    <3>2. /\ e.pc = "read" /\ e.p = p /\ e.dig = d /\ e.cur = NoDigest
          /\ e.todo \subseteq r.todo
      BY <1>2, <2>1, <3>1 DEF Request
    <3>3. Named(ctr, heap, p) /\ \A q \in r.todo : Named(ctr, heap, q)
      BY <1>2, <2>2 DEF ReqOffered
    <3>4. Offers(ctr, heap, offered, p, d) /\ Offers(ctr, heap, offered, p, NoDigest)
      BY <1>3, <3>1, <3>3, OffersNone
    <3>5. ReqOffered(e)
      BY <3>2, <3>3, <3>4 DEF ReqOffered
    <3> QED BY <3>1, <3>2, <3>5, ReqsOwn
  <2>4. CASE req' = [req EXCEPT ![s] = [r EXCEPT !.todo = r.todo \ {p}]]
    <3>1. PICK e : req' = [req EXCEPT ![s] = e] /\ e = [r EXCEPT !.todo = r.todo \ {p}]
      BY <2>4
    <3>2. /\ e.pc = r.pc /\ e.kind = r.kind /\ e.name = r.name /\ e.p = r.p
          /\ e.cur = r.cur /\ e.dig = r.dig /\ e.todo \subseteq r.todo
      BY <1>2, <3>1 DEF Request
    <3>3. ReqOffered(e)
      BY <1>2, <3>2 DEF ReqOffered
    <3> QED BY <2>1, <3>1, <3>2, <3>3, ReqsOwn
  <2> QED BY <2>2, <2>3, <2>4
<1>7. CASE ServiceHead(s) /\ req' # [req EXCEPT ![s] = NoReq]
  <2>1. PICK n, p : /\ n = r.name /\ p \in Tracked /\ heap[p].name = n
                    /\ req' = [req EXCEPT ![s] = [r EXCEPT !.pc = "read", !.p = p,
                                                           !.dig = reg[n]]]
    BY <1>1, <1>7, Zenon DEF ServiceHead, Set
  <2>2. PICK d, e : /\ req' = [req EXCEPT ![s] = e] /\ d = reg[n]
                    /\ e = [r EXCEPT !.pc = "read", !.p = p, !.dig = d]
    BY <2>1, Zenon
  <2>3. e.pc = "read" /\ e.p = p /\ e.dig = d /\ e.cur = r.cur /\ e.todo = r.todo
    BY <1>2, <2>2 DEF Request
  <2>4. Named(ctr, heap, p)
    BY <1>2, <2>1, TrackedNamed
  <2>5. Offers(ctr, heap, offered, p, d)
    BY <1>3, <2>1, <2>2, <2>4
  <2>6. Offers(ctr, heap, offered, p, r.cur)
    BY <1>1, <1>2, <1>7, <2>1, <2>4 DEF ServiceHead, ReqOffered, Offers
  <2>7. ReqOffered(e)
    BY <1>2, <2>3, <2>5, <2>6 DEF ReqOffered
  <2> QED BY <2>2, <2>3, <2>7, ReqsOwn
<1>8. CASE CompareRead(s)
  <2>1. r.p # 0 /\ r.pc = "read"
    BY <1>1, <1>2, <1>8 DEF CompareRead, ReqKnown
  <2>2. PICK e : /\ req' = [req EXCEPT ![s] = e]
                 /\ \/ e = [r EXCEPT !.pc = "seed"]
                    \/ e = [r EXCEPT !.pc = "act", !.cur = CurrentDigest(r.p)]
    BY <1>1, <1>8 DEF CompareRead, Set
  <2>3. PICK c : c = CurrentDigest(r.p)
    OBVIOUS
  <2>4. Offers(ctr, heap, offered, r.p, c)
    <3>1. Named(ctr, heap, r.p)
      BY <1>2, <2>1 DEF ReqOffered, Offers
    <3>2. PICK p : p = r.p
      OBVIOUS
    <3> QED BY <1>2, <2>3, <3>1, <3>2, RingOffers
  <2>5. /\ e.pc \in {"seed", "act"} /\ e.p = r.p /\ e.dig = r.dig
        /\ e.todo = r.todo /\ e.cur \in {r.cur, c}
    BY <1>2, <2>2, <2>3 DEF Request
  <2>6. ReqOffered(e)
    BY <1>2, <2>1, <2>4, <2>5 DEF ReqOffered
  <2> QED BY <2>2, <2>5, <2>6, ReqsOwn
<1>9. CASE CompareSeed(s)
  <2>1. PICK e : req' = [req EXCEPT ![s] = e] /\ e = [r EXCEPT !.pc = "act"]
    BY <1>1, <1>9 DEF CompareSeed, Set
  <2>2. /\ e.pc = "act" /\ e.p = r.p /\ e.dig = r.dig /\ e.todo = r.todo
        /\ e.cur = r.cur
    BY <1>2, <2>1 DEF Request
  <2>3. ReqOffered(e)
    BY <1>1, <1>2, <1>9, <2>2 DEF ReqOffered, CompareSeed
  <2> QED BY <2>1, <2>2, <2>3, ReqsOwn
<1>10. CASE CompareAct(s) /\ r.kind = "sweep"
  <2>1. PICK e : /\ req' = [req EXCEPT ![s] = e]
                 /\ e = [r EXCEPT !.pc = "sweep", !.p = 0,
                                  !.cur = NoDigest, !.dig = NoDigest]
    BY <1>1, <1>10 DEF CompareAct, Set
  <2>2. e.pc = "sweep" /\ e.p = 0 /\ e.cur = NoDigest /\ e.todo = r.todo
    BY <1>2, <2>1 DEF Request
  <2>3. ReqOffered(e)
    BY <1>2, <2>2 DEF ReqOffered
  <2> QED BY <2>1, <2>2, <2>3, ReqsOwn
<1>11. CASE UpdateHead(s)
  <2>1. PICK d, e : /\ req' = [req EXCEPT ![s] = e] /\ d = reg[heap[r.p].name]
                    /\ e = [r EXCEPT !.pc = "act", !.dig = d]
    BY <1>1, <1>11, Zenon DEF UpdateHead, Set
  <2>2. e.pc = "act" /\ e.p = r.p /\ e.dig = d /\ e.cur = r.cur /\ e.todo = r.todo
    BY <1>2, <2>1 DEF Request
  <2>3. r.p # 0 => Offers(ctr, heap, offered, r.p, d)
    BY <1>2, <1>3, <2>1 DEF ReqOffered, Offers
  <2>4. ReqOffered(e)
    BY <1>1, <1>2, <1>11, <2>2, <2>3 DEF ReqOffered, UpdateHead
  <2> QED BY <2>1, <2>2, <2>4, ReqsOwn
<1>12. CASE SendDone(s) \/ SweepDone(s) \/ RollbackSend(s)
            \/ (CompareAct(s) /\ r.kind # "sweep")
  BY <1>1, <1>4, <1>12 DEF SendDone, SweepDone, RollbackSend, CompareAct, Set
<1> QED BY <1>4, <1>5, <1>6, <1>7, <1>8, <1>9, <1>10, <1>11, <1>12 DEF RequestStep

\* A request begins with states that are tracked and what they say, or with
\* the digest that its caller reports.
LEMMA AskOffered ==
    ASSUME Stepping, NamedKept, NEW s \in Slot, Ask(s)
    PROVE  ReqsOffered'
<1>1. /\ TypeInv /\ StoreInv /\ RingsOffered /\ OfferKnown /\ OfferKnown' /\ TracksOurs
      /\ Onward /\ req \in [Slot -> Request] /\ lastDigest \in [Name -> Image]
  BY DEF Stepping, RingInv, LifeInv, TypeInv, Typed, TriggersTypeOK
<1>2. \A p \in Tracked : Named(ctr, heap, p)
  BY <1>1, TrackedNamed
<1>3. \A n : Matching(n) \subseteq Tracked
  BY DEF Matching
<1>4. CASE \E n \in Name, d \in Digest : PushBegin(s, n, d) /\ req' # req
  <2>1. PICK n, d, e :
          /\ n \in Name /\ d \in Digest /\ req' = [req EXCEPT ![s] = e]
          /\ e = [NoReq EXCEPT !.pc = "send", !.kind = "push", !.name = n,
                               !.dig = d, !.todo = Matching(n)]
    BY <1>4 DEF PushBegin, Set
  <2>2. /\ e.pc = "send" /\ e.kind = "push" /\ e.name = n /\ e.dig = d
        /\ e.p = 0 /\ e.todo = Matching(n)
    BY <2>1 DEF NoReq
  <2>3. Known(offered', n, d)
    <3>1. req'[s].kind = "push" /\ req'[s].name = n /\ req'[s].dig = d
      BY <1>1, <2>1, <2>2
    <3>2. d \in Reported(n)'
      BY <3>1 DEF Reported
    <3> QED BY <1>1, <2>1, <3>2 DEF OfferKnown
  <2>4. ASSUME NEW p \in Matching(n) PROVE Offers(ctr', heap', offered', p, d)
    <3>1. Named(ctr, heap, p) /\ heap[p].name = n
      BY <1>2, <1>3, <2>4 DEF Matching
    <3>2. Named(ctr', heap', p) /\ heap'[p].name = n
      BY <3>1 DEF NamedKept
    <3> QED BY <2>3, <3>2 DEF Offers
  <2>5. ReqOffered(e)'
    BY <2>2, <2>4 DEF ReqOffered, Offers
  <2> QED BY <2>1, <2>5, ReqsMove
<1>5. CASE \E n \in Name : HubBegin(s, n)
  <2>0. PICK n \in Name : HubBegin(s, n)
    BY <1>5
  <2>1. PICK t, e :
          /\ req' = [req EXCEPT ![s] = e]
          /\ t = IF n \in PollMode THEN {} ELSE Matching(n)
          /\ e = [NoReq EXCEPT !.pc = "send", !.kind = "hub", !.name = n, !.todo = t]
    BY <2>0 DEF HubBegin, Set
  <2>2. e.pc = "send" /\ e.p = 0 /\ e.dig = NoDigest /\ e.todo \subseteq Tracked
    BY <1>3, <2>1 DEF NoReq
  <2>3. ReqOffered(e)
    BY <1>2, <2>2, OffersNone DEF ReqOffered
  <2> QED BY <2>1, <2>2, <2>3, ReqsOwn
<1>6. CASE SweepBegin(s)
  <2>1. PICK t, e : /\ req' = [req EXCEPT ![s] = e] /\ t \subseteq Tracked
                    /\ e = [NoReq EXCEPT !.pc = "sweep", !.kind = "sweep", !.todo = t]
    BY <1>6 DEF SweepBegin, Set
  <2>2. e.pc = "sweep" /\ e.p = 0 /\ e.cur = NoDigest /\ e.todo \subseteq Tracked
    BY <2>1 DEF NoReq
  <2>3. ReqOffered(e)
    BY <1>2, <2>2 DEF ReqOffered
  <2> QED BY <2>1, <2>2, <2>3, ReqsOwn
<1>7. CASE \E n \in Name : ServiceBegin(s, n)
  <2>1. PICK n, d, e :
          /\ n \in Name /\ req' = [req EXCEPT ![s] = e] /\ d = lastDigest[n]
          /\ e = [NoReq EXCEPT !.pc = "head", !.kind = "service", !.name = n,
                               !.cur = d]
    BY <1>7 DEF ServiceBegin, Set
  <2>2. e.pc = "head" /\ e.name = n /\ e.p = 0 /\ e.cur = d /\ e.todo = {}
    BY <2>1 DEF NoReq
  <2>3. Known(offered, n, d)
    BY <1>1, <2>1 DEF OfferKnown
  <2>4. ReqOffered(e)
    BY <2>2, <2>3 DEF ReqOffered
  <2> QED BY <2>1, <2>2, <2>4, ReqsOwn
<1>8. CASE \E i \in Id : UpdateBegin(s, i)
  <2>1. PICK i, p, d, e :
          /\ i \in Id /\ req' = [req EXCEPT ![s] = e] /\ keys[i] # 0
          /\ p = keys[i] /\ d = CurrentDigest(p)
          /\ e = [NoReq EXCEPT !.pc = "head", !.kind = "update", !.p = p, !.cur = d]
    BY <1>8 DEF UpdateBegin, Set
  <2>2. /\ e.pc = "head" /\ e.kind = "update" /\ e.p = p /\ e.cur = d
        /\ e.dig = NoDigest /\ e.todo = {}
    BY <2>1 DEF NoReq
  <2>3. Named(ctr, heap, p)
    BY <1>1, <2>1, TrackedNamed
  <2>4. Offers(ctr, heap, offered, p, d) /\ Offers(ctr, heap, offered, p, NoDigest)
    BY <1>1, <2>1, <2>3, RingOffers, OffersNone
  <2>5. ReqOffered(e)
    BY <2>2, <2>4 DEF ReqOffered
  <2> QED BY <2>1, <2>2, <2>5, ReqsOwn
<1>9. CASE \E i \in Id : RollbackBegin(s, i)
  <2>1. PICK i, p, d, e :
          /\ i \in Id /\ req' = [req EXCEPT ![s] = e] /\ keys[i] # 0
          /\ p = keys[i] /\ d = PreviousDigest(p)
          /\ e = [NoReq EXCEPT !.pc = "rollback", !.kind = "rollback", !.p = p,
                               !.cur = d]
    BY <1>9 DEF RollbackBegin, Set
  <2>2. e.pc = "rollback" /\ e.p = p /\ e.cur = d /\ e.dig = NoDigest /\ e.todo = {}
    BY <2>1 DEF NoReq
  <2>3. Named(ctr, heap, p)
    BY <1>1, <2>1, TrackedNamed
  <2>4. Offers(ctr, heap, offered, p, d) /\ Offers(ctr, heap, offered, p, NoDigest)
    BY <1>1, <2>1, <2>3, RingOffers, OffersNone
  <2>5. ReqOffered(e)
    BY <2>2, <2>4 DEF ReqOffered
  <2> QED BY <2>1, <2>2, <2>5, ReqsOwn
<1> QED BY <1>4, <1>5, <1>6, <1>7, <1>8, <1>9, ReqsStayOffered DEF Ask

LEMMA ReqsKept == ASSUME Stepping, NamedKept PROVE ReqsOffered'
<1>1. [Next]_vars
  BY DEF Stepping
<1>2. CASE \E s \in Slot : Serve(s) \/ Ask(s)
  BY <1>2, ServeOffered, AskOffered DEF Serve
<1>3. CASE req' = req
  BY <1>3, ReqsStayOffered
<1>4. CASE Panic \/ Crash
  <2>1. ASSUME NEW s \in Slot PROVE ReqOffered(req[s])'
    <3>1. req'[s] = NoReq
      BY <1>4 DEF Panic, Crash, Down, MemoryEmpty
    <3> QED BY <3>1 DEF ReqOffered, NoReq
  <2> QED BY <2>1 DEF ReqsOffered
<1>5. CASE Seed \/ Subscribe \/ Exec \/ Rb \/ Watch \/ Monitor \/ UNCHANGED vars
  BY <1>3, <1>5 DEF Seed, Subscribe, Exec, Rb, Watch, Monitor, vars
<1>6. CASE (\E a \in Actor : Calls(a)) \/ CallError
  BY <1>3, <1>6 DEF Calls, CallError
<1>7. CASE Release \/ HostPull \/ Sicken \/ HandRemove \/ HandRestart \/ HandRun
  BY <1>3, <1>7 DEF Release, HostPull, Sicken, HandRemove, HandRestart, HandRun
<1> QED BY <1>1, <1>2, <1>4, <1>5, <1>6, <1>7 DEF Next, Rest

\* The end of the process empties everybody's hands.
LEMMA EndedOffered ==
    ASSUME Panic \/ Crash PROVE WatOffered' /\ ReqsOffered'
<1>1. wat' = WatIdle /\ \A s \in Slot : req'[s] = NoReq
  BY DEF Panic, Crash, Down, MemoryEmpty
<1>2. WatOffered'
  BY <1>1 DEF WatOffered, WatIdle
<1>3. ASSUME NEW s \in Slot PROVE ReqOffered(req[s])'
  BY <1>1 DEF ReqOffered, NoReq
<1> QED BY <1>2, <1>3 DEF ReqsOffered

LEMMA HandsKept == ASSUME Stepping PROVE WatOffered' /\ ReqsOffered'
<1>1. TypeInv /\ StoreInv /\ [Next]_vars /\ TypeInv' /\ StoreInv' /\ Onward
  BY DEF Stepping, RingInv
<1>2. CASE HeapOnward
  <2>1. NamedKept
    BY <1>1, <1>2, NamedStays
  <2> QED BY <2>1, WatKept, ReqsKept
<1> QED BY <1>1, <1>2, NextHeap, EndedOffered

-----------------------------------------------------------------------------
(* What services serve.                                                    *)

\* Container i runs what it ran, if anything.
RunsOn(i) ==
    /\ ctr'[i].st = "running" <=> ctr[i].st = "running"
    /\ ctr[i].st = "running" =>
           ctr'[i].name = ctr[i].name /\ ctr'[i].runs = ctr[i].runs

RunOnBut(j) == \A i \in Id : i # j => RunsOn(i)

LEMMA ServingIs ==
    ASSUME OneEach, NEW i \in Id, ctr[i].st = "running"
    PROVE  Serving(ctr[i].name) = ctr[i].runs /\ Running(ctr[i].name)
<1> DEFINE n == ctr[i].name
           k == CHOOSE j \in Id : ctr[j].name = n /\ ctr[j].st = "running"
<1>1. k \in Id /\ ctr[k].name = n /\ ctr[k].st = "running"
  OBVIOUS
<1>2. k = i
  BY <1>1 DEF OneEach, Present
<1>3. Running(n)
  BY DEF Running
<1>4. Serving(n) = ctr[k].runs
  BY <1>3 DEF Serving
<1> QED BY <1>2, <1>3, <1>4

LEMMA ServingIsNext ==
    ASSUME OneEach', NEW i \in Id, ctr'[i].st = "running", NEW n, ctr'[i].name = n
    PROVE  Serving(n)' = ctr'[i].runs /\ Running(n)'
<1> DEFINE k == CHOOSE j \in Id : ctr'[j].name = n /\ ctr'[j].st = "running"
<1>1. k \in Id /\ ctr'[k].name = n /\ ctr'[k].st = "running"
  OBVIOUS
<1>2. k = i
  BY <1>1 DEF OneEach, Present
<1>3. Running(n)'
  BY DEF Running
<1>4. Serving(n)' = ctr'[k].runs
  BY <1>3 DEF Serving
<1> QED BY <1>2, <1>3, <1>4

\* A service of whose containers none began or ceased to run.
LEMMA ServesOn ==
    ASSUME OneEach, OneEach', NEW n,
           \A i \in Id : RunsOn(i)
                         \/ /\ ctr[i].name = n => ctr[i].st # "running"
                            /\ ctr'[i].name = n => ctr'[i].st # "running"
    PROVE  Serving(n)' = Serving(n) /\ (Running(n)' <=> Running(n))
<1>1. CASE Running(n)
  <2>1. PICK i \in Id : ctr[i].name = n /\ ctr[i].st = "running"
    BY <1>1 DEF Running
  <2>2. ctr'[i].name = n /\ ctr'[i].st = "running" /\ ctr'[i].runs = ctr[i].runs
    BY <2>1 DEF RunsOn
  <2> QED BY <2>1, <2>2, ServingIs, ServingIsNext
<1>2. CASE ~Running(n)
  <2>1. ~Running(n)'
    BY <1>2 DEF Running, RunsOn
  <2> QED BY <1>2, <2>1 DEF Serving
<1> QED BY <1>1, <1>2

\* Container j stops running, if it did.
LEMMA TakesDown ==
    ASSUME OneEach, OneEach', NEW j \in Id, Present(j), RunOnBut(j),
           ctr'[j].st # "running", NEW n, ctr[j].name = n
    PROVE  /\ \A m : m # n =>
                  Serving(m)' = Serving(m) /\ (Running(m)' <=> Running(m))
           /\ Serving(n)' = NoDigest /\ ~Running(n)'
<1>1. ASSUME NEW m, m # n
      PROVE  Serving(m)' = Serving(m) /\ (Running(m)' <=> Running(m))
  BY <1>1, ServesOn DEF RunOnBut
<1>2. ASSUME NEW i \in Id, ctr'[i].name = n, ctr'[i].st = "running" PROVE FALSE
  <2>1. i # j /\ ctr[i].name = n /\ ctr[i].st = "running"
    BY <1>2 DEF RunOnBut, RunsOn
  <2> QED BY <2>1 DEF OneEach, Present
<1>3. ~Running(n)'
  BY <1>2 DEF Running
<1>4. Serving(n)' = NoDigest
  BY <1>3 DEF Serving
<1> QED BY <1>1, <1>3, <1>4

\* Container j runs, which did not, nor any of its name.
LEMMA BringsUp ==
    ASSUME OneEach, OneEach', NEW j \in Id, RunOnBut(j), ctr[j].st # "running",
           ctr'[j].st = "running", NEW n, ctr'[j].name = n,
           NameFree(n) \/ (Present(j) /\ ctr[j].name = n)
    PROVE  /\ \A m : m # n =>
                  Serving(m)' = Serving(m) /\ (Running(m)' <=> Running(m))
           /\ Serving(n) = NoDigest /\ ~Running(n)
           /\ Serving(n)' = ctr'[j].runs /\ Running(n)'
<1>1. ASSUME NEW m, m # n
      PROVE  Serving(m)' = Serving(m) /\ (Running(m)' <=> Running(m))
  BY <1>1, ServesOn DEF RunOnBut
<1>2. ~Running(n)
  BY DEF Running, NameFree, Present, OneEach
<1>3. Serving(n) = NoDigest
  BY <1>2 DEF Serving
<1> QED BY <1>1, <1>2, <1>3, ServingIsNext

-----------------------------------------------------------------------------
(* What a step does to the services.                                       *)

\* A service stops running, and one comes to.
Stopped(n) ==
    /\ n \in Name /\ Running(n)
    /\ \A m \in Name : m # n =>
           Serving(m)' = Serving(m) /\ (Running(m)' <=> Running(m))
    /\ Serving(n)' = NoDigest /\ ~Running(n)'

Started(n) ==
    /\ n \in Name /\ ~Running(n) /\ Serving(n) = NoDigest
    /\ \A m \in Name : m # n =>
           Serving(m)' = Serving(m) /\ (Running(m)' <=> Running(m))
    /\ Running(n)' /\ Serving(n)' \in offered'[n]

LEMMA RecoverNone ==
    ASSUME Recover, LostDown, lost \subseteq Name,
           \A n \in Name : Running(n)' => Running(n)
    PROVE  lost' = lost
BY DEF Recover, LostDown

\* A daemon's stop or removal of a container that is there.
LEMMA TakenDown ==
    ASSUME TypeInv, OneEach, OneEach', NEW j \in Id, Present(j), RunOnBut(j),
           ctr'[j].st # "running", NEW n, n = ctr[j].name
    PROVE  \/ ctr[j].st = "running" /\ Stopped(n)
           \/ \A m \in Name : Serving(m)' = Serving(m) /\ (Running(m)' <=> Running(m))
<1>1. n \in Name
  BY DEF TypeInv, Typed, DockerTypeOK, Present
<1>2. CASE ctr[j].st = "running"
  <2>1. Running(n)
    BY <1>2 DEF Running
  <2> QED BY <1>1, <1>2, <2>1, TakesDown DEF Stopped
<1>3. CASE ctr[j].st # "running"
  BY <1>3, ServesOn DEF RunOnBut
<1> QED BY <1>2, <1>3

\* A daemon's start of a container that is there, or a run of a new one.
LEMMA BroughtUp ==
    ASSUME TypeInv', RunsOffered', OneEach, OneEach', NEW j \in Id, RunOnBut(j),
           ctr'[j].st = "running", ctr[j].st = "running" => RunsOn(j),
           NEW n, ctr'[j].name = n, NameFree(n) \/ (Present(j) /\ ctr[j].name = n)
    PROVE  \/ Started(n)
           \/ \A m \in Name : Serving(m)' = Serving(m) /\ (Running(m)' <=> Running(m))
<1>1. n \in Name /\ ctr'[j].runs \in offered'[n]
  BY DEF TypeInv, Typed, DockerTypeOK, RunsOffered
<1>2. CASE ctr[j].st # "running"
  BY <1>1, <1>2, BringsUp DEF Started
<1>3. CASE ctr[j].st = "running"
  BY <1>3, ServesOn DEF RunOnBut
<1> QED BY <1>2, <1>3

\* The steps of Lifecycle, in the pipeline's terms.
SameServing ==
    \A n \in Name : Serving(n)' = Serving(n) /\ (Running(n)' <=> Running(n))

Losing(N) ==
    /\ N \subseteq Name /\ \A n \in N : ~Running(n)
    /\ SameServing /\ lost' = lost \cup N

Taking(n) ==
    /\ n \in Name
    /\ \A m \in Name : m # n =>
           Serving(m)' = Serving(m) /\ (Running(m)' <=> Running(m))
    /\ Serving(n)' = NoDigest /\ ~Running(n)'
    /\ lost' = lost \cup {n}

LifeMove ==
    \/ \E n \in Labelled : Stopped(n) /\ lost' = lost
    \/ \E n \in Name : Started(n) /\ lost' = lost \ {n}
    \/ \E N : Losing(N)
    \/ \E n \in Name : Taking(n)

LEMMA AllRunOn ==
    ASSUME OneEach, OneEach', \A i \in Id : RunsOn(i) PROVE SameServing
BY ServesOn DEF SameServing

\* The registry and the requests are as before, or there are none of these.
NoNews ==
    /\ reg' = reg
    /\ req' = req \/ \A s \in Slot : req'[s] = NoReq

LEMMA CallServes ==
    ASSUME Stepping, UpInv, UpInv', RunsOffered', NEW a \in Actor, Calls(a)
    PROVE  (SameServing /\ lost' = lost) \/ LifeMove
<1>1. /\ TypeInv /\ TypeInv' /\ RunInv /\ ActorsOffered /\ LostDown /\ lost \subseteq Name
      /\ OneEach /\ OneEach' /\ RecreateStep(a) /\ Recover
      /\ ctr \in [Id -> Container] /\ TaskKnown(task[a])
  BY DEF Stepping, LifeInv, RingInv, TypeInv, Typed, DockerTypeOK, UpInv, Calls,
     TasksKnown
<1>2. CASE SameServing
  BY <1>1, <1>2, RecoverNone DEF SameServing
<1>3. CASE ctr' = ctr
  BY <1>1, <1>2, <1>3, AllRunOn DEF RunsOn
<1>4. ASSUME NEW j \in Id, j = task[a].id, task[a].pc # "idle", Present(j),
             DockerStop(j) \/ DockerRemove(j)
      PROVE  (SameServing /\ lost' = lost) \/ LifeMove
  <2>1. /\ RunOnBut(j) /\ ctr'[j].st # "running"
    BY <1>1, <1>4 DEF DockerStop, DockerRemove, RunOnBut, RunsOn, Present, Container
  <2>2. PICK n : n = ctr[j].name
    OBVIOUS
  <2>3. n \in Labelled
    BY <1>1, <1>4, <2>2, ActorWants DEF Ours
  <2>4. CASE Stopped(n)
    <3>1. lost' = lost
      BY <1>1, <2>4, RecoverNone DEF Stopped
    <3> QED BY <2>3, <2>4, <3>1 DEF LifeMove
  <2> QED BY <1>1, <1>2, <1>4, <2>1, <2>2, <2>4, TakenDown DEF SameServing
<1>5. CASE StopCall(a) \/ RemoveCall(a)
  <2>1. task[a].id \in Id /\ task[a].pc # "idle"
    BY <1>1, <1>5 DEF StopCall, RemoveCall, TaskKnown
  <2> QED BY <1>3, <1>4, <1>5, <2>1 DEF StopCall, RemoveCall, Abandon
<1>6. CASE StartCall(a) /\ ctr' # ctr
  <2>1. PICK j \in Id : j = task[a].new /\ Present(j) /\ DockerStart(j)
    BY <1>1, <1>6 DEF StartCall, Abandon, TaskKnown
  <2>2. PICK n : n = ctr[j].name
    OBVIOUS
  <2>3. /\ RunOnBut(j) /\ ctr'[j].st = "running" /\ ctr'[j].name = n
        /\ ctr[j].st = "running" => RunsOn(j)
    BY <1>1, <2>1, <2>2 DEF DockerStart, RunOnBut, RunsOn, Container
  <2>4. Started(n) \/ SameServing
    BY <1>1, <2>1, <2>2, <2>3, BroughtUp DEF SameServing
  <2>5. CASE Started(n)
    <3>1. lost' = lost \ {n}
      BY <1>1, <2>5 DEF Started, Recover, LostDown
    <3> QED BY <2>5, <3>1 DEF LifeMove, Started
  <2> QED BY <1>2, <2>4, <2>5
<1>7. CASE CreateCall(a) /\ ctr' # ctr
  <2>1. PICK j \in Id : Unused(j)
              /\ DockerCreate(j, task[a].name, task[a].ref, task[a].runs)
    BY <1>7 DEF CreateCall, Abandon
  <2>2. \A i \in Id : RunsOn(i)
    BY <1>1, <2>1 DEF Unused, DockerCreate, RunsOn
  <2> QED BY <1>1, <1>2, <2>2, AllRunOn
<1> QED BY <1>1, <1>3, <1>5, <1>6, <1>7 DEF RecreateStep, InspectCall, PullCall, Abandon

LEMMA HandServes ==
    ASSUME Stepping, UpInv, UpInv', RunsOffered',
           HandRemove \/ HandRestart \/ HandRun
    PROVE  (SameServing /\ lost' = lost) \/ LifeMove
<1>1. /\ TypeInv /\ TypeInv' /\ LostDown /\ lost \subseteq Name
      /\ OneEach /\ OneEach' /\ ctr \in [Id -> Container]
  BY DEF Stepping, LifeInv, TypeInv, Typed, DockerTypeOK, UpInv
<1>2. CASE HandRemove
  <2>1. PICK j \in Id : /\ Present(j) /\ DockerRemove(j)
                        /\ lost' = lost \cup {ctr[j].name}
    BY <1>2 DEF HandRemove
  <2>2. PICK n : n = ctr[j].name
    OBVIOUS
  <2>3. RunOnBut(j) /\ ctr'[j].st # "running" /\ n \in Name
    BY <1>1, <2>1, <2>2 DEF DockerRemove, RunOnBut, RunsOn, Present, TypeInv, Typed,
       DockerTypeOK
  <2>4. Taking(n)
    BY <1>1, <2>1, <2>2, <2>3, TakesDown DEF Taking
  <2> QED BY <2>3, <2>4 DEF LifeMove
<1>3. ASSUME Recover, NEW n, Started(n) \/ SameServing
      PROVE  (SameServing /\ lost' = lost) \/ LifeMove
  <2>1. CASE SameServing
    BY <1>1, <1>3, <2>1, RecoverNone DEF SameServing
  <2>2. CASE Started(n)
    <3>1. lost' = lost \ {n}
      BY <1>1, <1>3, <2>2 DEF Started, Recover, LostDown
    <3> QED BY <2>2, <3>1 DEF LifeMove, Started
  <2> QED BY <1>3, <2>1, <2>2
<1>4. CASE HandRestart
  <2>1. PICK j \in Id : Present(j) /\ DockerStart(j)
    BY <1>4 DEF HandRestart
  <2>2. PICK n : n = ctr[j].name
    OBVIOUS
  <2>3. /\ RunOnBut(j) /\ ctr'[j].st = "running" /\ ctr'[j].name = n
        /\ ctr[j].st = "running" => RunsOn(j)
    BY <1>1, <2>1, <2>2 DEF DockerStart, RunOnBut, RunsOn, Container
  <2> QED BY <1>1, <1>3, <1>4, <2>1, <2>2, <2>3, BroughtUp DEF HandRestart, SameServing
<1>5. CASE HandRun
  <2>1. PICK n \in Name, j \in Id :
          /\ NameFree(n) /\ Unused(j) /\ ctr' = [ctr EXCEPT ![j] = RunBare(n)]
    BY <1>5 DEF HandRun
  <2>2. RunBare(n).st = "running" /\ RunBare(n).name = n
    BY DEF RunBare
  <2>3. /\ RunOnBut(j) /\ ctr'[j].st = "running" /\ ctr'[j].name = n
        /\ ctr[j].st # "running"
    BY <1>1, <2>1, <2>2 DEF RunOnBut, RunsOn, Unused
  <2> QED BY <1>1, <1>3, <1>5, <2>1, <2>3, BroughtUp DEF HandRun, SameServing
<1> QED BY <1>2, <1>4, <1>5

LEMMA NextServes ==
    ASSUME Stepping, UpInv, UpInv', RunsOffered'
    PROVE  (SameServing /\ lost' = lost) \/ (LifeMove /\ NoNews)
<1>1. [Next]_vars /\ OneEach /\ OneEach' /\ ctr \in [Id -> Container]
      /\ lost \subseteq Name
  BY DEF Stepping, TypeInv, Typed, DockerTypeOK, UpInv
<1>2. ctr' = ctr => SameServing
  BY <1>1, AllRunOn DEF RunsOn
<1>3. CASE \E a \in Actor : Calls(a)
  BY <1>3, CallServes DEF Calls, RecreateStep, NoNews
<1>4. CASE HandRemove \/ HandRestart \/ HandRun
  BY <1>4, HandServes DEF HandRemove, HandRestart, HandRun, NoNews
<1>5. CASE CallError
  <2>1. PICK a \in Actor : /\ CallFails(a)
                           /\ lost' = lost \cup {n \in Name : Holds(a, n) /\ ~Running(n)}
    BY <1>5 DEF CallError
  <2>2. ctr' = ctr
    BY <2>1 DEF CallFails, Abandon
  <2>3. PICK N : N = {n \in Name : Holds(a, n) /\ ~Running(n)}
    OBVIOUS
  <2>4. Losing(N)
    BY <1>2, <2>1, <2>2, <2>3 DEF Losing
  <2> QED BY <1>5, <2>1, <2>4 DEF LifeMove, NoNews, CallError, CallFails
<1>6. CASE Panic \/ Crash
  <2>1. Down
    BY <1>6 DEF Panic, Crash
  <2>2. PICK N : N = {n \in Name : ~Running(n)}
    OBVIOUS
  <2>3. Losing(N)
    BY <1>2, <2>1, <2>2 DEF Losing, Down
  <2> QED BY <2>1, <2>3 DEF LifeMove, NoNews, Down, MemoryEmpty
<1>7. CASE Sicken
  <2>1. \A i \in Id : RunsOn(i)
    BY <1>1, <1>7 DEF Sicken, RunsOn, Container
  <2> QED BY <1>1, <1>7, <2>1, AllRunOn DEF Sicken
<1>8. CASE Seed \/ Subscribe \/ Monitor \/ Release \/ HostPull \/ UNCHANGED vars
  BY <1>2, <1>8 DEF Seed, Subscribe, Monitor, HealthMonStep, Release, HostPull, vars,
     dockerVars
<1>9. CASE Exec
  BY <1>2, <1>9 DEF Exec, ExecutorStep, ExecIgnore, ExecApply, ExecFail, ExecSucceed,
     ExecRekey, ExecPublish
<1>10. CASE Rb
  BY <1>2, <1>10 DEF Rb, RollbackStep, RbAbort, RbRestore, RbFail, RbRekey, RbPublish
<1>11. CASE Watch
  BY <1>2, <1>11 DEF Watch, WatcherStep
<1>12. CASE \E s \in Slot : Serve(s) \/ Ask(s)
  BY <1>2, <1>12 DEF Serve, RequestStep, Ask, dockerVars
<1> QED BY <1>1, <1>3, <1>4, <1>5, <1>6, <1>7, <1>8, <1>9, <1>10, <1>11, <1>12
        DEF Next, Rest

\* A lost service is down, after the step too.
LEMMA LostKept ==
    ASSUME Stepping, UpInv, UpInv', RunsOffered' PROVE LostDown'
<1>1. LostDown /\ lost \subseteq Name
  BY DEF Stepping, LifeInv, TypeInv, Typed
<1>2. CASE SameServing /\ lost' = lost
  BY <1>1, <1>2 DEF SameServing, LostDown
<1>3. CASE LifeMove
  <2>1. ASSUME NEW n, n \in Labelled, Stopped(n), lost' = lost PROVE LostDown'
    BY <1>1, <2>1 DEF Stopped, LostDown
  <2>2. ASSUME NEW n, Started(n), lost' = lost \ {n} PROVE LostDown'
    BY <1>1, <2>2 DEF Started, LostDown
  <2>3. ASSUME NEW N, Losing(N) PROVE LostDown'
    BY <1>1, <2>3 DEF Losing, SameServing, LostDown
  <2>4. ASSUME NEW n, Taking(n) PROVE LostDown'
    BY <1>1, <2>4 DEF Taking, LostDown
  <2> QED BY <1>3, <2>1, <2>2, <2>3, <2>4 DEF LifeMove
<1> QED BY <1>2, <1>3, NextServes

-----------------------------------------------------------------------------
(* The theorems.                                                           *)

LifeBase == TypeInv /\ RingInv /\ UpInv /\ LifeInv

LEMMA StepKnown ==
    ASSUME LifeBase, [LifeNext]_<<vars, offered>>
    PROVE  Stepping /\ UpInv /\ UpInv' /\ RunsOffered'
<1>1. TypeInv /\ RingInv /\ UpInv /\ LifeInv /\ RunInv /\ OfferKnown
  BY DEF LifeBase, RingInv, LifeInv
<1>2. [Next]_vars /\ Onward /\ TypeInv' /\ OfferKnown'
  BY <1>1, Stepped
<1>3. StoreInv' /\ UpInv' /\ KeepsRuns
  BY <1>1, <1>2, RingKept, UpKept, NextRuns DEF RingInv
<1>4. Stepping
  BY <1>1, <1>2, <1>3 DEF Stepping
<1> QED BY <1>1, <1>3, <1>4, RunsOfferedKept

LEMMA LifeKept ==
    ASSUME LifeBase, [LifeNext]_<<vars, offered>> PROVE LifeInv'
<1>1. Stepping /\ UpInv /\ UpInv' /\ RunsOffered' /\ OfferKnown'
  BY StepKnown DEF Stepping
<1> QED BY <1>1, RingsOfferedKept, TracksKept, StreamKept, QueuesKept, ActorsKept,
           HandsKept, MonKept, LostKept DEF LifeInv

\* Every service runs what its tag resolves to, and nothing else is known.
LEMMA LifeStart == LifeInit => LifeInv /\ UpInv
<1> SUFFICES ASSUME LifeInit PROVE LifeInv /\ UpInv
  OBVIOUS
<1>1. /\ Init /\ TypeInv /\ UpInv /\ offered = [n \in Name |-> {reg[n]}]
      /\ reg \in [Name -> Digest] /\ heap = <<>> /\ stream = <<>> /\ qImage = <<>>
      /\ qApplied = <<>> /\ qUnhealthy = <<>> /\ exec = ExecIdle /\ rb = RbIdle
      /\ wat = WatIdle /\ lost = {}
  BY InitTyped, UpInit DEF LifeInit, Init
<1>2. /\ \A i \in Id : keys[i] = 0 /\ mon[i] = MonOff
      /\ \A s \in Slot : req[s] = NoReq
      /\ \A a \in Actor : task[a] = NoTask
      /\ \A n \in Name : lastDigest[n] = NoDigest
  BY DEF LifeInit, Init
<1>3. OfferKnown
  <2>1. \A s \in Slot : req[s].kind # "push"
    BY <1>2 DEF NoReq
  <2>2. \A n \in Name : Reported(n) = {}
    BY <2>1 DEF Reported
  <2> QED BY <1>1, <1>2, <2>2 DEF OfferKnown, Known
<1>4. RunsOffered
  <2>1. PICK idOf \in [Name -> Id] :
          ctr = [i \in Id |-> IF \E n \in Name : idOf[n] = i
                              THEN RunBare(CHOOSE n \in Name : idOf[n] = i)
                              ELSE Unborn]
    BY <1>1 DEF Init
  <2>2. ASSUME NEW i \in Id, ctr[i].st # "none"
        PROVE  ctr[i].runs \in offered[ctr[i].name]
    <3>1. PICK n \in Name : ctr[i] = RunBare(n)
      BY <2>1, <2>2 DEF Unborn
    <3> QED BY <1>1, <3>1 DEF RunBare
  <2> QED BY <2>2 DEF RunsOffered
<1>5. RingsOffered /\ TracksOurs /\ StreamOurs /\ LostDown
  BY <1>1, <1>2 DEF RingsOffered, Ptr, TracksOurs, StreamOurs, LostDown
<1>6. QueuesOffered /\ ActorsOffered /\ WatOffered
  <2>1. exec.pc = "idle" /\ rb.pc = "idle" /\ wat.pc = "idle"
        /\ \A a \in Actor : task[a].pc = "idle"
    BY <1>1, <1>2 DEF ExecIdle, RbIdle, WatIdle, NoTask
  <2>2. qImage = <<>> /\ qApplied = <<>> /\ qUnhealthy = <<>>
    BY <1>1
  <2>3. QueuesOffered
    BY <2>2 DEF QueuesOffered
  <2> QED BY <2>1, <2>3 DEF ActorsOffered, WatOffered
<1>7. MonOurs /\ ReqsOffered
  <2>1. ReqOffered(NoReq)
    BY NoReqOffered
  <2>2. ReqsOffered
    BY <1>2, <2>1 DEF ReqsOffered
  <2>3. MonOurs
    BY <1>2 DEF MonOurs, MonOff
  <2> QED BY <2>2, <2>3
<1> QED BY <1>1, <1>3, <1>4, <1>5, <1>6, <1>7 DEF LifeInv

\* Whoever has a digest in hand, an event, a ring, a row, a request or a
\* Recreate under way, has it for a service that it was offered for, and
\* holds containers of watched services only.
THEOREM LifeInvHolds == LifeSpec => []LifeInv
<1>1. LifeSpec => Init /\ [][Next]_vars
  <2>1. LifeInit => Init
    BY DEF LifeInit
  <2>2. [LifeNext]_<<vars, offered>> => [Next]_vars
    BY DEF LifeNext
  <2> QED BY <2>1, <2>2, PTL DEF LifeSpec
<1>2. LifeInit => TypeInv /\ RingInv /\ UpInv /\ LifeInv
  BY InitTyped, RingInit, LifeStart DEF LifeInit
<1>3. LifeBase /\ [LifeNext]_<<vars, offered>> => LifeBase'
  BY Stepped, RingKept, UpKept, LifeKept DEF LifeBase, LifeInv
<1>4. LifeInit => LifeBase
  BY <1>2 DEF LifeBase
<1>5. LifeBase => LifeInv
  BY DEF LifeBase
<1> QED BY <1>3, <1>4, <1>5, PTL DEF LifeSpec

-----------------------------------------------------------------------------
(* The simulation.                                                         *)

\* What is served is a digest, unless the service is down.
LEMMA ServingUp ==
    ASSUME LifeBase, NEW n \in Name
    PROVE  IF Running(n) THEN Serving(n) \in Digest /\ Serving(n) \in offered[n]
                         ELSE Serving(n) = NoDigest
<1>1. OneEach /\ RunsOffered /\ offered \in [Name -> SUBSET Digest]
  BY DEF LifeBase, UpInv, LifeInv, OfferKnown
<1>2. CASE Running(n)
  <2>1. PICK i \in Id : ctr[i].name = n /\ ctr[i].st = "running"
    BY <1>2 DEF Running
  <2> QED BY <1>1, <1>2, <2>1, ServingIs DEF RunsOffered
<1>3. CASE ~Running(n)
  BY <1>3 DEF Serving
<1> QED BY <1>2, <1>3

\* With no news the digests offered are those there were.
LEMMA NoMoreOffered ==
    ASSUME LifeBase, LifeNext, NoNews PROVE offered' = offered
<1>1. OfferKnown
  BY DEF LifeBase, LifeInv
<1>2. ASSUME NEW n \in Name PROVE Reported(n)' \subseteq Reported(n) \cup {NoDigest}
  BY DEF NoNews, Reported, NoReq
<1>3. ASSUME NEW n \in Name PROVE offered'[n] = offered[n]
  <2>1. offered'[n] = offered[n] \cup {reg'[n]} \cup (Reported(n)' \ {NoDigest})
    BY DEF LifeNext, Remember
  <2> QED BY <1>1, <1>2, <2>1 DEF NoNews, OfferKnown, Known
<1>4. offered' = [n \in Name |-> offered'[n]]
  BY Zenon DEF LifeNext, Remember
<1>5. offered = [n \in Name |-> offered[n]]
  BY <1>1 DEF OfferKnown
<1> QED BY <1>3, <1>4, <1>5, Zenon

\* What the abstract steps speak of.
LEMMA ServedKeeps ==
    ASSUME NEW n \in Name,
           \A m \in Name : m # n => Serving(m)' = Serving(m)
    PROVE  [m \in Name |-> Serving(m)]'
               = [[m \in Name |-> Serving(m)] EXCEPT ![n] = Serving(n)']
OBVIOUS

LEMMA LifeSimulates ==
    ASSUME LifeBase, [LifeNext]_<<vars, offered>> PROVE [L!Next]_L!lifeVars
<1>1. /\ Stepping /\ UpInv /\ UpInv' /\ RunsOffered' /\ OfferKnown' /\ OfferKnown
      /\ Onward /\ Labelled \subseteq Name
  BY StepKnown, DockerAssumption DEF Stepping, LifeInv, DockerAssumption
<1>2. CASE SameServing /\ lost' = lost
  <2>1. /\ offered' \in [Name -> SUBSET Digest]
        /\ \A n \in Name : offered[n] \subseteq offered'[n]
    BY <1>1 DEF OfferKnown, Onward
  <2>2. [n \in Name |-> Serving(n)]' = [n \in Name |-> Serving(n)]
    BY <1>2 DEF SameServing
  <2>3. L!Offer
    BY <1>2, <2>1, <2>2 DEF L!Offer
  <2> QED BY <2>3 DEF L!Next
<1>3. CASE LifeMove /\ NoNews /\ LifeNext
  <2>1. offered' = offered
    BY <1>3, NoMoreOffered
  <2>2. ASSUME NEW n \in Labelled, Stopped(n), lost' = lost PROVE L!Next
    <3>1. n \in Name /\ Serving(n) # NoDigest
      BY <1>1, <2>2, ServingUp, DockerAssumption DEF Stopped, DockerAssumption
    <3>2. [m \in Name |-> Serving(m)]'
              = [[m \in Name |-> Serving(m)] EXCEPT ![n] = NoDigest]
      BY <2>2, <3>1, ServedKeeps DEF Stopped
    <3>3. L!Stop(n)
      BY <2>1, <2>2, <3>1, <3>2 DEF L!Stop
    <3> QED BY <3>1, <3>3 DEF L!Next
  <2>3. ASSUME NEW n \in Name, Started(n), lost' = lost \ {n} PROVE L!Next
    <3>1. PICK d : d = Serving(n)'
      OBVIOUS
    <3>2. d \in offered[n] /\ d \in Digest
      BY <1>1, <2>1, <2>3, <3>1 DEF Started, OfferKnown
    <3>3. [m \in Name |-> Serving(m)]'
              = [[m \in Name |-> Serving(m)] EXCEPT ![n] = d]
      BY <2>3, <3>1, ServedKeeps DEF Started
    <3>4. L!Up(n, d)
      BY <2>1, <2>3, <3>2, <3>3 DEF L!Up, Started
    <3> QED BY <3>2, <3>4 DEF L!Next
  <2>4. ASSUME NEW N, Losing(N) PROVE L!Next
    <3>1. [n \in Name |-> Serving(n)]' = [n \in Name |-> Serving(n)]
      BY <2>4 DEF Losing, SameServing
    <3>2. \A n \in N : n \in Name /\ Serving(n) = NoDigest
      BY <2>4, ServingUp DEF Losing
    <3>3. L!Lose(N)
      BY <2>1, <2>4, <3>1, <3>2 DEF L!Lose, Losing
    <3> QED BY <2>4, <3>3 DEF L!Next, Losing
  <2>5. ASSUME NEW n \in Name, Taking(n) PROVE L!Next
    <3>1. [m \in Name |-> Serving(m)]'
              = [[m \in Name |-> Serving(m)] EXCEPT ![n] = NoDigest]
      BY <2>5, ServedKeeps DEF Taking
    <3>2. L!Take(n)
      BY <2>1, <2>5, <3>1 DEF L!Take, Taking
    <3> QED BY <3>2 DEF L!Next
  <2> QED BY <1>3, <2>2, <2>3, <2>4, <2>5 DEF LifeMove
<1>4. CASE UNCHANGED <<vars, offered>>
  <2>1. ctr' = ctr /\ lost' = lost
    BY <1>4 DEF vars, dockerVars
  <2>2. SameServing
    BY <1>1, <2>1, AllRunOn DEF RunsOn, UpInv
  <2> QED BY <1>2, <2>1, <2>2
<1> QED BY <1>1, <1>2, <1>3, <1>4, NextServes

LEMMA LifeBegins == LifeInit => L!Init
<1> SUFFICES ASSUME LifeInit PROVE L!Init
  OBVIOUS
<1>1. LifeBase /\ lost = {}
  BY InitTyped, RingInit, LifeStart DEF LifeInit, LifeBase, Init
<1>2. ASSUME NEW n \in Name PROVE Running(n)
  <2>1. PICK idOf \in [Name -> Id] :
          /\ \A l, m \in Name : l # m => idOf[l] # idOf[m]
          /\ ctr = [i \in Id |-> IF \E m \in Name : idOf[m] = i
                                 THEN RunBare(CHOOSE m \in Name : idOf[m] = i)
                                 ELSE Unborn]
    BY DEF LifeInit, Init
  <2>2. PICK i \in Id : i = idOf[n]
    BY <2>1
  <2>3. (CHOOSE m \in Name : idOf[m] = i) = n
    BY <2>1, <2>2
  <2>4. ctr[i] = RunBare(n)
    BY <2>1, <2>2, <2>3
  <2> QED BY <2>4 DEF RunBare, Running
<1>3. offered \in [Name -> SUBSET Digest]
  BY <1>1 DEF LifeBase, LifeInv, OfferKnown
<1>4. \A n \in Name : Serving(n) \in Digest /\ Serving(n) \in offered[n]
  BY <1>1, <1>2, ServingUp
<1>5. [n \in Name |-> Serving(n)] \in [Name -> Digest]
  BY <1>4
<1> QED BY <1>1, <1>3, <1>4, <1>5 DEF L!Init

\* Whatever the executor, the rollback engine and people do to containers, in
\* whatever order, and whichever calls fail: a service without the label is
\* never stopped, what comes up was offered for that service and finds it
\* down, and what is down is known to be lost or will be brought up.
THEOREM LivesSafelyHolds == LifeSpec => LivesSafely
<1>1. LifeInit => LifeBase
  BY InitTyped, RingInit, LifeStart DEF LifeInit, LifeBase
<1>2. LifeBase /\ [LifeNext]_<<vars, offered>> => LifeBase'
  BY Stepped, RingKept, UpKept, LifeKept DEF LifeBase, LifeInv
<1>3. LifeBase /\ [LifeNext]_<<vars, offered>> => [L!Next]_L!lifeVars
  BY LifeSimulates
<1> QED BY <1>1, <1>2, <1>3, LifeBegins, PTL DEF LifeSpec, LivesSafely
=============================================================================
