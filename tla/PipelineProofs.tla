--------------------------- MODULE PipelineProofs ---------------------------
(***************************************************************************)
(* Theorems about Pipeline, for every value of its constants.              *)
(***************************************************************************)
EXTENDS PipelineInv, SequenceTheorems, TLAPS

-----------------------------------------------------------------------------
(* What the operators return.                                              *)

\* Setting one place of a sequence keeps its length and its type, also when
\* there is no such place (a nil pointer is never followed).
LEMMA SetOne ==
    ASSUME NEW S, NEW s \in Seq(S), NEW p \in Nat, NEW e,
           p \in 1..Len(s) => e \in S
    PROVE  /\ [s EXCEPT ![p] = e] \in Seq(S)
           /\ Len([s EXCEPT ![p] = e]) = Len(s)
<1>1. CASE p \in 1..Len(s)
  BY <1>1, ExceptSeq
<1>2. CASE p \notin 1..Len(s)
  <2>1. DOMAIN s = 1..Len(s)
    OBVIOUS
  <2>2. [s EXCEPT ![p] = e] = s
    BY <1>2, <2>1
  <2> QED BY <2>2
<1> QED BY <1>1, <1>2

\* A digest ring never grows past RingSize, and starts with what was pushed
\* (ContainerState.PushDigest).
LEMMA PushedRing ==
    ASSUME NEW h \in Seq(Image), NEW d \in Image
    PROVE  /\ Pushed(h, d) \in Seq(Image)
           /\ Len(Pushed(h, d)) <= RingSize
           /\ Pushed(h, d)[1] = d
<1> DEFINE all == <<d>> \o h
<1>1. /\ all \in Seq(Image) /\ Len(all) = Len(h) + 1 /\ all[1] = d
      /\ \A i \in 1..Len(all) : all[i] \in Image
  <2>1. <<d>> \in Seq(Image) /\ Len(<<d>>) = 1 /\ <<d>>[1] = d
    OBVIOUS
  <2>2. /\ all \in Seq(Image) /\ Len(all) = 1 + Len(h)
        /\ \A i \in 1..(1 + Len(h)) :
             all[i] = IF i <= 1 THEN <<d>>[i] ELSE h[i - 1]
    BY <2>1, ConcatProperties
  <2> QED BY <2>1, <2>2, ElementOfSeq
<1>2. RingSize \in Nat \ {0}
  BY StoreAssumption DEF StoreAssumption
<1>3. CASE Len(all) > RingSize
  <2>1. /\ SubSeq(all, 1, RingSize) \in Seq(Image)
        /\ Len(SubSeq(all, 1, RingSize)) = RingSize
        /\ \A i \in 1..RingSize : SubSeq(all, 1, RingSize)[i] = all[i]
    <3> HIDE DEF all
    <3>1. \A i \in 1..RingSize : all[i] \in Image
      BY <1>1, <1>2, <1>3
    <3> QED BY <3>1, <1>2, SubSeqProperties
  <2> QED BY <1>1, <1>2, <1>3, <2>1 DEF Pushed
<1>4. CASE ~(Len(all) > RingSize)
  BY <1>1, <1>2, <1>4 DEF Pushed
<1> QED BY <1>3, <1>4

\* Publish keeps the queue's type, and what was in it.
LEMMA PublishKeeps ==
    ASSUME NEW S, NEW q \in Seq(S), NEW m \in S
    PROVE  Publish(q, m) \in Seq(S)
BY DEF Publish

-----------------------------------------------------------------------------
(* The daemon.                                                             *)

\* A container keeps its name, and an id is not given out twice.
Grows == \A i \in Id : ctr[i].st # "none" =>
             ctr'[i].st # "none" /\ ctr'[i].name = ctr[i].name

\* The ids that containers get, and the one none has.
LEMMA Ids == Id \subseteq Nat \ {0} /\ NoId \notin Id
BY DockerAssumption DEF DockerAssumption, Id, NoId

\* A digest is not the empty one, and neither is a broken reference.
LEMMA Images ==
    Image = Digest \cup {NoDigest} /\ NoDigest \in Image /\ BadRef \notin Image
BY DockerAssumption DEF DockerAssumption, Image

\* The stream only gets events about containers there are (Emit).
LEMMA EmitKeeps ==
    ASSUME DockerTypeOK, EventsKnown, Grows,
           NEW k \in {"start", "destroy", "unhealthy", "pull"},
           NEW i \in Id \cup {NoId}, NEW n \in Name, NEW d \in Image,
           k # "pull" => i \in Id /\ ctr'[i].st # "none",
           Emit(k, i, n, d)
    PROVE  stream' \in Seq(Event) /\ EventsKnown'
<1> DEFINE e == [kind |-> k, id |-> i, name |-> n, dig |-> d]
<1>1. stream \in Seq(Event) /\ e \in Event
  BY DEF DockerTypeOK, Event
<1>2. CASE stream' = stream
  BY <1>1, <1>2 DEF EventsKnown, Grows
<1>3. CASE stream' = Append(stream, e)
  <2>1. stream' \in Seq(Event) /\ Len(stream') = Len(stream) + 1
        /\ stream'[Len(stream) + 1] = e
        /\ \A j \in 1..Len(stream) : stream'[j] = stream[j]
    BY <1>1, <1>3, AppendProperties
  <2>2. \A j \in DOMAIN stream : stream[j].kind # "pull" =>
            stream[j].id \in Id /\ ctr'[stream[j].id].st # "none"
    BY DEF EventsKnown, Grows
  <2>3. ASSUME NEW j \in DOMAIN stream', stream'[j].kind # "pull"
        PROVE  stream'[j].id \in Id /\ ctr'[stream'[j].id].st # "none"
    <3>1. CASE j = Len(stream) + 1
      BY <2>1, <2>3, <3>1
    <3>2. CASE j # Len(stream) + 1
      <4>1. j \in 1..Len(stream) /\ j \in DOMAIN stream
        BY <1>1, <2>1, <3>2
      <4> QED BY <2>1, <2>2, <2>3, <4>1
    <3> QED BY <3>1, <3>2
  <2> QED BY <2>1, <2>3 DEF EventsKnown
<1> QED BY <1>2, <1>3 DEF Emit

\* Stopping keeps the daemon typed.
LEMMA StopKeeps ==
    ASSUME DockerTypeOK, EventsKnown, NEW i \in Id, Present(i), DockerStop(i)
    PROVE  /\ ctr' \in [Id -> Container] /\ Grows
           /\ \A j \in Id : ctr'[j].st # "none" => ctr'[j].name \in Name
           /\ stream' \in Seq(Event) /\ EventsKnown'
<1>1. /\ ctr' \in [Id -> Container] /\ Grows
      /\ \A j \in Id : ctr'[j].st # "none" => ctr'[j].name \in Name
  BY DEF DockerTypeOK, DockerStop, Container, Grows, Present
<1> QED BY <1>1 DEF DockerTypeOK, DockerStop, EventsKnown, Grows

\* So does removing: the container stays in ctr, gone.
LEMMA RemoveKeeps ==
    ASSUME DockerTypeOK, EventsKnown, NEW i \in Id, Present(i), DockerRemove(i)
    PROVE  /\ ctr' \in [Id -> Container] /\ Grows
           /\ \A j \in Id : ctr'[j].st # "none" => ctr'[j].name \in Name
           /\ stream' \in Seq(Event) /\ EventsKnown'
<1>1. /\ ctr' \in [Id -> Container] /\ Grows
      /\ \A j \in Id : ctr'[j].st # "none" => ctr'[j].name \in Name
      /\ ctr'[i].st # "none"
  BY DEF DockerTypeOK, DockerRemove, Container, Grows, Present
<1>2. PICK n \in Name : Emit("destroy", i, n, NoDigest)
  BY DEF DockerTypeOK, DockerRemove, Present, Emit
<1>3. stream' \in Seq(Event) /\ EventsKnown'
  BY <1>1, <1>2, EmitKeeps, Images
<1> QED BY <1>1, <1>3

\* So does creating: the new container takes the next id.
LEMMA CreateKeeps ==
    ASSUME DockerTypeOK, EventsKnown, NEW i \in Id, Unused(i),
           NEW n \in Name, NEW img \in Image, NEW d \in Image,
           DockerCreate(i, n, img, d)
    PROVE  /\ ctr' \in [Id -> Container] /\ Grows
           /\ \A j \in Id : ctr'[j].st # "none" => ctr'[j].name \in Name
           /\ stream' \in Seq(Event) /\ EventsKnown'
           /\ ctr'[i].st # "none" /\ ctr'[i].name = n
<1>1. /\ ctr' \in [Id -> Container] /\ Grows
      /\ \A j \in Id : ctr'[j].st # "none" => ctr'[j].name \in Name
      /\ ctr'[i].st # "none" /\ ctr'[i].name = n
  BY DEF DockerTypeOK, DockerCreate, Container, Grows, Unused
<1> QED BY <1>1 DEF DockerTypeOK, DockerCreate, EventsKnown, Grows

\* So does starting.
LEMMA StartKeeps ==
    ASSUME DockerTypeOK, EventsKnown, NEW i \in Id, Present(i), DockerStart(i)
    PROVE  /\ ctr' \in [Id -> Container] /\ Grows
           /\ \A j \in Id : ctr'[j].st # "none" => ctr'[j].name \in Name
           /\ stream' \in Seq(Event) /\ EventsKnown'
<1>1. /\ ctr' \in [Id -> Container] /\ Grows
      /\ \A j \in Id : ctr'[j].st # "none" => ctr'[j].name \in Name
      /\ ctr'[i].st # "none"
  BY DEF DockerTypeOK, DockerStart, Container, Grows, Present
<1>2. PICK n \in Name, d \in Image : Emit("start", i, n, d)
  BY DEF DockerTypeOK, DockerStart, Container, Present, Emit
<1>3. stream' \in Seq(Event) /\ EventsKnown'
  BY <1>1, <1>2, EmitKeeps, Images
<1> QED BY <1>1, <1>3

-----------------------------------------------------------------------------
(* Recreate.                                                               *)

\* What a step of a Recreate leaves alone and keeps.
CallKeeps(a) ==
    /\ DockerTypeOK' /\ Grows /\ EventsKnown' /\ RecreateTypeOK' /\ TasksKnown'
    /\ \A b \in Actor : b # a => task'[b] = task[b]
    /\ task[a].pc \in Call
    /\ task'[a].id = task[a].id /\ task'[a].pc # "idle"

\* Grows is enough for a task that did not move.
LEMMA TaskStays ==
    ASSUME Grows, NEW b \in Actor, task'[b] = task[b], TaskKnown(task[b])
    PROVE  TaskKnown(task[b])'
BY DEF Grows, TaskKnown

\* A task that moved: the others stay known.
LEMMA TaskMoves ==
    ASSUME RecreateTypeOK, TasksKnown, Grows, NEW a \in Actor, NEW t \in Task,
           task' = [task EXCEPT ![a] = t],
           TaskKnown(t)'
    PROVE  /\ RecreateTypeOK' /\ TasksKnown'
           /\ \A b \in Actor : b # a => task'[b] = task[b]
           /\ task'[a] = t
<1>1. RecreateTypeOK' /\ task'[a] = t
  BY DEF RecreateTypeOK
<1>2. \A b \in Actor : b # a => task'[b] = task[b]
  BY DEF RecreateTypeOK
<1>3. ASSUME NEW b \in Actor PROVE TaskKnown(task[b])'
  <2>1. CASE b = a
    BY <1>1, <2>1 DEF TaskKnown
  <2>2. CASE b # a
    BY <1>2, <2>2, TaskStays DEF TasksKnown
  <2> QED BY <2>1, <2>2
<1> QED BY <1>1, <1>2, <1>3 DEF TasksKnown

\* Giving a Recreate up only marks its service lost.
LEMMA AbandonKeeps ==
    ASSUME DockerTypeOK, EventsKnown, RecreateTypeOK, TasksKnown,
           NEW a \in Actor, task[a].pc \in Call, Abandon(a),
           UNCHANGED <<reg, proc>>
    PROVE  CallKeeps(a)
<1>0. task[a] \in Task
  BY DEF RecreateTypeOK
<1>1. PICK t \in Task : t = [task[a] EXCEPT !.pc = "failed"]
  BY <1>0 DEF Task
<1>2. DockerTypeOK' /\ Grows /\ EventsKnown'
  BY DEF Abandon, DockerTypeOK, Grows, EventsKnown
<1>3. TaskKnown(t)' /\ task' = [task EXCEPT ![a] = t]
  BY <1>0, <1>1 DEF Abandon, Goto, TasksKnown, TaskKnown, Call, Task
<1>4. RecreateTypeOK' /\ TasksKnown' /\ task'[a] = t
      /\ \A b \in Actor : b # a => task'[b] = task[b]
  BY <1>1, <1>2, <1>3, TaskMoves
<1>5. t.id = task[a].id /\ t.pc # "idle"
  BY <1>0, <1>1 DEF Task
<1> QED BY <1>2, <1>4, <1>5 DEF CallKeeps

\* The inspect call: the old container is known from here on.
LEMMA InspectKeeps ==
    ASSUME DockerTypeOK, EventsKnown, RecreateTypeOK, TasksKnown,
           NEW a \in Actor, InspectCall(a), UNCHANGED <<reg, proc>>
    PROVE  CallKeeps(a)
<1>0. task[a] \in Task /\ task[a].id \in Id
  BY DEF RecreateTypeOK, TasksKnown, TaskKnown, InspectCall
<1>1. CASE Present(task[a].id)
  <2>1. PICK t \in Task : t = [task[a] EXCEPT !.pc = "pull",
                                              !.name = ctr[task[a].id].name]
    BY <1>0, <1>1 DEF Task, Call, Present, DockerTypeOK
  <2>2. DockerTypeOK' /\ Grows /\ EventsKnown'
    BY <1>1 DEF InspectCall, DockerTypeOK, Grows, EventsKnown
  <2>3. /\ t.pc = "pull" /\ t.id = task[a].id
        /\ t.name = ctr[task[a].id].name
    BY <1>0, <2>1 DEF Task
  <2>4. TaskKnown(t)'
    BY <1>0, <1>1, <2>3 DEF InspectCall, TaskKnown, Present, DockerTypeOK
  <2>5. task' = [task EXCEPT ![a] = t]
    BY <1>1, <2>1 DEF InspectCall
  <2>6. /\ RecreateTypeOK' /\ TasksKnown' /\ task'[a] = t
        /\ \A b \in Actor : b # a => task'[b] = task[b]
    BY <2>2, <2>4, <2>5, TaskMoves
  <2> QED BY <2>2, <2>3, <2>6 DEF CallKeeps, InspectCall, Call
<1>2. CASE ~Present(task[a].id)
  BY <1>2, AbandonKeeps DEF InspectCall, Call
<1> QED BY <1>1, <1>2

\* The pull call.
LEMMA PullKeeps ==
    ASSUME DockerTypeOK, EventsKnown, RecreateTypeOK, TasksKnown,
           NEW a \in Actor, PullCall(a), UNCHANGED <<reg, proc>>
    PROVE  CallKeeps(a)
<1>0. /\ task[a] \in Task /\ task[a].id \in Id /\ task[a].name \in Name
      /\ task[a].pc = "pull"
      /\ task[a].name = ctr[task[a].id].name /\ ctr[task[a].id].st # "none"
  BY DEF RecreateTypeOK, TasksKnown, TaskKnown, PullCall
<1>1. CASE task[a].ref # BadRef
  <2>0. task[a].ref \in Image /\ reg[task[a].name] \in Image
    BY <1>0, <1>1, Images DEF Task, DockerTypeOK
  <2>1. PICK t \in Task : t = [task[a] EXCEPT !.pc = "stop",
                                 !.runs = IF task[a].ref = NoDigest
                                          THEN reg[task[a].name]
                                          ELSE task[a].ref]
    BY <1>0, <2>0 DEF Task, Call
  <2>2. DockerTypeOK' /\ Grows /\ EventsKnown'
    BY <1>1 DEF PullCall, DockerTypeOK, Grows, EventsKnown
  <2>3. /\ t.pc = "stop" /\ t.id = task[a].id
        /\ t.name = task[a].name /\ t.ref = task[a].ref
    BY <1>0, <2>1 DEF Task
  <2>4. TaskKnown(t)'
    BY <1>0, <1>1, <2>0, <2>3 DEF PullCall, TaskKnown
  <2>5. task' = [task EXCEPT ![a] = t]
    BY <1>1, <2>1 DEF PullCall
  <2>6. /\ RecreateTypeOK' /\ TasksKnown' /\ task'[a] = t
        /\ \A b \in Actor : b # a => task'[b] = task[b]
    BY <2>2, <2>4, <2>5, TaskMoves
  <2> QED BY <1>0, <2>2, <2>3, <2>6 DEF CallKeeps, Call
<1>2. CASE task[a].ref = BadRef
  BY <1>0, <1>2, AbandonKeeps DEF PullCall, Call
<1> QED BY <1>1, <1>2

\* The stop call.
LEMMA StopCallKeeps ==
    ASSUME DockerTypeOK, EventsKnown, RecreateTypeOK, TasksKnown,
           NEW a \in Actor, StopCall(a), UNCHANGED <<reg, proc>>
    PROVE  CallKeeps(a)
<1>0. /\ task[a] \in Task /\ task[a].id \in Id /\ TaskKnown(task[a])
      /\ task[a].pc = "stop"
  BY DEF RecreateTypeOK, TasksKnown, TaskKnown, StopCall
<1>1. CASE Present(task[a].id)
  <2>1. PICK t \in Task : t = [task[a] EXCEPT !.pc = "remove"]
    BY <1>0 DEF Task, Call
  <2>2. DockerTypeOK' /\ Grows /\ EventsKnown'
    <3>1. PICK i \in Id : i = task[a].id
      BY <1>0
    <3>2. Present(i) /\ DockerStop(i)
      BY <1>1, <3>1 DEF StopCall
    <3>3. /\ ctr' \in [Id -> Container] /\ Grows
          /\ \A j \in Id : ctr'[j].st # "none" => ctr'[j].name \in Name
          /\ stream' \in Seq(Event) /\ EventsKnown'
      BY <3>2, StopKeeps
    <3> QED BY <3>3 DEF DockerTypeOK
  <2>3. /\ t.pc = "remove" /\ t.id = task[a].id
        /\ t.name = task[a].name /\ t.ref = task[a].ref
    BY <1>0, <2>1 DEF Task
  <2>4. TaskKnown(t)'
    BY <1>0, <2>2, <2>3 DEF TaskKnown, Grows
  <2>5. task' = [task EXCEPT ![a] = t]
    BY <1>1, <2>1 DEF StopCall, Goto
  <2>6. /\ RecreateTypeOK' /\ TasksKnown' /\ task'[a] = t
        /\ \A b \in Actor : b # a => task'[b] = task[b]
    BY <2>2, <2>4, <2>5, TaskMoves
  <2> QED BY <1>0, <2>2, <2>3, <2>6 DEF CallKeeps, Call
<1>2. CASE ~Present(task[a].id)
  BY <1>0, <1>2, AbandonKeeps DEF StopCall, Call
<1> QED BY <1>1, <1>2

\* The remove call.
LEMMA RemoveCallKeeps ==
    ASSUME DockerTypeOK, EventsKnown, RecreateTypeOK, TasksKnown,
           NEW a \in Actor, RemoveCall(a), UNCHANGED <<reg, proc>>
    PROVE  CallKeeps(a)
<1>0. /\ task[a] \in Task /\ task[a].id \in Id /\ TaskKnown(task[a])
      /\ task[a].pc = "remove"
  BY DEF RecreateTypeOK, TasksKnown, TaskKnown, RemoveCall
<1>1. CASE Present(task[a].id)
  <2>1. PICK t \in Task : t = [task[a] EXCEPT !.pc = "create"]
    BY <1>0 DEF Task, Call
  <2>2. DockerTypeOK' /\ Grows /\ EventsKnown'
    <3>1. PICK i \in Id : i = task[a].id
      BY <1>0
    <3>2. Present(i) /\ DockerRemove(i)
      BY <1>1, <3>1 DEF RemoveCall, DockerRemove, Emit
    <3>3. /\ ctr' \in [Id -> Container] /\ Grows
          /\ \A j \in Id : ctr'[j].st # "none" => ctr'[j].name \in Name
          /\ stream' \in Seq(Event) /\ EventsKnown'
      BY <3>2, RemoveKeeps
    <3> QED BY <3>3 DEF DockerTypeOK
  <2>3. /\ t.pc = "create" /\ t.id = task[a].id
        /\ t.name = task[a].name /\ t.ref = task[a].ref
    BY <1>0, <2>1 DEF Task
  <2>4. TaskKnown(t)'
    BY <1>0, <2>2, <2>3 DEF TaskKnown, Grows
  <2>5. task' = [task EXCEPT ![a] = t]
    BY <1>1, <2>1 DEF RemoveCall, Goto
  <2>6. /\ RecreateTypeOK' /\ TasksKnown' /\ task'[a] = t
        /\ \A b \in Actor : b # a => task'[b] = task[b]
    BY <2>2, <2>4, <2>5, TaskMoves
  <2> QED BY <1>0, <2>2, <2>3, <2>6 DEF CallKeeps, Call
<1>2. CASE ~Present(task[a].id)
  BY <1>0, <1>2, AbandonKeeps DEF RemoveCall, Call
<1> QED BY <1>1, <1>2

\* The create call: the new container is known from here on.
LEMMA CreateCallKeeps ==
    ASSUME DockerTypeOK, EventsKnown, RecreateTypeOK, TasksKnown,
           NEW a \in Actor, CreateCall(a), UNCHANGED <<reg, proc>>
    PROVE  CallKeeps(a)
<1>0. /\ task[a] \in Task /\ task[a].id \in Id /\ TaskKnown(task[a])
      /\ task[a].pc = "create"
  BY DEF RecreateTypeOK, TasksKnown, TaskKnown, CreateCall
<1>1. CASE NameFree(task[a].name)
  <2>0. PICK j \in Id :
          /\ Unused(j)
          /\ DockerCreate(j, task[a].name, task[a].ref, task[a].runs)
          /\ task' = [task EXCEPT ![a] = [@ EXCEPT !.pc = "start", !.new = j]]
    BY <1>1 DEF CreateCall
  <2>1. PICK t \in Task : t = [task[a] EXCEPT !.pc = "start", !.new = j]
    BY <1>0 DEF Task, Call
  <2>2. /\ DockerTypeOK' /\ Grows /\ EventsKnown'
        /\ ctr'[j].st # "none" /\ ctr'[j].name = task[a].name
    <3>1. PICK n \in Name, img \in Image, d \in Image :
            n = task[a].name /\ img = task[a].ref /\ d = task[a].runs
      BY <1>0 DEF TaskKnown, Task
    <3>2. Unused(j) /\ DockerCreate(j, n, img, d)
      BY <2>0, <3>1 DEF DockerCreate
    <3>3. /\ ctr' \in [Id -> Container] /\ Grows
          /\ \A i \in Id : ctr'[i].st # "none" => ctr'[i].name \in Name
          /\ stream' \in Seq(Event) /\ EventsKnown'
          /\ ctr'[j].st # "none" /\ ctr'[j].name = n
      BY <3>2, CreateKeeps
    <3> QED BY <3>1, <3>3 DEF DockerTypeOK
  <2>3. /\ t.pc = "start" /\ t.id = task[a].id /\ t.new = j
        /\ t.name = task[a].name /\ t.ref = task[a].ref
    BY <1>0, <2>1 DEF Task
  <2>4. TaskKnown(t)'
    BY <1>0, <2>2, <2>3 DEF TaskKnown, Grows
  <2>5. task' = [task EXCEPT ![a] = t]
    BY <2>0, <2>1
  <2>6. /\ RecreateTypeOK' /\ TasksKnown' /\ task'[a] = t
        /\ \A b \in Actor : b # a => task'[b] = task[b]
    BY <2>2, <2>4, <2>5, TaskMoves
  <2> QED BY <1>0, <2>2, <2>3, <2>6 DEF CallKeeps, Call
<1>2. CASE ~NameFree(task[a].name)
  BY <1>0, <1>2, AbandonKeeps DEF CreateCall, Call
<1> QED BY <1>1, <1>2

\* The start call.
LEMMA StartCallKeeps ==
    ASSUME DockerTypeOK, EventsKnown, RecreateTypeOK, TasksKnown,
           NEW a \in Actor, StartCall(a), UNCHANGED <<reg, proc>>
    PROVE  CallKeeps(a)
<1>0. /\ task[a] \in Task /\ task[a].id \in Id /\ TaskKnown(task[a])
      /\ task[a].pc = "start"
  BY DEF RecreateTypeOK, TasksKnown, TaskKnown, StartCall
<1>1. CASE Present(task[a].new)
  <2>1. PICK t \in Task : t = [task[a] EXCEPT !.pc = "done"]
    BY <1>0 DEF Task, Call
  <2>2. DockerTypeOK' /\ Grows /\ EventsKnown'
    <3>1. PICK i \in Id : i = task[a].new
      BY <1>0 DEF TaskKnown
    <3>2. Present(i) /\ DockerStart(i)
      BY <1>1, <3>1 DEF StartCall, DockerStart, Emit
    <3>3. /\ ctr' \in [Id -> Container] /\ Grows
          /\ \A j \in Id : ctr'[j].st # "none" => ctr'[j].name \in Name
          /\ stream' \in Seq(Event) /\ EventsKnown'
      BY <3>2, StartKeeps
    <3> QED BY <3>3 DEF DockerTypeOK
  <2>3. /\ t.pc = "done" /\ t.id = task[a].id /\ t.new = task[a].new
        /\ t.name = task[a].name /\ t.ref = task[a].ref
    BY <1>0, <2>1 DEF Task
  <2>4. TaskKnown(t)'
    BY <1>0, <2>2, <2>3 DEF TaskKnown, Grows
  <2>5. task' = [task EXCEPT ![a] = t]
    BY <1>1, <2>1 DEF StartCall, Goto
  <2>6. /\ RecreateTypeOK' /\ TasksKnown' /\ task'[a] = t
        /\ \A b \in Actor : b # a => task'[b] = task[b]
    BY <2>2, <2>4, <2>5, TaskMoves
  <2> QED BY <1>0, <2>2, <2>3, <2>6 DEF CallKeeps, Call
<1>2. CASE ~Present(task[a].new)
  BY <1>0, <1>2, AbandonKeeps DEF StartCall, Call
<1> QED BY <1>1, <1>2

\* Every call of a Recreate, and every failure of one, keeps the daemon's
\* containers and both tasks in order.
LEMMA RecreateKeeps ==
    ASSUME DockerTypeOK, EventsKnown, RecreateTypeOK, TasksKnown,
           NEW a \in Actor, RecreateStep(a) \/ CallFails(a)
    PROVE  CallKeeps(a)
<1>1. UNCHANGED <<reg, proc>>
  BY DEF RecreateStep, CallFails
<1>2. CASE CallFails(a)
  BY <1>1, <1>2, AbandonKeeps DEF CallFails
<1>3. CASE RecreateStep(a)
  BY <1>1, <1>3, InspectKeeps, PullKeeps, StopCallKeeps, RemoveCallKeeps,
     CreateCallKeeps, StartCallKeeps DEF RecreateStep
<1> QED BY <1>2, <1>3

-----------------------------------------------------------------------------
(* The store, and what stays known while others move.                      *)

\* Pointers stay good: the heap only grows while the process runs.
HeapKept == StoreTypeOK' /\ Len(heap') >= Len(heap)

\* PushDigest on a pointer of the heap.
LEMMA PushKeeps ==
    ASSUME StoreTypeOK, NEW p \in Nat, NEW d \in Image,
           PushDigest(p, d), UNCHANGED keys
    PROVE  HeapKept /\ Len(heap') = Len(heap)
<1>1. heap \in Seq(Entry)
  BY DEF StoreTypeOK
<1> DEFINE e == [heap[p] EXCEPT !.hist = Pushed(heap[p].hist, d)]
<1>3. p \in 1..Len(heap) => e \in Entry
  <2> SUFFICES ASSUME p \in 1..Len(heap) PROVE e \in Entry
    OBVIOUS
  <2>1. heap[p] \in Entry
    BY <1>1
  <2>2. Pushed(heap[p].hist, d) \in Seq(Image)
    BY <2>1, PushedRing DEF Entry
  <2> QED BY <2>1, <2>2 DEF Entry
<1>4. heap' = [heap EXCEPT ![p] = e]
  BY DEF PushDigest
<1>5. heap' \in Seq(Entry) /\ Len(heap') = Len(heap)
  <2> HIDE DEF e
  <2> QED BY <1>1, <1>3, <1>4, SetOne
<1> QED BY <1>5 DEF HeapKept, StoreTypeOK, Ptr

\* Rekey, from any id to an id that a container has.
LEMMA RekeyKeeps ==
    ASSUME StoreTypeOK, NEW i \in Id, NEW j \in Id, Rekey(i, j)
    PROVE  HeapKept /\ Len(heap') = Len(heap)
<1>1. heap \in Seq(Entry) /\ keys[i] \in Nat
  BY DEF StoreTypeOK
<1>2. CASE keys[i] = 0
  BY <1>1, <1>2 DEF Rekey, storeVars, HeapKept, StoreTypeOK, Ptr
<1>3. CASE keys[i] # 0
  <2>1. keys[i] \in 1..Len(heap) /\ heap[keys[i]] \in Entry
    BY <1>1, <1>3 DEF StoreTypeOK, Ptr
  <2>2. PICK p \in 1..Len(heap) : p = keys[i]
    BY <2>1
  <2>3. PICK e \in Entry : e = [heap[p] EXCEPT !.id = j]
    BY <2>1, <2>2 DEF Entry
  <2>4. heap' = [heap EXCEPT ![p] = e]
    BY <1>3, <2>2, <2>3 DEF Rekey
  <2>5. heap' \in Seq(Entry) /\ Len(heap') = Len(heap)
    BY <1>1, <2>4, SetOne
  <2>6. keys' = [keys EXCEPT ![i] = 0, ![j] = p]
    BY <1>3, <2>2 DEF Rekey
  <2>7. keys' \in [Id -> Nat]
    BY <2>6, <2>2 DEF StoreTypeOK
  <2>8. \A k \in Id : keys'[k] # 0 => keys'[k] \in 1..Len(heap)
    BY <2>6, <2>2 DEF StoreTypeOK, Ptr
  <2> QED BY <1>1, <2>5, <2>7, <2>8 DEF HeapKept, StoreTypeOK, Ptr
<1> QED BY <1>2, <1>3

\* Remove from the map.
LEMMA ForgetKeeps ==
    ASSUME StoreTypeOK, NEW i \in Id, Remove(i)
    PROVE  HeapKept /\ Len(heap') = Len(heap)
BY DEF StoreTypeOK, Remove, HeapKept, Ptr

\* Upsert of a container's name and labels under its id.
LEMMA UpsertKeeps ==
    ASSUME StoreTypeOK, NEW i \in Id, NEW n \in Name, NEW img \in Image,
           Upsert(i, n, img)
    PROVE  HeapKept
<1>1. heap \in Seq(Entry) /\ keys \in [Id -> Nat]
  BY DEF StoreTypeOK
<1>2. CASE keys[i] = 0
  <2>1. PICK e \in Entry :
          e = [id |-> i, name |-> n, image |-> img, hist |-> <<>>]
    <3>1. <<>> \in Seq(Image)
      OBVIOUS
    <3> QED BY <3>1 DEF Entry
  <2>2. heap' = Append(heap, e)
    BY <1>2, <2>1 DEF Upsert
  <2>3. heap' \in Seq(Entry) /\ Len(heap') = Len(heap) + 1
    BY <1>1, <2>2, AppendProperties
  <2>4. keys' = [keys EXCEPT ![i] = Len(heap) + 1]
    BY <1>2 DEF Upsert
  <2> QED BY <1>1, <2>3, <2>4 DEF HeapKept, StoreTypeOK, Ptr
<1>3. CASE keys[i] # 0
  <2>1. PICK p \in 1..Len(heap) : p = keys[i]
    BY <1>3 DEF StoreTypeOK, Ptr
  <2>2. PICK e \in Entry : e = [heap[p] EXCEPT !.name = n, !.image = img]
    <3>1. heap[p] \in Entry
      BY <1>1
    <3> QED BY <3>1 DEF Entry
  <2>3. heap' = [heap EXCEPT ![p] = e] /\ keys' = keys
    BY <1>3, <2>1, <2>2 DEF Upsert
  <2>4. heap' \in Seq(Entry) /\ Len(heap') = Len(heap)
    BY <1>1, <2>3, SetOne
  <2> QED BY <1>1, <2>3, <2>4 DEF HeapKept, StoreTypeOK, Ptr
<1> QED BY <1>2, <1>3

\* The executor's locals stay known while containers are not lost sight of.
LEMMA ExecStays ==
    ASSUME ExecKnown, exec' = exec, task'["exec"] = task["exec"],
           Len(heap) \in Nat, Len(heap') \in Nat, Len(heap') >= Len(heap)
    PROVE  ExecKnown'
BY DEF ExecKnown

\* The rollback engine's, likewise.
LEMMA RbStays ==
    ASSUME RbKnown, rb' = rb, task'["rb"] = task["rb"],
           Len(heap) \in Nat, Len(heap') \in Nat, Len(heap') >= Len(heap)
    PROVE  RbKnown'
BY DEF RbKnown

\* The watcher's, likewise.
LEMMA WatStays ==
    ASSUME WatKnown, wat' = wat, Grows,
           Len(heap) \in Nat, Len(heap') \in Nat, Len(heap') >= Len(heap)
    PROVE  WatKnown'
BY DEF WatKnown, Grows, Ptr

\* The request goroutines', likewise.
LEMMA ReqsStay ==
    ASSUME ReqsKnown, req' = req,
           Len(heap) \in Nat, Len(heap') \in Nat, Len(heap') >= Len(heap)
    PROVE  ReqsKnown'
BY DEF ReqsKnown, ReqKnown, Ptr

\* Without a daemon call the daemon's side stays as it is.
LEMMA DockerStays ==
    ASSUME DockerTypeOK, EventsKnown, UNCHANGED dockerVars
    PROVE  DockerTypeOK' /\ EventsKnown' /\ Grows
BY DEF DockerTypeOK, EventsKnown, Grows, dockerVars

-----------------------------------------------------------------------------
(* TypeInv, actor by actor.                                                *)

\* The state after start-up is typed.
LEMMA InitTyped == Init => TypeInv
<1> SUFFICES ASSUME Init PROVE TypeInv
  OBVIOUS
<1>a. /\ reg \in [Name -> Digest] /\ stream = <<>> /\ proc = "down"
      /\ keys = [i \in Id |-> 0] /\ heap = <<>>
      /\ qImage = <<>> /\ qApplied = <<>> /\ qUnhealthy = <<>>
      /\ task = [a \in Actor |-> NoTask]
      /\ jobs = <<>> /\ active = [k \in JobKey |-> 0] /\ rows = <<>>
  BY DEF Init
<1>b. /\ exec = ExecIdle /\ rb = RbIdle /\ wat = WatIdle
      /\ mon = [i \in Id |-> MonOff] /\ req = [s \in Slot |-> NoReq]
      /\ lastDigest = [n \in Name |-> NoDigest] /\ spent = 0 /\ lost = {}
  BY DEF Init
<1>1. DockerTypeOK
  <2>1. PICK idOf \in [Name -> Id] :
          ctr = [i \in Id |-> IF \E n \in Name : idOf[n] = i
                              THEN RunBare(CHOOSE n \in Name : idOf[n] = i)
                              ELSE Unborn]
    BY DEF Init
  <2>2. reg \in [Name -> Digest]
    BY DEF Init
  <2>3. ASSUME NEW n \in Name
        PROVE  RunBare(n) \in Container /\ RunBare(n).name = n
    BY <2>2, Images DEF RunBare, Container
  <2>4. Unborn \in Container /\ Unborn.st = "none"
    BY Images DEF Unborn, Container
  <2>5. ASSUME NEW i \in Id
        PROVE  ctr[i] \in Container /\ (ctr[i].st # "none" => ctr[i].name \in Name)
    <3>1. CASE \E n \in Name : idOf[n] = i
      <4>1. PICK n \in Name : n = CHOOSE m \in Name : idOf[m] = i
        BY <3>1
      <4>2. ctr[i] = RunBare(n)
        BY <2>1, <3>1, <4>1
      <4> QED BY <2>3, <4>2
    <3>2. CASE ~\E n \in Name : idOf[n] = i
      BY <2>1, <2>4, <3>2
    <3> QED BY <3>1, <3>2
  <2>6. ctr \in [Id -> Container]
    BY <2>1, <2>5
  <2> QED BY <1>a, <2>2, <2>5, <2>6 DEF DockerTypeOK
<1>2. StoreTypeOK /\ TopicsTypeOK /\ RecreateTypeOK /\ DeploysTypeOK
  <2>1. NoTask \in Task
    BY Images DEF NoTask, Task
  <2> QED BY <1>a, <2>1 DEF StoreTypeOK, TopicsTypeOK, RecreateTypeOK,
             DeploysTypeOK
<1>3. ExecutorTypeOK /\ RollbackTypeOK /\ WatcherTypeOK /\ HealthMonTypeOK
  BY <1>b, Images DEF ExecutorTypeOK, RollbackTypeOK, WatcherTypeOK,
     HealthMonTypeOK, ExecIdle, RbIdle, WatIdle, MonOff
<1>4. TriggersTypeOK /\ spent \in Nat /\ lost \subseteq Name
  BY <1>b, Images DEF TriggersTypeOK, NoReq, Request
<1>5. EventsKnown /\ TasksKnown /\ ExecKnown /\ RbKnown
  BY <1>a, <1>b DEF EventsKnown, TasksKnown, TaskKnown, ExecKnown, RbKnown,
     NoTask, ExecIdle, RbIdle, Actor
<1>6. WatKnown /\ MonKnown /\ ReqsKnown /\ DownIsEmpty
  BY <1>a, <1>b DEF WatKnown, MonKnown, ReqsKnown, ReqKnown, DownIsEmpty,
     WatIdle, MonOff, NoReq
<1> QED BY <1>1, <1>2, <1>3, <1>4, <1>5, <1>6 DEF TypeInv, Typed

\* The heap is finite.
LEMMA HeapLen == ASSUME StoreTypeOK PROVE Len(heap) \in Nat
BY DEF StoreTypeOK

\* A step of a Recreate in progress, whoever called it.
LEMMA CallsTyped ==
    ASSUME TypeInv, NEW a \in Actor, CallKeeps(a),
           UNCHANGED <<storeVars, topicVars, deployVars, exec, rb, wat, mon,
                       req, lastDigest>>,
           proc' = proc,
           spent' \in Nat, lost' \subseteq Name
    PROVE  TypeInv'
<1>1. DockerTypeOK' /\ Grows /\ EventsKnown' /\ RecreateTypeOK' /\ TasksKnown'
  BY DEF CallKeeps
<1>2. StoreTypeOK' /\ TopicsTypeOK' /\ DeploysTypeOK' /\ DownIsEmpty'
  BY DEF TypeInv, Typed, StoreTypeOK, TopicsTypeOK, DeploysTypeOK, storeVars,
     topicVars, deployVars, Ptr, DownIsEmpty
<1>3. /\ ExecutorTypeOK' /\ RollbackTypeOK' /\ WatcherTypeOK' /\ HealthMonTypeOK'
      /\ TriggersTypeOK' /\ MonKnown'
  BY DEF TypeInv, Typed, ExecutorTypeOK, RollbackTypeOK, WatcherTypeOK,
     HealthMonTypeOK, TriggersTypeOK, MonKnown
<1>4. ExecKnown'
  <2>1. /\ task'["exec"].id = task["exec"].id
        /\ task["exec"].pc # "idle" => task'["exec"].pc # "idle"
        /\ task["exec"].pc \in {"idle", "done"} => task'["exec"] = task["exec"]
    BY DEF CallKeeps, Actor, Call
  <2>2. task["exec"] = NoTask => task["exec"].pc = "idle"
    BY DEF NoTask
  <2> QED BY <2>1, <2>2 DEF TypeInv, ExecKnown, storeVars
<1>5. RbKnown'
  <2>1. /\ task'["rb"].id = task["rb"].id
        /\ task["rb"].pc # "idle" => task'["rb"].pc # "idle"
        /\ task["rb"].pc \in {"idle", "done"} => task'["rb"] = task["rb"]
    BY DEF CallKeeps, Actor, Call
  <2>2. task["rb"] = NoTask => task["rb"].pc = "idle"
    BY DEF NoTask
  <2> QED BY <2>1, <2>2 DEF TypeInv, RbKnown, storeVars
<1>6. WatKnown' /\ ReqsKnown'
  BY <1>1, HeapLen, WatStays, ReqsStay DEF TypeInv, Typed, storeVars
<1> QED BY <1>1, <1>2, <1>3, <1>4, <1>5, <1>6 DEF TypeInv, Typed

\* What an action of the executor leaves to be shown.
LEMMA ExecFrame ==
    ASSUME TypeInv, Exec, HeapKept, Len(heap') = Len(heap),
           TopicsTypeOK', DeploysTypeOK', RecreateTypeOK', ExecutorTypeOK',
           UNCHANGED <<ctr, stream>>,
           task'["rb"] = task["rb"], TaskKnown(task["exec"])', ExecKnown'
    PROVE  TypeInv'
<1>1. UNCHANGED dockerVars /\ UNCHANGED <<rb, wat, mon, req, lastDigest>>
      /\ UNCHANGED <<spent, lost>>
  BY DEF Exec, ExecutorStep, execView, dockerVars
<1>2. DockerTypeOK' /\ EventsKnown' /\ Grows
  BY <1>1, DockerStays DEF TypeInv, Typed
<1>3. StoreTypeOK' /\ DownIsEmpty'
  BY <1>1 DEF HeapKept, TypeInv, Typed, DownIsEmpty, StoreTypeOK, dockerVars
<1>4. /\ RollbackTypeOK' /\ WatcherTypeOK' /\ HealthMonTypeOK' /\ TriggersTypeOK'
      /\ MonKnown' /\ spent' \in Nat /\ lost' \subseteq Name
  BY <1>1 DEF TypeInv, Typed, RollbackTypeOK, WatcherTypeOK, HealthMonTypeOK,
     TriggersTypeOK, MonKnown
<1>5. TasksKnown'
  <2>1. TaskKnown(task["rb"])'
    BY <1>2, TaskStays DEF TypeInv, TasksKnown, Actor
  <2> QED BY <2>1 DEF TasksKnown, Actor
<1>6. Len(heap) \in Nat /\ Len(heap') \in Nat /\ Len(heap') >= Len(heap)
  BY HeapLen DEF TypeInv, Typed
<1>7. RbKnown' /\ WatKnown' /\ ReqsKnown'
  BY <1>1, <1>2, <1>6, RbStays, WatStays, ReqsStay DEF TypeInv
<1> QED BY <1>2, <1>3, <1>4, <1>5, <1>7 DEF TypeInv, Typed

\* What does not touch the store leaves it typed.
LEMMA StoreStays ==
    ASSUME StoreTypeOK, UNCHANGED storeVars
    PROVE  HeapKept /\ Len(heap') = Len(heap)
BY DEF StoreTypeOK, storeVars, HeapKept, Ptr

\* The executor drops an update: unknown container or held service.
LEMMA ExecIgnoreTyped == ASSUME TypeInv, Exec, ExecIgnore PROVE TypeInv'
<1>1. UNCHANGED <<exec, task, storeVars, deployVars, qApplied, ctr, stream,
                  qUnhealthy>>
      /\ qImage # <<>> /\ qImage' = Tail(qImage)
  BY DEF ExecIgnore, Exec, ExecutorStep, execView
<1>2. HeapKept /\ Len(heap') = Len(heap)
  BY <1>1, StoreStays DEF TypeInv, Typed
<1>3. TopicsTypeOK' /\ DeploysTypeOK' /\ RecreateTypeOK' /\ ExecutorTypeOK'
  BY <1>1 DEF TypeInv, Typed, TopicsTypeOK, DeploysTypeOK, RecreateTypeOK,
     ExecutorTypeOK, deployVars
<1>4. TaskKnown(task["exec"])'
  BY <1>1 DEF TypeInv, TasksKnown, TaskKnown, Actor
<1>5. ExecKnown'
  BY <1>1, <1>2 DEF TypeInv, ExecKnown
<1> QED BY <1>1, <1>2, <1>3, <1>4, <1>5, ExecFrame

\* It takes one: a row, a job, a Recreate of an entry of the map.
LEMMA ExecApplyTyped == ASSUME TypeInv, Exec, ExecApply PROVE TypeInv'
<1>1. /\ UNCHANGED storeVars /\ UNCHANGED <<qApplied, qUnhealthy, ctr, stream>>
      /\ qImage # <<>> /\ qImage' = Tail(qImage)
  BY DEF ExecApply, Exec, ExecutorStep, execView
<1>2. HeapKept /\ Len(heap') = Len(heap)
  BY <1>1, StoreStays DEF TypeInv, Typed
<1>3. PICK p \in ImageUpdated : p = Head(qImage)
  BY <1>1 DEF TypeInv, Typed, TopicsTypeOK
<1>4. TopicsTypeOK'
  BY <1>1 DEF TypeInv, Typed, TopicsTypeOK
<1>5. DeploysTypeOK'
  <2>1. /\ Register(<<"container", p.name>>, "running")
        /\ rows' = Append(rows, "running")
    BY <1>3 DEF ExecApply, RecordRow, Register
  <2>2. PICK k \in JobKey : k = <<"container", p.name>>
    BY DEF ImageUpdated, JobKey
  <2>3. PICK j \in Job : j = [key |-> k, status |-> "running"]
    BY DEF Job
  <2>4. jobs' = Append(jobs, j) /\ active' = [active EXCEPT ![k] = Len(jobs) + 1]
    BY <2>1, <2>2, <2>3 DEF Register
  <2>5. jobs' \in Seq(Job) /\ Len(jobs') = Len(jobs) + 1 /\ Len(jobs) \in Nat
    BY <2>4, AppendProperties DEF TypeInv, Typed, DeploysTypeOK
  <2>6. active' \in [JobKey -> Nat] /\ \A l \in JobKey : active'[l] <= Len(jobs')
    BY <2>4, <2>5 DEF TypeInv, Typed, DeploysTypeOK
  <2>7. rows' \in Seq(RowStatus)
    BY <2>1 DEF TypeInv, Typed, DeploysTypeOK, RowStatus
  <2> QED BY <2>5, <2>6, <2>7 DEF DeploysTypeOK
<1>6. /\ exec'.pc = "apply" /\ exec'.p = p /\ exec'.cs = keys[p.id]
      /\ keys[p.id] \in 0..Len(heap) /\ ExecutorTypeOK'
  <2>1. exec' = [pc |-> "apply", p |-> p, cs |-> keys[p.id],
                 job |-> Len(jobs) + 1, row |-> Len(rows) + 1]
    BY <1>3 DEF ExecApply
  <2>2. keys[p.id] \in 0..Len(heap) /\ keys[p.id] \in Nat
    BY HeapLen DEF TypeInv, Typed, StoreTypeOK, Ptr, ImageUpdated
  <2>3. Len(jobs) \in Nat /\ Len(rows) \in Nat
    BY DEF TypeInv, Typed, DeploysTypeOK
  <2> QED BY <2>1, <2>2, <2>3 DEF ExecutorTypeOK
<1>7. /\ RecreateTypeOK' /\ task'["rb"] = task["rb"]
      /\ task'["exec"].id = p.id /\ task'["exec"].pc = "inspect"
      /\ p.id \in Id
  <2>1. Start("exec", p.id, Pin(p.image, p.new))
    BY <1>3 DEF ExecApply, Start
  <2>2. PICK t : t = [NoTask EXCEPT !.pc = "inspect", !.id = p.id,
                                    !.ref = Pin(p.image, p.new)]
    OBVIOUS
  <2>3. t \in Task /\ t.id = p.id /\ t.pc = "inspect" /\ p.id \in Id
    BY <2>2, Images DEF NoTask, Task, Call, ImageUpdated, Pin
  <2>4. task' = [task EXCEPT !["exec"] = t]
    BY <2>1, <2>2 DEF Start
  <2> QED BY <2>3, <2>4 DEF TypeInv, Typed, RecreateTypeOK, Actor
<1>8. TaskKnown(task["exec"])'
  BY <1>7 DEF TaskKnown
<1>9. ExecKnown'
  BY <1>2, <1>6, <1>7 DEF ExecKnown
<1> QED BY <1>1, <1>2, <1>4, <1>5, <1>6, <1>7, <1>8, <1>9, ExecFrame

\* Transition, FinishRow and FinishJob change one status, one row, one key.
LEMMA TransitionKeeps ==
    ASSUME DeploysTypeOK, NEW j \in Nat, NEW s \in {"success", "failed"},
           Transition(j, s)
    PROVE  jobs' \in Seq(Job) /\ Len(jobs') = Len(jobs)
<1>1. jobs \in Seq(Job)
  BY DEF DeploysTypeOK
<1>2. CASE jobs' = jobs
  BY <1>1, <1>2
<1>3. CASE jobs' = [jobs EXCEPT ![j] = [jobs[j] EXCEPT !.status = s]]
  <2> DEFINE e == [jobs[j] EXCEPT !.status = s]
  <2>1. j \in 1..Len(jobs) => e \in Job
    <3>1. j \in 1..Len(jobs) => jobs[j] \in Job
      BY <1>1
    <3> QED BY <3>1 DEF Job
  <2> HIDE DEF e
  <2>2. jobs' = [jobs EXCEPT ![j] = e]
    BY <1>3 DEF e
  <2> QED BY <1>1, <2>1, <2>2, SetOne
<1> QED BY <1>2, <1>3 DEF Transition

\* FinishDeploy changes the status of a row that exists.
LEMMA FinishRowKeeps ==
    ASSUME DeploysTypeOK, NEW r \in Nat, NEW s \in RowStatus, FinishRow(r, s)
    PROVE  rows' \in Seq(RowStatus)
<1>1. rows \in Seq(RowStatus) /\ rows' = [rows EXCEPT ![r] = s]
  BY DEF DeploysTypeOK, FinishRow
<1> QED BY <1>1, SetOne

\* Finish changes a job and the active index.
LEMMA FinishJobKeeps ==
    ASSUME DeploysTypeOK, NEW k, active' = [active EXCEPT ![k] = 0],
           Len(jobs') = Len(jobs)
    PROVE  active' \in [JobKey -> Nat] /\ \A l \in JobKey : active'[l] <= Len(jobs')
<1>1. /\ active \in [JobKey -> Nat] /\ Len(jobs) \in Nat
      /\ \A l \in JobKey : active[l] <= Len(jobs)
  BY DEF DeploysTypeOK
<1>2. \A l \in JobKey : active'[l] = IF l = k THEN 0 ELSE active[l]
  BY <1>1
<1>3. active' \in [JobKey -> Nat]
  BY <1>1
<1> QED BY <1>1, <1>2, <1>3

\* Both of them, as the executor's tail calls them.
LEMMA FinishKeeps ==
    ASSUME TypeInv, NEW a \in Actor, Finish(a)
    PROVE  /\ RecreateTypeOK' /\ task'[a] = NoTask
           /\ \A b \in Actor : b # a => task'[b] = task[b]
<1>1. NoTask \in Task
  BY Images DEF NoTask, Task
<1> QED BY <1>1 DEF TypeInv, Typed, RecreateTypeOK, Finish

\* An actor without a Recreate knows nothing, and need not.
LEMMA NoTaskKnown ==
    ASSUME NEW a \in Actor, task'[a] = NoTask
    PROVE  TaskKnown(task[a])'
BY DEF NoTask, TaskKnown

\* The Recreate failed: the locals go.
LEMMA ExecFailTyped == ASSUME TypeInv, Exec, ExecFail PROVE TypeInv'
<1>1. /\ UNCHANGED storeVars
      /\ UNCHANGED <<qImage, qApplied, qUnhealthy, ctr, stream>>
      /\ Finish("exec") /\ exec' = ExecIdle
  BY DEF ExecFail, Exec, ExecutorStep, execView
<1>2. HeapKept /\ Len(heap') = Len(heap)
  BY <1>1, StoreStays DEF TypeInv, Typed
<1>3. DeploysTypeOK /\ exec.job \in Nat /\ exec.row \in Nat
  BY DEF TypeInv, Typed, ExecutorTypeOK
<1>4. DeploysTypeOK'
  <2>1. jobs' \in Seq(Job) /\ Len(jobs') = Len(jobs)
    <3>1. PICK j \in Nat : j = exec.job
      BY <1>3
    <3>2. Transition(j, "failed")
      BY <3>1 DEF ExecFail, Transition
    <3> QED BY <1>3, <3>2, TransitionKeeps
  <2>2. rows' \in Seq(RowStatus)
    <3>1. PICK r \in Nat : r = exec.row
      BY <1>3
    <3>2. FinishRow(r, "failed") /\ "failed" \in RowStatus
      BY <3>1 DEF ExecFail, FinishRow, RowStatus
    <3> QED BY <1>3, <3>2, FinishRowKeeps
  <2>3. PICK k : active' = [active EXCEPT ![k] = 0]
    BY DEF ExecFail, FinishJob
  <2>4. active' \in [JobKey -> Nat] /\ \A l \in JobKey : active'[l] <= Len(jobs')
    BY <1>3, <2>1, <2>3, FinishJobKeeps
  <2> QED BY <2>1, <2>2, <2>4 DEF DeploysTypeOK
<1>5. TopicsTypeOK' /\ ExecutorTypeOK'
  BY <1>1 DEF TypeInv, Typed, TopicsTypeOK, ExecutorTypeOK, ExecIdle
<1>6. RecreateTypeOK' /\ task'["exec"] = NoTask /\ task'["rb"] = task["rb"]
  BY <1>1, FinishKeeps DEF Actor
<1>7. TaskKnown(task["exec"])' /\ ExecKnown'
  BY <1>1, <1>2, <1>6, HeapLen, NoTaskKnown
     DEF ExecKnown, ExecIdle, Actor, TypeInv, Typed
<1> QED BY <1>1, <1>2, <1>4, <1>5, <1>6, <1>7, ExecFrame

\* It succeeded: the pushed pointer is in the heap.
LEMMA ExecSucceedTyped == ASSUME TypeInv, Exec, ExecSucceed PROVE TypeInv'
<1>1. /\ UNCHANGED storeVars /\ UNCHANGED <<task, active>>
      /\ UNCHANGED <<qImage, qApplied, qUnhealthy, ctr, stream>>
      /\ exec.pc = "apply" /\ task["exec"].pc = "done"
      /\ exec' = [exec EXCEPT !.pc = "rekey"]
  BY DEF ExecSucceed, Exec, ExecutorStep, execView
<1>2. HeapKept /\ Len(heap') = Len(heap)
  BY <1>1, StoreStays DEF TypeInv, Typed
<1>3. DeploysTypeOK /\ exec.job \in Nat /\ exec.row \in Nat
  BY DEF TypeInv, Typed, ExecutorTypeOK
<1>4. DeploysTypeOK'
  <2>1. jobs' \in Seq(Job) /\ Len(jobs') = Len(jobs)
    <3>1. PICK j \in Nat : j = exec.job
      BY <1>3
    <3>2. Transition(j, "success")
      BY <3>1 DEF ExecSucceed, Transition
    <3> QED BY <1>3, <3>2, TransitionKeeps
  <2>2. rows' \in Seq(RowStatus)
    <3>1. PICK r \in Nat : r = exec.row
      BY <1>3
    <3>2. FinishRow(r, "success") /\ "success" \in RowStatus
      BY <3>1 DEF ExecSucceed, FinishRow, RowStatus
    <3> QED BY <1>3, <3>2, FinishRowKeeps
  <2> QED BY <1>1, <1>3, <2>1, <2>2 DEF DeploysTypeOK
<1>5. TopicsTypeOK' /\ RecreateTypeOK' /\ TaskKnown(task["exec"])'
  BY <1>1 DEF TypeInv, Typed, TopicsTypeOK, RecreateTypeOK, TasksKnown,
     TaskKnown, Actor
<1>6. /\ exec'.pc = "rekey" /\ exec'.p = exec.p /\ exec'.cs = exec.cs
      /\ ExecutorTypeOK'
  BY <1>1 DEF TypeInv, Typed, ExecutorTypeOK
<1>7. ExecKnown'
  BY <1>1, <1>2, <1>6 DEF TypeInv, ExecKnown
<1> QED BY <1>1, <1>2, <1>4, <1>5, <1>6, <1>7, ExecFrame

\* The entry moves to the new container's id, which exists.
LEMMA ExecRekeyTyped == ASSUME TypeInv, Exec, ExecRekey PROVE TypeInv'
<1>1. /\ UNCHANGED deployVars /\ UNCHANGED task
      /\ UNCHANGED <<qImage, qApplied, qUnhealthy, ctr, stream>>
      /\ exec.pc = "rekey"
      /\ exec' = [exec EXCEPT !.pc = "push",
                              !.cs = IF keys[exec.p.id] = 0 THEN exec.cs
                                     ELSE keys[exec.p.id]]
      /\ exec.p \in ImageUpdated /\ exec.p.id \in Id
      /\ task["exec"].pc = "done" /\ task["exec"].new \in Id
  BY DEF ExecRekey, Exec, ExecutorStep, execView, TypeInv, ExecKnown,
     ImageUpdated, TasksKnown, TaskKnown, Actor
<1>2. HeapKept /\ Len(heap') = Len(heap)
  <2>1. PICK i \in Id, j \in Id : i = exec.p.id /\ j = task["exec"].new
    BY <1>1
  <2>2. Rekey(i, j)
    BY <2>1 DEF ExecRekey, Rekey
  <2> QED BY <2>2, RekeyKeeps DEF TypeInv, Typed
<1>3. TopicsTypeOK' /\ RecreateTypeOK' /\ TaskKnown(task["exec"])'
      /\ DeploysTypeOK'
  BY <1>1 DEF TypeInv, Typed, TopicsTypeOK, RecreateTypeOK, TasksKnown,
     TaskKnown, Actor, DeploysTypeOK, deployVars
<1>4. keys[exec.p.id] \in 0..Len(heap) /\ keys[exec.p.id] \in Nat
  BY <1>1, HeapLen DEF TypeInv, Typed, StoreTypeOK, Ptr
<1>5. /\ exec'.pc = "push" /\ exec'.p = exec.p /\ exec'.cs \in 0..Len(heap)
      /\ ExecutorTypeOK'
  BY <1>1, <1>4 DEF TypeInv, Typed, ExecutorTypeOK, ExecKnown
<1>6. ExecKnown'
  BY <1>1, <1>2, <1>5 DEF TypeInv, ExecKnown
<1> QED BY <1>1, <1>2, <1>3, <1>5, <1>6, ExecFrame

\* update.applied carries that id and a digest.
LEMMA ExecPublishTyped == ASSUME TypeInv, Exec, ExecPublish PROVE TypeInv'
<1>1. /\ UNCHANGED <<keys, jobs, rows, qImage, qUnhealthy, ctr, stream>>
      /\ exec.pc = "push" /\ Finish("exec") /\ exec' = ExecIdle
      /\ PushDigest(exec.cs, exec.p.new)
      /\ qApplied' = Publish(qApplied, [exec.p EXCEPT !.id = task["exec"].new])
      /\ active' = [active EXCEPT ![jobs[exec.job].key] = 0]
      /\ exec.p \in ImageUpdated /\ task["exec"].new \in Id
  BY DEF ExecPublish, Exec, ExecutorStep, execView, FinishJob, TypeInv,
     ExecKnown, TasksKnown, TaskKnown, Actor
<1>2. HeapKept /\ Len(heap') = Len(heap)
  <2>1. PICK p \in Nat, d \in Image : p = exec.cs /\ d = exec.p.new
    BY <1>1 DEF TypeInv, Typed, ExecutorTypeOK, ImageUpdated
  <2>2. PushDigest(p, d)
    BY <1>1, <2>1 DEF PushDigest
  <2> QED BY <1>1, <2>2, PushKeeps DEF TypeInv, Typed
<1>3. TopicsTypeOK'
  <2>1. [exec.p EXCEPT !.id = task["exec"].new] \in UpdateApplied
    BY <1>1 DEF ImageUpdated, UpdateApplied
  <2>2. qApplied \in Seq(UpdateApplied)
    BY DEF TypeInv, Typed, TopicsTypeOK
  <2>3. qApplied' \in Seq(UpdateApplied)
    BY <1>1, <2>1, <2>2, PublishKeeps
  <2> QED BY <1>1, <2>3 DEF TypeInv, Typed, TopicsTypeOK
<1>4. DeploysTypeOK' /\ ExecutorTypeOK'
  <2>1. PICK k : active' = [active EXCEPT ![k] = 0]
    BY <1>1
  <2>2. active' \in [JobKey -> Nat] /\ \A l \in JobKey : active'[l] <= Len(jobs')
    BY <1>1, <2>1, FinishJobKeeps DEF TypeInv, Typed
  <2>3. ExecutorTypeOK'
    BY <1>1 DEF ExecutorTypeOK, ExecIdle
  <2> QED BY <1>1, <2>2, <2>3 DEF TypeInv, Typed, DeploysTypeOK
<1>5. RecreateTypeOK' /\ task'["exec"] = NoTask /\ task'["rb"] = task["rb"]
  BY <1>1, FinishKeeps DEF Actor
<1>6. TaskKnown(task["exec"])' /\ ExecKnown'
  BY <1>1, <1>2, <1>5, HeapLen, NoTaskKnown
     DEF ExecKnown, ExecIdle, Actor, TypeInv, Typed
<1> QED BY <1>1, <1>2, <1>3, <1>4, <1>5, <1>6, ExecFrame

\* Every step of the executor.
LEMMA ExecTyped == ASSUME TypeInv, Exec PROVE TypeInv'
BY ExecIgnoreTyped, ExecApplyTyped, ExecFailTyped, ExecSucceedTyped,
   ExecRekeyTyped, ExecPublishTyped DEF Exec, ExecutorStep

\* What an action of the rollback engine leaves to be shown.
LEMMA RbFrame ==
    ASSUME TypeInv, Rb, HeapKept, Len(heap') = Len(heap),
           TopicsTypeOK', RecreateTypeOK', RollbackTypeOK',
           UNCHANGED <<ctr, stream>>,
           task'["exec"] = task["exec"], TaskKnown(task["rb"])', RbKnown'
    PROVE  TypeInv'
<1>1. /\ UNCHANGED dockerVars /\ UNCHANGED <<exec, wat, mon, req, lastDigest>>
      /\ UNCHANGED <<spent, lost>> /\ UNCHANGED deployVars
  BY DEF Rb, RollbackStep, dockerVars
<1>2. DockerTypeOK' /\ EventsKnown' /\ Grows
  BY <1>1, DockerStays DEF TypeInv, Typed
<1>3. StoreTypeOK' /\ DownIsEmpty'
  BY <1>1 DEF HeapKept, TypeInv, Typed, DownIsEmpty, StoreTypeOK, dockerVars
<1>4. /\ ExecutorTypeOK' /\ WatcherTypeOK' /\ HealthMonTypeOK' /\ TriggersTypeOK'
      /\ MonKnown' /\ spent' \in Nat /\ lost' \subseteq Name /\ DeploysTypeOK'
  BY <1>1 DEF TypeInv, Typed, ExecutorTypeOK, WatcherTypeOK, HealthMonTypeOK,
     TriggersTypeOK, MonKnown, DeploysTypeOK, deployVars
<1>5. TasksKnown'
  <2>1. TaskKnown(task["exec"])'
    BY <1>2, TaskStays DEF TypeInv, TasksKnown, Actor
  <2> QED BY <2>1 DEF TasksKnown, Actor
<1>6. Len(heap) \in Nat /\ Len(heap') \in Nat /\ Len(heap') >= Len(heap)
  BY HeapLen DEF TypeInv, Typed
<1>7. ExecKnown' /\ WatKnown' /\ ReqsKnown'
  BY <1>1, <1>2, <1>6, ExecStays, WatStays, ReqsStay DEF TypeInv
<1> QED BY <1>2, <1>3, <1>4, <1>5, <1>7 DEF TypeInv, Typed

\* The rollback engine gives a report up.
LEMMA RbAbortTyped == ASSUME TypeInv, Rb, RbAbort PROVE TypeInv'
<1>1. UNCHANGED <<rb, task, storeVars, qImage, qApplied, ctr, stream>>
      /\ qUnhealthy # <<>> /\ qUnhealthy' = Tail(qUnhealthy)
  BY DEF RbAbort, Rb, RollbackStep
<1>2. HeapKept /\ Len(heap') = Len(heap)
  BY <1>1, StoreStays DEF TypeInv, Typed
<1>3. TopicsTypeOK' /\ RecreateTypeOK' /\ RollbackTypeOK'
  BY <1>1 DEF TypeInv, Typed, TopicsTypeOK, RecreateTypeOK, RollbackTypeOK
<1>4. TaskKnown(task["rb"])'
  BY <1>1 DEF TypeInv, TasksKnown, TaskKnown, Actor
<1>5. RbKnown'
  BY <1>1, <1>2 DEF TypeInv, RbKnown
<1> QED BY <1>1, <1>2, <1>3, <1>4, <1>5, RbFrame

\* It starts a Recreate with the previous digest.
LEMMA RbRestoreTyped == ASSUME TypeInv, Rb, RbRestore PROVE TypeInv'
<1>1. /\ UNCHANGED storeVars /\ UNCHANGED <<qImage, qApplied, ctr, stream>>
      /\ qUnhealthy # <<>> /\ qUnhealthy' = Tail(qUnhealthy)
  BY DEF RbRestore, Rb, RollbackStep
<1>2. HeapKept /\ Len(heap') = Len(heap)
  BY <1>1, StoreStays DEF TypeInv, Typed
<1>3. PICK p \in Unhealthy : p = Head(qUnhealthy)
  BY <1>1 DEF TypeInv, Typed, TopicsTypeOK
<1>4. TopicsTypeOK'
  BY <1>1 DEF TypeInv, Typed, TopicsTypeOK
<1>5. rb' = [pc |-> "restore", p |-> p, cs |-> 0] /\ RollbackTypeOK'
  BY <1>3 DEF RbRestore, RollbackTypeOK
<1>6. /\ RecreateTypeOK' /\ task'["exec"] = task["exec"]
      /\ task'["rb"].id = p.id /\ task'["rb"].pc = "inspect" /\ p.id \in Id
  <2>1. Start("rb", p.id, Pin(p.image, p.prev))
    BY <1>3 DEF RbRestore, Start
  <2>2. PICK t : t = [NoTask EXCEPT !.pc = "inspect", !.id = p.id,
                                    !.ref = Pin(p.image, p.prev)]
    OBVIOUS
  <2>3. t \in Task /\ t.id = p.id /\ t.pc = "inspect" /\ p.id \in Id
    BY <2>2, Images DEF NoTask, Task, Call, Unhealthy, Pin
  <2>4. task' = [task EXCEPT !["rb"] = t]
    BY <2>1, <2>2 DEF Start
  <2> QED BY <2>3, <2>4 DEF TypeInv, Typed, RecreateTypeOK, Actor
<1>7. TaskKnown(task["rb"])'
  BY <1>6 DEF TaskKnown
<1>8. RbKnown'
  BY <1>2, <1>5, <1>6, HeapLen DEF RbKnown, TypeInv, Typed
<1> QED BY <1>1, <1>2, <1>4, <1>5, <1>6, <1>7, <1>8, RbFrame

\* Its Recreate failed.
LEMMA RbFailTyped == ASSUME TypeInv, Rb, RbFail PROVE TypeInv'
<1>1. /\ UNCHANGED storeVars
      /\ UNCHANGED <<qImage, qApplied, qUnhealthy, ctr, stream>>
      /\ Finish("rb") /\ rb' = RbIdle
  BY DEF RbFail, Rb, RollbackStep
<1>2. HeapKept /\ Len(heap') = Len(heap)
  BY <1>1, StoreStays DEF TypeInv, Typed
<1>3. TopicsTypeOK' /\ RollbackTypeOK'
  BY <1>1 DEF TypeInv, Typed, TopicsTypeOK, RollbackTypeOK, RbIdle
<1>4. RecreateTypeOK' /\ task'["rb"] = NoTask /\ task'["exec"] = task["exec"]
  BY <1>1, FinishKeeps DEF Actor
<1>5. TaskKnown(task["rb"])' /\ RbKnown'
  BY <1>1, <1>2, <1>4, HeapLen, NoTaskKnown
     DEF RbKnown, RbIdle, Actor, TypeInv, Typed
<1> QED BY <1>1, <1>2, <1>3, <1>4, <1>5, RbFrame

\* Its entry moves to the new id.
LEMMA RbRekeyTyped == ASSUME TypeInv, Rb, RbRekey PROVE TypeInv'
<1>1. /\ UNCHANGED task
      /\ UNCHANGED <<qImage, qApplied, qUnhealthy, ctr, stream>>
      /\ rb.pc = "restore" /\ task["rb"].pc = "done"
      /\ rb' = [rb EXCEPT !.pc = "push", !.cs = keys[rb.p.id]]
      /\ rb.p \in Unhealthy /\ rb.p.id \in Id /\ task["rb"].new \in Id
  BY DEF RbRekey, Rb, RollbackStep, TypeInv, RbKnown, Unhealthy, TasksKnown,
     TaskKnown, Actor
<1>2. HeapKept /\ Len(heap') = Len(heap)
  <2>1. PICK i \in Id, j \in Id : i = rb.p.id /\ j = task["rb"].new
    BY <1>1
  <2>2. Rekey(i, j)
    BY <2>1 DEF RbRekey, Rekey
  <2> QED BY <2>2, RekeyKeeps DEF TypeInv, Typed
<1>3. TopicsTypeOK' /\ RecreateTypeOK' /\ TaskKnown(task["rb"])'
  BY <1>1 DEF TypeInv, Typed, TopicsTypeOK, RecreateTypeOK, TasksKnown,
     TaskKnown, Actor
<1>4. keys[rb.p.id] \in 0..Len(heap) /\ keys[rb.p.id] \in Nat
  BY <1>1, HeapLen DEF TypeInv, Typed, StoreTypeOK, Ptr
<1>5. /\ rb'.pc = "push" /\ rb'.p = rb.p /\ rb'.cs \in 0..Len(heap)
      /\ RollbackTypeOK'
  BY <1>1, <1>4 DEF TypeInv, Typed, RollbackTypeOK, RbKnown
<1>6. RbKnown'
  BY <1>1, <1>2, <1>5 DEF TypeInv, RbKnown
<1> QED BY <1>1, <1>2, <1>3, <1>5, <1>6, RbFrame

\* It pushes the digest it restored, and is idle again.
LEMMA RbPublishTyped == ASSUME TypeInv, Rb, RbPublish PROVE TypeInv'
<1>1. /\ UNCHANGED <<keys, qImage, qApplied, qUnhealthy, ctr, stream>>
      /\ rb.pc = "push" /\ Finish("rb") /\ rb' = RbIdle
      /\ IF rb.cs = 0 THEN UNCHANGED heap ELSE PushDigest(rb.cs, rb.p.prev)
      /\ rb.p \in Unhealthy
  BY DEF RbPublish, Rb, RollbackStep, TypeInv, RbKnown
<1>2. HeapKept /\ Len(heap') = Len(heap)
  <2>1. CASE rb.cs = 0
    BY <1>1, <2>1, StoreStays DEF TypeInv, Typed, storeVars
  <2>2. CASE rb.cs # 0
    <3>1. PICK p \in Nat, d \in Image : p = rb.cs /\ d = rb.p.prev
      BY <1>1 DEF TypeInv, Typed, RollbackTypeOK, Unhealthy
    <3>2. PushDigest(p, d)
      BY <1>1, <2>2, <3>1 DEF PushDigest
    <3> QED BY <1>1, <3>2, PushKeeps DEF TypeInv, Typed
  <2> QED BY <2>1, <2>2
<1>3. TopicsTypeOK' /\ RollbackTypeOK'
  BY <1>1 DEF TypeInv, Typed, TopicsTypeOK, RollbackTypeOK, RbIdle
<1>4. RecreateTypeOK' /\ task'["rb"] = NoTask /\ task'["exec"] = task["exec"]
  BY <1>1, FinishKeeps DEF Actor
<1>5. TaskKnown(task["rb"])' /\ RbKnown'
  BY <1>1, <1>2, <1>4, HeapLen, NoTaskKnown
     DEF RbKnown, RbIdle, Actor, TypeInv, Typed
<1> QED BY <1>1, <1>2, <1>3, <1>4, <1>5, RbFrame

\* Every step of the rollback engine.
LEMMA RbTyped == ASSUME TypeInv, Rb PROVE TypeInv'
BY RbAbortTyped, RbRestoreTyped, RbFailTyped, RbRekeyTyped, RbPublishTyped
   DEF Rb, RollbackStep

\* Taking an event off the stream.
LEMMA EventTaken ==
    ASSUME TypeInv, stream # <<>>
    PROVE  /\ Head(stream) \in Event
           /\ Head(stream).kind # "pull" =>
                  Head(stream).id \in Id /\ ctr[Head(stream).id].st # "none"
           /\ stream' = Tail(stream) /\ ctr' = ctr =>
                  stream' \in Seq(Event) /\ EventsKnown'
<1>1. stream \in Seq(Event)
  BY DEF TypeInv, Typed, DockerTypeOK
<1>2. Head(stream) = stream[1] /\ 1 \in DOMAIN stream /\ Head(stream) \in Event
  BY <1>1
<1>3. ASSUME stream' = Tail(stream), ctr' = ctr
      PROVE  stream' \in Seq(Event) /\ EventsKnown'
  <2>1. /\ stream' \in Seq(Event) /\ Len(stream') = Len(stream) - 1
        /\ \A i \in 1..Len(stream') : stream'[i] = stream[i + 1]
    BY <1>1, <1>3, HeadTailProperties
  <2>2. \A i \in DOMAIN stream' : i + 1 \in DOMAIN stream /\ stream'[i] = stream[i + 1]
    BY <1>1, <2>1
  <2> QED BY <1>3, <2>1, <2>2 DEF EventsKnown, TypeInv
<1> QED BY <1>2, <1>3 DEF EventsKnown, TypeInv

\* What an action of the watcher leaves to be shown.
LEMMA WatFrame ==
    ASSUME TypeInv, Watch, HeapKept,
           stream' \in Seq(Event), EventsKnown',
           qImage' \in Seq(ImageUpdated), qUnhealthy' \in Seq(Unhealthy),
           WatcherTypeOK', WatKnown'
    PROVE  TypeInv'
<1>1. /\ UNCHANGED <<ctr, reg, proc, qApplied>> /\ proc = "up"
      /\ UNCHANGED <<task, exec, rb, mon, req, lastDigest, spent, lost>>
      /\ UNCHANGED deployVars
  BY DEF Watch, WatcherStep
<1>2. DockerTypeOK' /\ Grows
  BY <1>1 DEF TypeInv, Typed, DockerTypeOK, Grows
<1>3. StoreTypeOK' /\ DownIsEmpty' /\ TopicsTypeOK'
  BY <1>1 DEF HeapKept, TypeInv, Typed, DownIsEmpty, TopicsTypeOK
<1>4. /\ ExecutorTypeOK' /\ RollbackTypeOK' /\ HealthMonTypeOK' /\ TriggersTypeOK'
      /\ MonKnown' /\ spent' \in Nat /\ lost' \subseteq Name /\ DeploysTypeOK'
      /\ RecreateTypeOK'
  BY <1>1 DEF TypeInv, Typed, ExecutorTypeOK, RollbackTypeOK, HealthMonTypeOK,
     TriggersTypeOK, MonKnown, DeploysTypeOK, deployVars, RecreateTypeOK
<1>5. TasksKnown'
  BY <1>1 DEF TypeInv, TasksKnown, TaskKnown
<1>6. Len(heap) \in Nat /\ Len(heap') \in Nat /\ Len(heap') >= Len(heap)
  BY HeapLen DEF TypeInv, Typed, HeapKept, StoreTypeOK
<1>7. ExecKnown' /\ RbKnown' /\ ReqsKnown'
  BY <1>1, <1>2, <1>6, ExecStays, RbStays, ReqsStay DEF TypeInv
<1> QED BY <1>2, <1>3, <1>4, <1>5, <1>7 DEF TypeInv, Typed

\* A start event: inspect gives a container that exists.
LEMMA WatStartTyped == ASSUME TypeInv, Watch, WatchStart PROVE TypeInv'
<1>1. /\ stream # <<>> /\ stream' = Tail(stream) /\ ctr' = ctr
      /\ Head(stream).kind = "start" /\ wat.pc = "idle"
      /\ UNCHANGED storeVars /\ UNCHANGED <<qImage, qUnhealthy>>
  BY DEF WatchStart, NextEvent, Watch, WatcherStep
<1>2. PICK ev \in Event : ev = Head(stream) /\ ev.id \in Id
                          /\ ctr[ev.id].st # "none"
  BY <1>1, EventTaken
<1>3. stream' \in Seq(Event) /\ EventsKnown'
  BY <1>1, EventTaken
<1>4. HeapKept
  BY <1>1, StoreStays DEF TypeInv, Typed
<1>5. wat' = IF Present(ev.id)
             THEN [WatIdle EXCEPT !.pc = "upsert", !.id = ev.id,
                                  !.name = ctr[ev.id].name, !.image = ev.dig]
             ELSE wat
  BY <1>2 DEF WatchStart
<1>6. ctr[ev.id].name \in Name /\ ev.dig \in Image
  BY <1>2 DEF TypeInv, Typed, DockerTypeOK, Event
<1>7. WatcherTypeOK' /\ WatKnown'
  <2>1. CASE Present(ev.id)
    BY <1>1, <1>2, <1>5, <1>6, <2>1, Images DEF WatcherTypeOK, WatKnown, WatIdle
  <2>2. CASE ~Present(ev.id)
    BY <1>1, <1>5, <2>2 DEF WatcherTypeOK, WatKnown, TypeInv, Typed
  <2> QED BY <2>1, <2>2
<1>8. qImage' \in Seq(ImageUpdated) /\ qUnhealthy' \in Seq(Unhealthy)
  BY <1>1 DEF TypeInv, Typed, TopicsTypeOK
<1> QED BY <1>3, <1>4, <1>7, <1>8, WatFrame

\* An idle watcher has no locals to be known.
LEMMA WatIdleTyped ==
    ASSUME wat' = WatIdle PROVE WatcherTypeOK' /\ WatKnown'
BY Images DEF WatcherTypeOK, WatKnown, WatIdle

\* What it inspected is upserted.
LEMMA WatUpsertTyped == ASSUME TypeInv, Watch, WatchUpsert PROVE TypeInv'
<1>1. /\ UNCHANGED <<stream, ctr, qImage, qUnhealthy>> /\ wat' = WatIdle
      /\ wat.id \in Id /\ wat.name \in Name /\ wat.image \in Image
  BY DEF WatchUpsert, Watch, WatcherStep, TypeInv, Typed, WatKnown, WatcherTypeOK
<1>2. HeapKept
  <2>1. PICK i \in Id, n \in Name, d \in Image :
          i = wat.id /\ n = wat.name /\ d = wat.image
    BY <1>1
  <2>2. Upsert(i, n, d)
    BY <2>1 DEF WatchUpsert, Upsert
  <2> QED BY <2>2, UpsertKeeps DEF TypeInv, Typed
<1>3. /\ stream' \in Seq(Event) /\ EventsKnown'
      /\ qImage' \in Seq(ImageUpdated) /\ qUnhealthy' \in Seq(Unhealthy)
  BY <1>1 DEF TypeInv, Typed, TopicsTypeOK, DockerTypeOK, EventsKnown
<1> QED BY <1>1, <1>2, <1>3, WatIdleTyped, WatFrame

\* A destroy event.
LEMMA WatDestroyTyped == ASSUME TypeInv, Watch, WatchDestroy PROVE TypeInv'
<1>1. /\ stream # <<>> /\ stream' = Tail(stream) /\ ctr' = ctr
      /\ Head(stream).kind = "destroy"
      /\ UNCHANGED <<heap, wat, qImage, qUnhealthy>>
  BY DEF WatchDestroy, NextEvent, Watch, WatcherStep, Remove
<1>2. stream' \in Seq(Event) /\ EventsKnown' /\ Head(stream).id \in Id
  BY <1>1, EventTaken
<1>3. HeapKept
  <2>1. PICK i \in Id : i = Head(stream).id
    BY <1>2
  <2>2. Remove(i)
    BY <2>1 DEF WatchDestroy, Remove
  <2> QED BY <2>2, ForgetKeeps DEF TypeInv, Typed
<1>4. WatcherTypeOK' /\ WatKnown'
  BY <1>1 DEF TypeInv, Typed, WatcherTypeOK, WatKnown, Ptr
<1>5. qImage' \in Seq(ImageUpdated) /\ qUnhealthy' \in Seq(Unhealthy)
  BY <1>1 DEF TypeInv, Typed, TopicsTypeOK
<1> QED BY <1>2, <1>3, <1>4, <1>5, WatFrame

\* What is read from a ring is a digest or nothing.
LEMMA RingReads ==
    ASSUME StoreTypeOK, NEW p \in 1..Len(heap)
    PROVE  /\ CurrentDigest(p) \in Image /\ PreviousDigest(p) \in Image
           /\ heap[p] \in Entry
<1>0. heap[p] \in Entry
  BY DEF StoreTypeOK
<1>1. heap[p] \in Entry /\ heap[p].hist \in Seq(Image)
  BY <1>0 DEF Entry
<1>2. PICK h \in Seq(Image) : h = heap[p].hist
  BY <1>1
<1>3. h # <<>> => h[1] \in Image
  BY <1>2
<1>4. Len(h) >= 2 => h[2] \in Image
  BY <1>2
<1>5. CurrentDigest(p) \in Image
  BY <1>2, <1>3, Images DEF CurrentDigest
<1>6. PreviousDigest(p) \in Image
  BY <1>2, <1>4, Images DEF PreviousDigest
<1> QED BY <1>1, <1>5, <1>6

\* A tracked state is on the heap.
LEMMA TrackedOnHeap == ASSUME StoreTypeOK PROVE Tracked \subseteq 1..Len(heap)
BY DEF StoreTypeOK, Tracked, Ptr

\* An unhealthy event: the entry's pointer is kept.
LEMMA WatUnhealthyTyped == ASSUME TypeInv, Watch, WatchUnhealthy PROVE TypeInv'
<1>1. /\ stream # <<>> /\ stream' = Tail(stream) /\ ctr' = ctr
      /\ Head(stream).kind = "unhealthy"
      /\ UNCHANGED storeVars /\ UNCHANGED <<qImage, qUnhealthy>>
  BY DEF WatchUnhealthy, NextEvent, Watch, WatcherStep
<1>2. stream' \in Seq(Event) /\ EventsKnown' /\ Head(stream).id \in Id
  BY <1>1, EventTaken
<1>3. HeapKept
  BY <1>1, StoreStays DEF TypeInv, Typed
<1>4. WatcherTypeOK' /\ WatKnown'
  <2>1. PICK cs \in Nat : cs = keys[Head(stream).id]
    BY <1>2 DEF TypeInv, Typed, StoreTypeOK
  <2>2. wat' = IF cs = 0 THEN wat
               ELSE [WatIdle EXCEPT !.pc = "report", !.todo = {cs},
                                    !.applied = CurrentDigest(cs)]
    BY <2>1 DEF WatchUnhealthy
  <2>3. CASE cs = 0
    BY <1>1, <2>2, <2>3 DEF TypeInv, Typed, WatcherTypeOK, WatKnown, Ptr, storeVars
  <2>4. CASE cs # 0
    <3>1. cs \in 1..Len(heap)
      BY <1>2, <2>1, <2>4 DEF TypeInv, Typed, StoreTypeOK, Ptr
    <3>2. CurrentDigest(cs) \in Image
      BY <3>1, RingReads DEF TypeInv, Typed
    <3>3. heap' = heap
      BY <1>1 DEF storeVars
    <3> QED BY <2>2, <2>4, <3>1, <3>2, <3>3, Images
            DEF WatcherTypeOK, WatKnown, WatIdle, Ptr
  <2> QED BY <2>3, <2>4
<1>5. qImage' \in Seq(ImageUpdated) /\ qUnhealthy' \in Seq(Unhealthy)
  BY <1>1 DEF TypeInv, Typed, TopicsTypeOK
<1> QED BY <1>2, <1>3, <1>4, <1>5, WatFrame

\* The report's id and digests are read and published.
LEMMA WatReportTyped == ASSUME TypeInv, Watch, WatchReport PROVE TypeInv'
<1>1. /\ UNCHANGED <<stream, ctr, qImage>> /\ UNCHANGED storeVars
      /\ wat' = WatIdle /\ wat.pc = "report"
  BY DEF WatchReport, Watch, WatcherStep
<1>2. HeapKept
  BY <1>1, StoreStays DEF TypeInv, Typed
<1>3. PICK cs \in wat.todo :
        qUnhealthy' = Publish(qUnhealthy,
            [id |-> heap[cs].id, name |-> heap[cs].name,
             image |-> heap[cs].image,
             applied |-> wat.applied, prev |-> PreviousDigest(cs)])
  BY DEF WatchReport
<1>4. cs \in 1..Len(heap)
  BY <1>1, <1>3 DEF TypeInv, WatKnown, Ptr
<1>5. PICK m \in Unhealthy :
        m = [id |-> heap[cs].id, name |-> heap[cs].name,
             image |-> heap[cs].image,
             applied |-> wat.applied, prev |-> PreviousDigest(cs)]
  <2>1. heap[cs] \in Entry /\ PreviousDigest(cs) \in Image /\ wat.applied \in Image
    BY <1>4, RingReads DEF TypeInv, Typed, WatcherTypeOK
  <2> QED BY <2>1 DEF Entry, Unhealthy
<1>6. qUnhealthy' \in Seq(Unhealthy)
  BY <1>3, <1>5, PublishKeeps DEF TypeInv, Typed, TopicsTypeOK
<1>7. stream' \in Seq(Event) /\ EventsKnown' /\ qImage' \in Seq(ImageUpdated)
  BY <1>1 DEF TypeInv, Typed, TopicsTypeOK, DockerTypeOK, EventsKnown
<1> QED BY <1>1, <1>2, <1>6, <1>7, WatIdleTyped, WatFrame

\* A pull event: the matching entries are gathered.
LEMMA WatPullTyped == ASSUME TypeInv, Watch, WatchPull PROVE TypeInv'
<1>1. /\ stream # <<>> /\ stream' = Tail(stream) /\ ctr' = ctr
      /\ UNCHANGED storeVars /\ UNCHANGED <<qImage, qUnhealthy>>
  BY DEF WatchPull, NextEvent, Watch, WatcherStep
<1>2. stream' \in Seq(Event) /\ EventsKnown' /\ Head(stream) \in Event
  BY <1>1, EventTaken
<1>3. HeapKept
  BY <1>1, StoreStays DEF TypeInv, Typed
<1>4. WatcherTypeOK' /\ WatKnown'
  <2> DEFINE todo == {p \in Tracked : heap[p].name = Head(stream).name}
  <2>1. wat' = [WatIdle EXCEPT !.pc = "pull", !.name = Head(stream).name,
                               !.image = Head(stream).dig, !.todo = todo]
    BY DEF WatchPull
  <2>2. todo \subseteq 1..Len(heap) /\ todo \subseteq Nat /\ heap' = heap
    BY <1>1, TrackedOnHeap, HeapLen DEF TypeInv, Typed, storeVars
  <2>3. Head(stream).name \in Name /\ Head(stream).dig \in Image
    BY <1>2 DEF Event
  <2> HIDE DEF todo
  <2> QED BY <2>1, <2>2, <2>3, Images DEF WatcherTypeOK, WatKnown, WatIdle, Ptr
<1>5. qImage' \in Seq(ImageUpdated) /\ qUnhealthy' \in Seq(Unhealthy)
  BY <1>1 DEF TypeInv, Typed, TopicsTypeOK
<1> QED BY <1>2, <1>3, <1>4, <1>5, WatFrame

\* One of them is published about.
LEMMA WatPullOneTyped == ASSUME TypeInv, Watch, WatchPullOne PROVE TypeInv'
<1>1. /\ UNCHANGED <<stream, ctr, qUnhealthy>> /\ UNCHANGED storeVars
      /\ wat.pc = "pull"
  BY DEF WatchPullOne, Watch, WatcherStep
<1>2. HeapKept
  BY <1>1, StoreStays DEF TypeInv, Typed
<1>3. PICK p \in wat.todo :
        /\ wat' = [wat EXCEPT !.todo = wat.todo \ {p}]
        /\ qImage' = IF CurrentDigest(p) = wat.image THEN qImage
                     ELSE Publish(qImage, [id |-> heap[p].id,
                                           name |-> heap[p].name,
                                           image |-> NoDigest,
                                           new |-> wat.image])
  BY DEF WatchPullOne
<1>4. p \in 1..Len(heap)
  BY <1>1, <1>3 DEF TypeInv, WatKnown, Ptr
<1>5. PICK m \in ImageUpdated :
        m = [id |-> heap[p].id, name |-> heap[p].name,
             image |-> NoDigest, new |-> wat.image]
  <2>1. heap[p] \in Entry /\ wat.image \in Image
    BY <1>4, RingReads DEF TypeInv, Typed, WatcherTypeOK
  <2> QED BY <2>1, Images DEF Entry, ImageUpdated
<1>6. qImage' \in Seq(ImageUpdated)
  <2>1. qImage \in Seq(ImageUpdated) /\ Publish(qImage, m) \in Seq(ImageUpdated)
    BY PublishKeeps DEF TypeInv, Typed, TopicsTypeOK
  <2> QED BY <1>3, <1>5, <2>1
<1>7. WatcherTypeOK' /\ WatKnown'
  BY <1>1, <1>3 DEF TypeInv, Typed, WatcherTypeOK, WatKnown, Ptr, storeVars
<1>8. stream' \in Seq(Event) /\ EventsKnown' /\ qUnhealthy' \in Seq(Unhealthy)
  BY <1>1 DEF TypeInv, Typed, TopicsTypeOK, DockerTypeOK, EventsKnown
<1> QED BY <1>2, <1>6, <1>7, <1>8, WatFrame

\* None is left.
LEMMA WatPullDoneTyped == ASSUME TypeInv, Watch, WatchPullDone PROVE TypeInv'
<1>1. /\ UNCHANGED <<stream, ctr, qImage, qUnhealthy>> /\ UNCHANGED storeVars
      /\ wat' = WatIdle
  BY DEF WatchPullDone, Watch, WatcherStep
<1>2. HeapKept
  BY <1>1, StoreStays DEF TypeInv, Typed
<1>3. /\ stream' \in Seq(Event) /\ EventsKnown'
      /\ qImage' \in Seq(ImageUpdated) /\ qUnhealthy' \in Seq(Unhealthy)
  BY <1>1 DEF TypeInv, Typed, TopicsTypeOK, DockerTypeOK, EventsKnown
<1> QED BY <1>1, <1>2, <1>3, WatIdleTyped, WatFrame

\* Every step of the watcher.
LEMMA WatchTyped == ASSUME TypeInv, Watch PROVE TypeInv'
BY WatStartTyped, WatUpsertTyped, WatDestroyTyped, WatUnhealthyTyped,
   WatReportTyped, WatPullTyped, WatPullOneTyped, WatPullDoneTyped
   DEF Watch, WatcherStep

\* The health monitor.
LEMMA MonitorTyped == ASSUME TypeInv, Monitor PROVE TypeInv'
<1>1. /\ UNCHANGED dockerVars /\ UNCHANGED storeVars /\ qImage' = qImage
      /\ UNCHANGED deployVars
      /\ UNCHANGED <<task, exec, rb, wat, req, lastDigest, spent, lost>>
  BY DEF Monitor, HealthMonStep
<1>2. DockerTypeOK' /\ EventsKnown' /\ Grows
  BY <1>1, DockerStays DEF TypeInv, Typed
<1>3. StoreTypeOK' /\ DownIsEmpty' /\ HeapKept /\ Len(heap') = Len(heap)
  <2>1. HeapKept /\ Len(heap') = Len(heap)
    BY <1>1, StoreStays DEF TypeInv, Typed
  <2> QED BY <1>1, <2>1 DEF HeapKept, TypeInv, DownIsEmpty, dockerVars, storeVars
<1>4. /\ ExecutorTypeOK' /\ RollbackTypeOK' /\ WatcherTypeOK' /\ TriggersTypeOK'
      /\ spent' \in Nat /\ lost' \subseteq Name /\ DeploysTypeOK'
      /\ RecreateTypeOK' /\ TasksKnown'
  BY <1>1 DEF TypeInv, Typed, ExecutorTypeOK, RollbackTypeOK, WatcherTypeOK,
     TriggersTypeOK, DeploysTypeOK, deployVars, RecreateTypeOK, TasksKnown,
     TaskKnown, dockerVars
<1>5. Len(heap) \in Nat /\ Len(heap') \in Nat /\ Len(heap') >= Len(heap)
  BY <1>3, HeapLen DEF TypeInv, Typed
<1>6. ExecKnown' /\ RbKnown' /\ ReqsKnown' /\ WatKnown'
  BY <1>1, <1>2, <1>5, ExecStays, RbStays, ReqsStay, WatStays DEF TypeInv
<1>7. TopicsTypeOK' /\ HealthMonTypeOK' /\ MonKnown'
  <2>0. /\ qImage \in Seq(ImageUpdated) /\ qApplied \in Seq(UpdateApplied)
        /\ qUnhealthy \in Seq(Unhealthy) /\ HealthMonTypeOK /\ MonKnown
    BY DEF TypeInv, Typed, TopicsTypeOK
  <2>1. CASE MonStart
    <3>1. qApplied # <<>> /\ qApplied' = Tail(qApplied) /\ qUnhealthy' = qUnhealthy
      BY <2>1 DEF MonStart
    <3>2. PICK p \in UpdateApplied : p = Head(qApplied)
      BY <2>0, <3>1
    <3>3. mon' = [mon EXCEPT ![p.id] = [pc |-> "watching", name |-> p.name,
                                        image |-> p.image, new |-> p.new]]
      BY <2>1, <3>2 DEF MonStart
    <3> QED BY <1>1, <2>0, <3>1, <3>2, <3>3
            DEF TopicsTypeOK, HealthMonTypeOK, MonKnown, UpdateApplied
  <2>2. CASE \E i \in Id : MonDetect(i)
    <3>1. UNCHANGED <<qApplied, qUnhealthy>>
      BY <2>2 DEF MonDetect
    <3>2. PICK i \in Id : mon[i].pc = "watching" /\ mon' = [mon EXCEPT ![i].pc = "report"]
      BY <2>2 DEF MonDetect
    <3> QED BY <1>1, <2>0, <3>1, <3>2 DEF TopicsTypeOK, HealthMonTypeOK, MonKnown
  <2>3. CASE \E i \in Id : MonReport(i)
    <3>1. PICK i \in Id, d \in Image :
            /\ mon[i].pc = "report"
            /\ qUnhealthy' = Publish(qUnhealthy,
                   [id |-> i, name |-> mon[i].name, image |-> mon[i].image,
                    applied |-> mon[i].new, prev |-> d])
            /\ mon' = [mon EXCEPT ![i] = MonOff]
            /\ qApplied' = qApplied
      <4>1. PICK i \in Id : MonReport(i)
        BY <2>3
      <4>2. keys[i] # 0 => PreviousDigest(keys[i]) \in Image
        BY RingReads DEF TypeInv, Typed, StoreTypeOK, Ptr
      <4> QED BY <4>1, <4>2, Images DEF MonReport
    <3>2. PICK m \in Unhealthy :
            m = [id |-> i, name |-> mon[i].name, image |-> mon[i].image,
                 applied |-> mon[i].new, prev |-> d]
      BY <2>0, <3>1 DEF HealthMonTypeOK, MonKnown, Unhealthy
    <3>3. qUnhealthy' \in Seq(Unhealthy)
      BY <2>0, <3>1, <3>2, PublishKeeps
    <3> QED BY <1>1, <2>0, <3>1, <3>3, Images
            DEF TopicsTypeOK, HealthMonTypeOK, MonKnown, MonOff
  <2>4. CASE \E i \in Id : MonExpire(i)
    <3>1. UNCHANGED <<qApplied, qUnhealthy>>
          /\ \E i \in Id : mon' = [mon EXCEPT ![i] = MonOff]
      BY <2>4 DEF MonExpire
    <3> QED BY <1>1, <2>0, <3>1, Images
            DEF TopicsTypeOK, HealthMonTypeOK, MonKnown, MonOff
  <2> QED BY <2>1, <2>2, <2>3, <2>4 DEF Monitor, HealthMonStep
<1> QED BY <1>2, <1>3, <1>4, <1>6, <1>7 DEF TypeInv, Typed

\* What a request goroutine never touches.
Around == /\ UNCHANGED dockerVars
          /\ UNCHANGED <<qApplied, task, exec, rb, wat, mon, lost>>
          /\ spent' \in Nat

\* What a step of a request goroutine leaves to be shown.
LEMMA ReqFrame ==
    ASSUME TypeInv, Around, NEW s \in Slot, NEW r \in Request, ReqKnown(r),
           req' = [req EXCEPT ![s] = r],
           HeapKept, Len(heap') = Len(heap),
           qImage' \in Seq(ImageUpdated), qUnhealthy' \in Seq(Unhealthy),
           DeploysTypeOK', lastDigest' \in [Name -> Image]
    PROVE  TypeInv'
<1>1. DockerTypeOK' /\ EventsKnown' /\ Grows
  BY DockerStays DEF TypeInv, Typed, Around
<1>2. StoreTypeOK' /\ DownIsEmpty'
  BY DEF HeapKept, TypeInv, Typed, DownIsEmpty, Around, dockerVars, StoreTypeOK
<1>3. TopicsTypeOK' /\ TriggersTypeOK'
  BY DEF Around, TypeInv, Typed, TopicsTypeOK, TriggersTypeOK
<1>4. /\ RecreateTypeOK' /\ ExecutorTypeOK' /\ RollbackTypeOK' /\ WatcherTypeOK'
      /\ HealthMonTypeOK' /\ MonKnown' /\ spent' \in Nat /\ lost' \subseteq Name
  BY DEF Around, TypeInv, Typed, RecreateTypeOK, ExecutorTypeOK, RollbackTypeOK,
     WatcherTypeOK, HealthMonTypeOK, MonKnown
<1>5. TasksKnown'
  BY DEF Around, TypeInv, TasksKnown, TaskKnown, dockerVars
<1>6. Len(heap) \in Nat /\ Len(heap') \in Nat /\ Len(heap') >= Len(heap)
  BY HeapLen DEF TypeInv, Typed
<1>7. ExecKnown' /\ RbKnown' /\ WatKnown'
  BY <1>1, <1>6, ExecStays, RbStays, WatStays DEF TypeInv, Around
<1>8. ReqsKnown'
  <2>1. ASSUME NEW t \in Slot PROVE ReqKnown(req[t])'
    <3>1. CASE t = s
      <4>1. req'[t] = r
        BY <3>1 DEF TypeInv, Typed, TriggersTypeOK
      <4> QED BY <4>1 DEF ReqKnown, Ptr
    <3>2. CASE t # s
      <4>1. req'[t] = req[t]
        BY <3>2 DEF TypeInv, Typed, TriggersTypeOK
      <4> QED BY <4>1 DEF TypeInv, ReqsKnown, ReqKnown, Ptr
    <3> QED BY <3>1, <3>2
  <2> QED BY <2>1 DEF ReqsKnown
<1> QED BY <1>1, <1>2, <1>3, <1>4, <1>5, <1>7, <1>8 DEF TypeInv, Typed

\* A step that only moves the goroutine.
LEMMA ReqMoves ==
    ASSUME TypeInv, Around, NEW s \in Slot, NEW r \in Request, ReqKnown(r),
           req' = [req EXCEPT ![s] = r],
           UNCHANGED storeVars, UNCHANGED deployVars,
           UNCHANGED <<lastDigest, qImage, qUnhealthy>>
    PROVE  TypeInv'
<1>1. HeapKept /\ Len(heap') = Len(heap)
  BY StoreStays DEF TypeInv, Typed
<1>2. /\ qImage' \in Seq(ImageUpdated) /\ qUnhealthy' \in Seq(Unhealthy)
      /\ DeploysTypeOK' /\ lastDigest' \in [Name -> Image]
  BY DEF TypeInv, Typed, TopicsTypeOK, DeploysTypeOK, deployVars, TriggersTypeOK
<1> QED BY <1>1, <1>2, ReqFrame

\* A free request slot.
LEMMA NoReqOK == ASSUME TypeInv PROVE NoReq \in Request /\ ReqKnown(NoReq)
BY Images, HeapLen DEF NoReq, Request, ReqKnown, TypeInv, Typed

\* A slot that takes a request that is known.
LEMMA ReqOK ==
    ASSUME TypeInv, NEW s \in Slot
    PROVE  req[s] \in Request /\ ReqKnown(req[s])
BY DEF TypeInv, Typed, TriggersTypeOK, ReqsKnown

\* Register adds a job.
LEMMA RegisterKeeps ==
    ASSUME DeploysTypeOK, NEW k \in JobKey,
           Register(k, "queued"), UNCHANGED rows
    PROVE  DeploysTypeOK'
<1>1. PICK j \in Job : j = [key |-> k, status |-> "queued"]
  BY DEF Job
<1>2. jobs' = Append(jobs, j) /\ active' = [active EXCEPT ![k] = Len(jobs) + 1]
  BY <1>1 DEF Register
<1>3. jobs' \in Seq(Job) /\ Len(jobs') = Len(jobs) + 1 /\ Len(jobs) \in Nat
  BY <1>2, AppendProperties DEF DeploysTypeOK
<1>4. active' \in [JobKey -> Nat] /\ \A l \in JobKey : active'[l] <= Len(jobs')
  BY <1>2, <1>3 DEF DeploysTypeOK
<1> QED BY <1>3, <1>4 DEF DeploysTypeOK

\* A registry push: its matching entries, a job each.
LEMMA PushBeginTyped ==
    ASSUME TypeInv, Around, NEW s \in Slot, NEW n \in Name, NEW d \in Digest,
           PushBegin(s, n, d)
    PROVE  TypeInv'
<1>1. CASE PushRefused(n)
  <2>1. req' = [req EXCEPT ![s] = req[s]]
    BY <1>1 DEF PushBegin, TypeInv, Typed, TriggersTypeOK
  <2>2. DeploysTypeOK'
    <3>1. UNCHANGED <<jobs, active>> /\ rows' = Append(rows, "skipped")
      BY <1>1 DEF PushBegin, RecordRow
    <3>2. "skipped" \in RowStatus /\ DeploysTypeOK
      BY DEF RowStatus, TypeInv, Typed
    <3> QED BY <3>1, <3>2 DEF DeploysTypeOK
  <2>3. HeapKept /\ Len(heap') = Len(heap)
    BY StoreStays DEF PushBegin, TypeInv, Typed
  <2>4. /\ qImage' \in Seq(ImageUpdated) /\ qUnhealthy' \in Seq(Unhealthy)
        /\ lastDigest' \in [Name -> Image]
    BY DEF PushBegin, TypeInv, Typed, TopicsTypeOK, TriggersTypeOK
  <2>5. PICK r \in Request : r = req[s] /\ ReqKnown(r)
    BY ReqOK
  <2>6. req' = [req EXCEPT ![s] = r]
    BY <2>1, <2>5
  <2> QED BY <2>2, <2>3, <2>4, <2>5, <2>6, ReqFrame
<1>2. CASE ~PushRefused(n)
  <2>1. PICK todo : todo = Matching(n)
    OBVIOUS
  <2>2. todo \subseteq 1..Len(heap) /\ todo \subseteq Nat
    BY <2>1, TrackedOnHeap, HeapLen DEF TypeInv, Typed, Matching
  <2>3. PICK r : r = [NoReq EXCEPT !.pc = "send", !.kind = "push", !.name = n,
                                   !.dig = d, !.todo = todo]
    OBVIOUS
  <2>4. r \in Request /\ ReqKnown(r)
    <3>1. /\ r.pc = "send" /\ r.kind = "push" /\ r.name = n /\ r.dig = d
          /\ r.p = 0 /\ r.todo = todo /\ r.cur = NoDigest
      BY <2>3 DEF NoReq
    <3>2. r \in Request
      BY <2>2, <2>3, Images DEF NoReq, Request
    <3> QED BY <2>2, <3>1, <3>2, HeapLen DEF ReqKnown, Ptr, TypeInv, Typed
  <2>5. req' = [req EXCEPT ![s] = r]
    BY <1>2, <2>1, <2>3 DEF PushBegin, Set
  <2>6. /\ UNCHANGED storeVars /\ UNCHANGED deployVars
        /\ UNCHANGED <<lastDigest, qImage, qUnhealthy>>
    BY <1>2 DEF PushBegin, deployVars
  <2> QED BY <2>4, <2>5, <2>6, ReqMoves
<1> QED BY <1>1, <1>2

\* A Docker Hub push.
LEMMA HubBeginTyped ==
    ASSUME TypeInv, Around, NEW s \in Slot, NEW n \in Name, HubBegin(s, n)
    PROVE  TypeInv'
<1>1. PICK todo : todo = IF n \in PollMode THEN {} ELSE Matching(n)
  OBVIOUS
<1>2. todo \subseteq 1..Len(heap) /\ todo \subseteq Nat
  BY <1>1, TrackedOnHeap, HeapLen DEF TypeInv, Typed, Matching
<1>3. PICK r : r = [NoReq EXCEPT !.pc = "send", !.kind = "hub", !.name = n,
                                 !.todo = todo]
  OBVIOUS
<1>4. r \in Request /\ ReqKnown(r)
  <2>1. r.pc = "send" /\ r.name = n /\ r.p = 0 /\ r.todo = todo
    BY <1>3 DEF NoReq
  <2>2. r \in Request
    BY <1>2, <1>3, Images DEF NoReq, Request
  <2> QED BY <1>2, <2>1, <2>2, HeapLen DEF ReqKnown, Ptr, TypeInv, Typed
<1>5. req' = [req EXCEPT ![s] = r]
  BY <1>1, <1>3 DEF HubBegin, Set
<1>6. /\ UNCHANGED storeVars /\ UNCHANGED deployVars
      /\ UNCHANGED <<lastDigest, qImage, qUnhealthy>>
  BY DEF HubBegin
<1> QED BY <1>4, <1>5, <1>6, ReqMoves

\* The webhook publishes one of its updates.
LEMMA SendOneTyped ==
    ASSUME TypeInv, Around, NEW s \in Slot, SendOne(s) PROVE TypeInv'
<1>1. PICK q \in Request : q = req[s] /\ ReqKnown(q)
  BY ReqOK
<1>2. PICK p \in q.todo :
        /\ req' = [req EXCEPT ![s] = [q EXCEPT !.todo = q.todo \ {p}]]
        /\ qImage' = Publish(qImage, [id |-> heap[p].id, name |-> heap[p].name,
                                      image |-> NoDigest, new |-> q.dig])
  BY <1>1 DEF SendOne, Set
<1>3. q.pc = "send" /\ p \in 1..Len(heap)
  BY <1>1, <1>2 DEF SendOne, ReqKnown, Ptr
<1>4. PICK r : r = [q EXCEPT !.todo = q.todo \ {p}]
  OBVIOUS
<1>5. r \in Request /\ ReqKnown(r)
  BY <1>1, <1>3, <1>4 DEF Request, ReqKnown
<1>6. PICK m \in ImageUpdated :
        m = [id |-> heap[p].id, name |-> heap[p].name,
             image |-> NoDigest, new |-> q.dig]
  <2>1. heap[p] \in Entry
    BY <1>3, RingReads DEF TypeInv, Typed
  <2> QED BY <2>1, Images DEF Entry, ImageUpdated, Request
<1>7. qImage' \in Seq(ImageUpdated)
  BY <1>2, <1>6, PublishKeeps DEF TypeInv, Typed, TopicsTypeOK
<1>8. HeapKept /\ Len(heap') = Len(heap)
  BY StoreStays DEF SendOne, TypeInv, Typed
<1>9. /\ qUnhealthy' \in Seq(Unhealthy) /\ DeploysTypeOK'
      /\ lastDigest' \in [Name -> Image]
  BY DEF SendOne, TypeInv, Typed, TopicsTypeOK, DeploysTypeOK, deployVars,
     TriggersTypeOK
<1> QED BY <1>2, <1>4, <1>5, <1>7, <1>8, <1>9, ReqFrame

\* The webhook has published them all and registers the job it answers with.
LEMMA SendDoneTyped ==
    ASSUME TypeInv, Around, NEW s \in Slot, SendDone(s) PROVE TypeInv'
<1>1. PICK r \in Request : r = NoReq /\ ReqKnown(r)
  BY NoReqOK
<1>2. req' = [req EXCEPT ![s] = r]
  BY <1>1 DEF SendDone, Set
<1>3. DeploysTypeOK'
  <2>0. DeploysTypeOK /\ rows' = rows
    BY DEF SendDone, TypeInv, Typed
  <2>1. CASE req[s].kind = "push"
    <3>1. req[s].name \in Name
      BY ReqOK DEF SendDone, ReqKnown
    <3>2. PICK k \in JobKey : k = <<"image", req[s].name>>
      BY <3>1 DEF JobKey
    <3>3. Register(k, "queued")
      BY <2>1, <3>2 DEF SendDone, Register
    <3> QED BY <2>0, <3>3, RegisterKeeps
  <2>2. CASE req[s].kind # "push"
    BY <2>0, <2>2 DEF SendDone, DeploysTypeOK
  <2> QED BY <2>1, <2>2
<1>4. HeapKept /\ Len(heap') = Len(heap)
  BY StoreStays DEF SendDone, TypeInv, Typed
<1>5. /\ qImage' \in Seq(ImageUpdated) /\ qUnhealthy' \in Seq(Unhealthy)
      /\ lastDigest' \in [Name -> Image]
  BY DEF SendDone, TypeInv, Typed, TopicsTypeOK, TriggersTypeOK
<1> QED BY <1>1, <1>2, <1>3, <1>4, <1>5, ReqFrame

\* The poller's sweep over the store.
LEMMA SweepBeginTyped ==
    ASSUME TypeInv, Around, NEW s \in Slot, SweepBegin(s) PROVE TypeInv'
<1>1. PICK todo : todo = {p \in Tracked : heap[p].name \notin Service}
  OBVIOUS
<1>2. todo \subseteq 1..Len(heap) /\ todo \subseteq Nat
  BY <1>1, TrackedOnHeap, HeapLen DEF TypeInv, Typed
<1>3. PICK r : r = [NoReq EXCEPT !.pc = "sweep", !.kind = "sweep", !.todo = todo]
  OBVIOUS
<1>4. r \in Request /\ ReqKnown(r)
  <2>1. r.pc = "sweep" /\ r.p = 0 /\ r.todo = todo
    BY <1>3 DEF NoReq
  <2>2. r \in Request
    BY <1>2, <1>3, Images DEF NoReq, Request
  <2> QED BY <1>2, <2>1, <2>2, HeapLen DEF ReqKnown, Ptr, TypeInv, Typed
<1>5. req' = [req EXCEPT ![s] = r]
  BY <1>1, <1>3 DEF SweepBegin, Set
<1> QED BY <1>4, <1>5, ReqMoves DEF SweepBegin

\* The sweep asks the registry about one entry.
LEMMA SweepHeadTyped ==
    ASSUME TypeInv, Around, NEW s \in Slot, SweepHead(s) PROVE TypeInv'
<1>1. PICK q \in Request : q = req[s] /\ ReqKnown(q)
  BY ReqOK
<1>a. PICK p \in q.todo : \E r :
        /\ req' = [req EXCEPT ![s] = r]
        /\ \/ r = [q EXCEPT !.pc = "read", !.p = p, !.todo = q.todo \ {p},
                            !.dig = reg[heap[p].name]]
           \/ r = [q EXCEPT !.todo = q.todo \ {p}]
  BY <1>1 DEF SweepHead, Set
<1>2. PICK r :
        /\ req' = [req EXCEPT ![s] = r]
        /\ \/ r = [q EXCEPT !.pc = "read", !.p = p, !.todo = q.todo \ {p},
                            !.dig = reg[heap[p].name]]
           \/ r = [q EXCEPT !.todo = q.todo \ {p}]
  BY <1>a
<1>3. /\ q.pc = "sweep" /\ p \in 1..Len(heap) /\ p \in Nat
      /\ q.todo \ {p} \subseteq 1..Len(heap) /\ q.todo \ {p} \in SUBSET Nat
      /\ q.p \in 0..Len(heap)
  BY <1>1, <1>2, HeapLen DEF SweepHead, ReqKnown, Ptr, TypeInv, Typed
<1>4. reg[heap[p].name] \in Image
  <2>1. heap[p].name \in Name
    BY <1>3, RingReads DEF TypeInv, Typed, Entry
  <2> QED BY <2>1, Images DEF TypeInv, Typed, DockerTypeOK
<1>5. CASE r = [q EXCEPT !.pc = "read", !.p = p, !.todo = q.todo \ {p},
                         !.dig = reg[heap[p].name]]
  <2>1. r.pc = "read" /\ r.p = p /\ r.todo = q.todo \ {p}
    BY <1>1, <1>5 DEF Request
  <2>2. r \in Request
    BY <1>1, <1>3, <1>4, <1>5 DEF Request
  <2>3. ReqKnown(r)
    BY <1>3, <2>1 DEF ReqKnown, Ptr
  <2> QED BY <1>2, <2>2, <2>3, ReqMoves DEF SweepHead
<1>6. CASE r = [q EXCEPT !.todo = q.todo \ {p}]
  <2>1. r.pc = "sweep" /\ r.p = q.p /\ r.todo = q.todo \ {p}
    BY <1>1, <1>3, <1>6 DEF Request
  <2>2. r \in Request
    BY <1>1, <1>3, <1>6 DEF Request
  <2>3. ReqKnown(r)
    BY <1>3, <2>1 DEF ReqKnown, Ptr
  <2> QED BY <1>2, <2>2, <2>3, ReqMoves DEF SweepHead
<1> QED BY <1>2, <1>5, <1>6

\* The sweep ends.
LEMMA SweepDoneTyped ==
    ASSUME TypeInv, Around, NEW s \in Slot, SweepDone(s) PROVE TypeInv'
<1>1. PICK r \in Request : r = NoReq /\ ReqKnown(r)
  BY NoReqOK
<1>2. req' = [req EXCEPT ![s] = r]
  BY <1>1 DEF SweepDone, Set
<1> QED BY <1>1, <1>2, ReqMoves DEF SweepDone

\* The poller's check of a configured service.
LEMMA ServiceBeginTyped ==
    ASSUME TypeInv, Around, NEW s \in Slot, NEW n \in Name, ServiceBegin(s, n)
    PROVE  TypeInv'
<1>1. PICK r : r = [NoReq EXCEPT !.pc = "head", !.kind = "service", !.name = n,
                                 !.cur = lastDigest[n]]
  OBVIOUS
<1>2. lastDigest[n] \in Image
  BY DEF TypeInv, Typed, TriggersTypeOK
<1>3. r \in Request /\ ReqKnown(r)
  <2>1. /\ r.pc = "head" /\ r.kind = "service" /\ r.name = n
        /\ r.p = 0 /\ r.todo = {}
    BY <1>1 DEF NoReq
  <2>2. r \in Request
    BY <1>1, <1>2, Images DEF NoReq, Request
  <2> QED BY <2>1, <2>2, HeapLen DEF ReqKnown, Ptr, TypeInv, Typed
<1>4. req' = [req EXCEPT ![s] = r]
  BY <1>1 DEF ServiceBegin, Set
<1> QED BY <1>3, <1>4, ReqMoves DEF ServiceBegin

\* That check asks the registry.
LEMMA ServiceHeadTyped ==
    ASSUME TypeInv, Around, NEW s \in Slot, ServiceHead(s) PROVE TypeInv'
<1>1. PICK q \in Request : q = req[s] /\ ReqKnown(q)
  BY ReqOK
<1>2. q.pc = "head" /\ q.kind = "service" /\ q.name \in Name
  BY <1>1 DEF ServiceHead, ReqKnown
<1>3. reg[q.name] \in Image
  BY <1>2, Images DEF TypeInv, Typed, DockerTypeOK
<1>4. lastDigest' \in [Name -> Image]
  <2>1. lastDigest' = [lastDigest EXCEPT ![q.name] = reg[q.name]]
    BY <1>1 DEF ServiceHead
  <2> QED BY <1>3, <2>1 DEF TypeInv, Typed, TriggersTypeOK
<1>5. PICK r \in Request : ReqKnown(r) /\ req' = [req EXCEPT ![s] = r]
  <2> DEFINE found == {p \in Tracked : heap[p].name = q.name}
  <2>1. \/ req' = [req EXCEPT ![s] = NoReq]
        \/ \E p \in found :
             req' = [req EXCEPT ![s] = [q EXCEPT !.pc = "read", !.p = p,
                                                 !.dig = reg[q.name]]]
    BY <1>1 DEF ServiceHead, Set
  <2>2. CASE req' = [req EXCEPT ![s] = NoReq]
    BY <2>2, NoReqOK
  <2>3. ASSUME NEW p \in found,
               req' = [req EXCEPT ![s] = [q EXCEPT !.pc = "read", !.p = p,
                                                   !.dig = reg[q.name]]]
        PROVE  \E r \in Request : ReqKnown(r) /\ req' = [req EXCEPT ![s] = r]
    <3>1. p \in 1..Len(heap) /\ p \in Nat
      BY TrackedOnHeap, HeapLen DEF TypeInv, Typed
    <3>2. PICK r : r = [q EXCEPT !.pc = "read", !.p = p, !.dig = reg[q.name]]
      OBVIOUS
    <3>3. r.pc = "read" /\ r.p = p /\ r.todo = q.todo
      BY <1>1, <3>2 DEF Request
    <3>4. r \in Request
      BY <1>1, <1>3, <3>1, <3>2 DEF Request
    <3>5. ReqKnown(r)
      BY <1>1, <3>1, <3>3 DEF ReqKnown
    <3> QED BY <2>3, <3>2, <3>4, <3>5
  <2> QED BY <2>1, <2>2, <2>3
<1>6. HeapKept /\ Len(heap') = Len(heap)
  BY StoreStays DEF ServiceHead, TypeInv, Typed
<1>7. /\ qImage' \in Seq(ImageUpdated) /\ qUnhealthy' \in Seq(Unhealthy)
      /\ DeploysTypeOK'
  BY DEF ServiceHead, TypeInv, Typed, TopicsTypeOK, DeploysTypeOK, deployVars
<1> QED BY <1>4, <1>5, <1>6, <1>7, ReqFrame

\* The registry's digest against the entry's current one.
LEMMA CompareReadTyped ==
    ASSUME TypeInv, Around, NEW s \in Slot, CompareRead(s) PROVE TypeInv'
<1>1. PICK q \in Request : q = req[s] /\ ReqKnown(q)
  BY ReqOK
<1>2. q.pc = "read" /\ q.p \in 1..Len(heap)
  BY <1>1, HeapLen DEF CompareRead, ReqKnown, TypeInv, Typed
<1>3. CurrentDigest(q.p) \in Image
  <2>1. PICK p \in 1..Len(heap) : p = q.p
    BY <1>2
  <2> QED BY <2>1, RingReads DEF TypeInv, Typed
<1>4. PICK r :
        /\ req' = [req EXCEPT ![s] = r]
        /\ \/ r = [q EXCEPT !.pc = "seed"]
           \/ r = [q EXCEPT !.pc = "act", !.cur = CurrentDigest(q.p)]
  BY <1>1 DEF CompareRead, Set
<1>5. r \in Request /\ r.pc \in {"seed", "act"} /\ r.p = q.p /\ r.todo = q.todo
  BY <1>3, <1>4 DEF Request
<1>6. ReqKnown(r)
  BY <1>1, <1>2, <1>5 DEF ReqKnown
<1> QED BY <1>4, <1>5, <1>6, ReqMoves DEF CompareRead

\* An entry without digests gets its first.
LEMMA CompareSeedTyped ==
    ASSUME TypeInv, Around, NEW s \in Slot, CompareSeed(s) PROVE TypeInv'
<1>1. PICK q \in Request : q = req[s] /\ ReqKnown(q)
  BY ReqOK
<1>2. PICK r : r = [q EXCEPT !.pc = "act"]
  OBVIOUS
<1>3. /\ r \in Request /\ r.pc = "act" /\ r.p = q.p /\ r.todo = q.todo
      /\ q.pc = "seed" /\ req' = [req EXCEPT ![s] = r]
  BY <1>1, <1>2 DEF Request, CompareSeed, Set
<1>4. ReqKnown(r)
  BY <1>1, <1>3 DEF ReqKnown
<1>5. HeapKept /\ Len(heap') = Len(heap)
  <2>1. PICK p \in Nat, d \in Image : p = q.p /\ d = q.cur
    BY DEF Request
  <2>2. PushDigest(p, d) /\ UNCHANGED keys
    BY <1>1, <2>1 DEF CompareSeed, PushDigest
  <2> QED BY <2>2, PushKeeps DEF TypeInv, Typed
<1>6. /\ qImage' \in Seq(ImageUpdated) /\ qUnhealthy' \in Seq(Unhealthy)
      /\ DeploysTypeOK' /\ lastDigest' \in [Name -> Image]
  BY DEF CompareSeed, TypeInv, Typed, TopicsTypeOK, DeploysTypeOK, deployVars,
     TriggersTypeOK
<1> QED BY <1>3, <1>4, <1>5, <1>6, ReqFrame

\* A digest that differs is published.
LEMMA CompareActTyped ==
    ASSUME TypeInv, Around, NEW s \in Slot, CompareAct(s) PROVE TypeInv'
<1>1. PICK q \in Request : q = req[s] /\ ReqKnown(q)
  BY ReqOK
<1>2. q.pc = "act" /\ q.p \in 1..Len(heap)
  BY <1>1, HeapLen DEF CompareAct, ReqKnown, TypeInv, Typed
<1>3. PICK m \in ImageUpdated :
        m = [id |-> heap[q.p].id, name |-> heap[q.p].name,
             image |-> heap[q.p].image, new |-> q.dig]
  <2>1. heap[q.p] \in Entry
    BY <1>2 DEF TypeInv, Typed, StoreTypeOK
  <2> QED BY <2>1 DEF Entry, ImageUpdated, Request
<1>4. qImage' \in Seq(ImageUpdated)
  <2>1. qImage' = IF q.dig = q.cur THEN qImage ELSE Publish(qImage, m)
    BY <1>1, <1>3 DEF CompareAct
  <2>2. qImage \in Seq(ImageUpdated) /\ Publish(qImage, m) \in Seq(ImageUpdated)
    BY PublishKeeps DEF TypeInv, Typed, TopicsTypeOK
  <2> QED BY <2>1, <2>2
<1>5. PICK r :
        /\ req' = [req EXCEPT ![s] = r]
        /\ \/ r = [q EXCEPT !.pc = "sweep", !.p = 0, !.cur = NoDigest,
                            !.dig = NoDigest]
           \/ r = NoReq
  BY <1>1 DEF CompareAct, Set
<1>6. r \in Request /\ ReqKnown(r)
  <2>1. CASE r = NoReq
    BY <2>1, NoReqOK
  <2>2. CASE r = [q EXCEPT !.pc = "sweep", !.p = 0, !.cur = NoDigest,
                           !.dig = NoDigest]
    <3>1. r \in Request /\ r.pc = "sweep" /\ r.p = 0 /\ r.todo = q.todo
      BY <2>2, Images DEF Request
    <3> QED BY <1>1, <3>1, HeapLen DEF ReqKnown, TypeInv, Typed
  <2> QED BY <1>5, <2>1, <2>2
<1>7. HeapKept /\ Len(heap') = Len(heap)
  BY StoreStays DEF CompareAct, TypeInv, Typed
<1>8. /\ qUnhealthy' \in Seq(Unhealthy) /\ DeploysTypeOK'
      /\ lastDigest' \in [Name -> Image]
  BY DEF CompareAct, TypeInv, Typed, TopicsTypeOK, DeploysTypeOK, deployVars,
     TriggersTypeOK
<1> QED BY <1>4, <1>5, <1>6, <1>7, <1>8, ReqFrame

\* The API's manual update finds an entry.
LEMMA UpdateBeginTyped ==
    ASSUME TypeInv, Around, NEW s \in Slot, NEW i \in Id, UpdateBegin(s, i)
    PROVE  TypeInv'
<1>1. PICK p \in 1..Len(heap) : p = keys[i]
  BY DEF UpdateBegin, TypeInv, Typed, StoreTypeOK, Ptr
<1>2. CurrentDigest(p) \in Image
  BY RingReads DEF TypeInv, Typed
<1>3. PICK r : r = [NoReq EXCEPT !.pc = "head", !.kind = "update", !.p = p,
                                 !.cur = CurrentDigest(p)]
  OBVIOUS
<1>4. r \in Request /\ ReqKnown(r)
  <2>1. r.pc = "head" /\ r.kind = "update" /\ r.p = p /\ r.todo = {}
    BY <1>3 DEF NoReq
  <2>2. r \in Request
    <3>1. p \in Nat /\ i \in Id
      BY HeapLen DEF TypeInv, Typed
    <3> QED BY <1>2, <1>3, <3>1, Images DEF NoReq, Request
  <2> QED BY <2>1, <2>2, HeapLen DEF ReqKnown, Ptr, TypeInv, Typed
<1>5. req' = [req EXCEPT ![s] = r]
  BY <1>1, <1>3 DEF UpdateBegin, Set
<1> QED BY <1>4, <1>5, ReqMoves DEF UpdateBegin

\* It asks the registry for the digest.
LEMMA UpdateHeadTyped ==
    ASSUME TypeInv, Around, NEW s \in Slot, UpdateHead(s) PROVE TypeInv'
<1>1. PICK q \in Request : q = req[s] /\ ReqKnown(q)
  BY ReqOK
<1>2. q.p \in 1..Len(heap)
  BY <1>1, HeapLen DEF UpdateHead, ReqKnown, TypeInv, Typed
<1>3. reg[heap[q.p].name] \in Image
  <2>1. heap[q.p] \in Entry
    BY <1>2 DEF TypeInv, Typed, StoreTypeOK
  <2>2. heap[q.p].name \in Name
    BY <2>1 DEF Entry
  <2> QED BY <2>2, Images DEF TypeInv, Typed, DockerTypeOK
<1>4. PICK r : r = [q EXCEPT !.pc = "act", !.dig = reg[heap[q.p].name]]
  OBVIOUS
<1>5. r \in Request /\ r.pc = "act" /\ r.p = q.p /\ r.todo = q.todo
  BY <1>3, <1>4 DEF Request
<1>6. ReqKnown(r)
  BY <1>1, <1>2, <1>5 DEF ReqKnown
<1>7. req' = [req EXCEPT ![s] = r]
  BY <1>1, <1>4 DEF UpdateHead, Set
<1> QED BY <1>5, <1>6, <1>7, ReqMoves DEF UpdateHead

\* The API's manual rollback reads an entry.
LEMMA RollbackBeginTyped ==
    ASSUME TypeInv, Around, NEW s \in Slot, NEW i \in Id, RollbackBegin(s, i)
    PROVE  TypeInv'
<1>1. PICK p \in 1..Len(heap) : p = keys[i]
  BY DEF RollbackBegin, TypeInv, Typed, StoreTypeOK, Ptr
<1>2. PreviousDigest(p) \in Image
  BY RingReads DEF TypeInv, Typed
<1>3. PICK r : r = [NoReq EXCEPT !.pc = "rollback", !.kind = "rollback",
                                 !.p = p, !.cur = PreviousDigest(p)]
  OBVIOUS
<1>4. r \in Request /\ ReqKnown(r)
  <2>1. r.pc = "rollback" /\ r.p = p /\ r.todo = {}
    BY <1>3 DEF NoReq
  <2>2. r \in Request
    <3>1. p \in Nat /\ i \in Id
      BY HeapLen DEF TypeInv, Typed
    <3> QED BY <1>2, <1>3, <3>1, Images DEF NoReq, Request
  <2> QED BY <2>1, <2>2, HeapLen DEF ReqKnown, Ptr, TypeInv, Typed
<1>5. req' = [req EXCEPT ![s] = r]
  BY <1>1, <1>3 DEF RollbackBegin, Set
<1> QED BY <1>4, <1>5, ReqMoves DEF RollbackBegin

\* It publishes a report about it.
LEMMA RollbackSendTyped ==
    ASSUME TypeInv, Around, NEW s \in Slot, RollbackSend(s) PROVE TypeInv'
<1>1. PICK q \in Request : q = req[s] /\ ReqKnown(q)
  BY ReqOK
<1>2. PICK p \in 1..Len(heap) : p = q.p
  BY <1>1, HeapLen DEF RollbackSend, ReqKnown, TypeInv, Typed
<1>3. PICK m \in Unhealthy :
        m = [id |-> heap[p].id, name |-> heap[p].name, image |-> heap[p].image,
             applied |-> CurrentDigest(p), prev |-> q.cur]
  <2>1. heap[p] \in Entry /\ CurrentDigest(p) \in Image
    BY RingReads DEF TypeInv, Typed
  <2> QED BY <2>1 DEF Entry, Unhealthy, Request
<1>4. qUnhealthy' \in Seq(Unhealthy)
  <2>1. qUnhealthy' = Publish(qUnhealthy, m)
    BY <1>1, <1>2, <1>3 DEF RollbackSend
  <2> QED BY <2>1, PublishKeeps DEF TypeInv, Typed, TopicsTypeOK
<1>5. PICK r \in Request : r = NoReq /\ ReqKnown(r)
  BY NoReqOK
<1>6. req' = [req EXCEPT ![s] = r]
  BY <1>5 DEF RollbackSend, Set
<1>7. HeapKept /\ Len(heap') = Len(heap)
  BY StoreStays DEF RollbackSend, TypeInv, Typed
<1>8. /\ qImage' \in Seq(ImageUpdated) /\ DeploysTypeOK'
      /\ lastDigest' \in [Name -> Image]
  BY DEF RollbackSend, TypeInv, Typed, TopicsTypeOK, DeploysTypeOK, deployVars,
     TriggersTypeOK
<1> QED BY <1>4, <1>5, <1>6, <1>7, <1>8, ReqFrame

\* Every step of a request that is under way.
LEMMA ServeTyped == ASSUME TypeInv, NEW s \in Slot, Serve(s) PROVE TypeInv'
<1>1. Around /\ RequestStep(s)
  BY DEF Serve, RequestStep, Around, TypeInv, Typed
<1> QED BY <1>1, SendOneTyped, SendDoneTyped, SweepHeadTyped, SweepDoneTyped,
           ServiceHeadTyped, CompareReadTyped, CompareSeedTyped, CompareActTyped,
           UpdateHeadTyped, RollbackSendTyped DEF RequestStep

\* Every request that begins.
LEMMA AskTyped == ASSUME TypeInv, NEW s \in Slot, Ask(s) PROVE TypeInv'
<1>1. Around
  <2>1. spent' = spent + 1
    BY DEF Ask, Outside
  <2> QED BY <2>1 DEF Ask, Around, TypeInv, Typed
<1> QED BY <1>1, PushBeginTyped, HubBeginTyped, SweepBeginTyped,
           ServiceBeginTyped, UpdateBeginTyped, RollbackBeginTyped DEF Ask

\* What an event outside the process leaves to be shown.
LEMMA OutFrame ==
    ASSUME TypeInv, DockerTypeOK', EventsKnown', Grows, UNCHANGED storeVars,
           UNCHANGED topicVars, UNCHANGED deployVars,
           UNCHANGED <<task, exec, rb, wat, mon, req, lastDigest>>,
           proc' = "down" => proc = "down",
           spent' \in Nat, lost' \subseteq Name
    PROVE  TypeInv'
<1>1. StoreTypeOK' /\ DownIsEmpty' /\ TopicsTypeOK' /\ DeploysTypeOK'
  BY DEF TypeInv, Typed, DownIsEmpty, storeVars, StoreTypeOK, Ptr, topicVars,
     TopicsTypeOK, deployVars, DeploysTypeOK
<1>2. /\ RecreateTypeOK' /\ ExecutorTypeOK' /\ RollbackTypeOK' /\ WatcherTypeOK'
      /\ HealthMonTypeOK' /\ MonKnown' /\ TriggersTypeOK'
  BY DEF TypeInv, Typed, RecreateTypeOK, ExecutorTypeOK, RollbackTypeOK,
     WatcherTypeOK, HealthMonTypeOK, MonKnown, TriggersTypeOK
<1>3. TasksKnown'
  BY TaskStays DEF TypeInv, TasksKnown
<1>4. Len(heap) \in Nat /\ Len(heap') \in Nat /\ Len(heap') >= Len(heap)
  BY HeapLen DEF TypeInv, Typed, storeVars
<1>5. ExecKnown' /\ RbKnown' /\ WatKnown' /\ ReqsKnown'
  BY <1>4, ExecStays, RbStays, WatStays, ReqsStay DEF TypeInv
<1> QED BY <1>1, <1>2, <1>3, <1>5 DEF TypeInv, Typed

\* A release moves the registry's tag.
LEMMA ReleaseTyped == ASSUME TypeInv, Release PROVE TypeInv'
<1>1. spent' \in Nat /\ lost' \subseteq Name
  BY DEF Release, Outside, TypeInv, Typed
<1>2. DockerTypeOK' /\ EventsKnown' /\ Grows
  <2>1. PICK n \in Name, d \in Digest : reg' = [reg EXCEPT ![n] = d]
    BY DEF Release
  <2>2. UNCHANGED <<ctr, stream, proc>>
    BY DEF Release
  <2> QED BY <2>1, <2>2 DEF TypeInv, Typed, DockerTypeOK, EventsKnown, Grows
<1> QED BY <1>1, <1>2, OutFrame DEF Release

\* A person pulls the image.
LEMMA HostPullTyped == ASSUME TypeInv, HostPull PROVE TypeInv'
<1>1. spent' \in Nat /\ lost' \subseteq Name
  BY DEF HostPull, Outside, TypeInv, Typed
<1>2. Grows /\ ctr' = ctr
  BY DEF HostPull, Grows
<1>3. DockerTypeOK' /\ EventsKnown'
  <2>1. PICK n \in Name, d \in Image : Emit("pull", NoId, n, d)
    <3>1. \A n \in Name : reg[n] \in Image
      BY Images DEF TypeInv, Typed, DockerTypeOK
    <3>2. PICK n \in Name : Emit("pull", NoId, n, reg[n])
      BY DEF HostPull
    <3> QED BY <3>1, <3>2 DEF Emit
  <2>2. stream' \in Seq(Event) /\ EventsKnown'
    BY <1>2, <2>1, EmitKeeps DEF TypeInv, Typed
  <2> QED BY <1>2, <2>2 DEF HostPull, TypeInv, Typed, DockerTypeOK
<1> QED BY <1>1, <1>2, <1>3, OutFrame DEF HostPull

\* A container turns unhealthy.
LEMMA SickenTyped == ASSUME TypeInv, Sicken PROVE TypeInv'
<1>1. spent' \in Nat /\ lost' \subseteq Name
  BY DEF Sicken, Outside, TypeInv, Typed
<1>2. PICK i \in Id, n \in Name :
        /\ ctr[i].st = "running"
        /\ ctr' = [ctr EXCEPT ![i].sick = TRUE]
        /\ Emit("unhealthy", i, n, NoDigest)
  BY DEF Sicken, TypeInv, Typed, DockerTypeOK, Emit
<1>3. /\ ctr' \in [Id -> Container] /\ Grows
      /\ \A j \in Id : ctr'[j].st # "none" => ctr'[j].name \in Name
      /\ ctr'[i].st # "none"
  BY <1>2 DEF TypeInv, Typed, DockerTypeOK, Container, Grows
<1>4. stream' \in Seq(Event) /\ EventsKnown'
  BY <1>2, <1>3, Images, EmitKeeps DEF TypeInv, Typed
<1>5. DockerTypeOK'
  BY <1>3, <1>4 DEF Sicken, TypeInv, Typed, DockerTypeOK
<1> QED BY <1>1, <1>3, <1>4, <1>5, OutFrame DEF Sicken

\* A person removes a container.
LEMMA HandRemoveTyped == ASSUME TypeInv, HandRemove PROVE TypeInv'
<1>1. PICK i \in Id : /\ Present(i) /\ DockerRemove(i)
                      /\ lost' = lost \cup {ctr[i].name}
  BY DEF HandRemove
<1>2. spent' \in Nat /\ lost' \subseteq Name
  BY <1>1 DEF HandRemove, Outside, TypeInv, Typed, DockerTypeOK, Present
<1>3. /\ ctr' \in [Id -> Container] /\ Grows
      /\ \A j \in Id : ctr'[j].st # "none" => ctr'[j].name \in Name
      /\ stream' \in Seq(Event) /\ EventsKnown'
  BY <1>1, RemoveKeeps DEF TypeInv, Typed
<1>4. DockerTypeOK'
  BY <1>3 DEF HandRemove, TypeInv, Typed, DockerTypeOK
<1> QED BY <1>2, <1>3, <1>4, OutFrame DEF HandRemove

\* A person restarts one.
LEMMA HandRestartTyped == ASSUME TypeInv, HandRestart PROVE TypeInv'
<1>1. PICK i \in Id : Present(i) /\ DockerStart(i)
  BY DEF HandRestart
<1>2. spent' \in Nat /\ lost' \subseteq Name
  BY DEF HandRestart, Recover, Outside, TypeInv, Typed
<1>3. /\ ctr' \in [Id -> Container] /\ Grows
      /\ \A j \in Id : ctr'[j].st # "none" => ctr'[j].name \in Name
      /\ stream' \in Seq(Event) /\ EventsKnown'
  BY <1>1, StartKeeps DEF TypeInv, Typed
<1>4. DockerTypeOK'
  BY <1>3 DEF HandRestart, TypeInv, Typed, DockerTypeOK
<1> QED BY <1>2, <1>3, <1>4, OutFrame DEF HandRestart

\* A person runs a new one.
LEMMA HandRunTyped == ASSUME TypeInv, HandRun PROVE TypeInv'
<1>1. PICK n \in Name, i \in Id :
        /\ Unused(i) /\ ctr' = [ctr EXCEPT ![i] = RunBare(n)]
        /\ Emit("start", i, n, NoDigest)
  BY DEF HandRun
<1>2. spent' \in Nat /\ lost' \subseteq Name
  BY DEF HandRun, Recover, Outside, TypeInv, Typed
<1>3. RunBare(n) \in Container /\ RunBare(n).name = n /\ RunBare(n).st = "running"
  BY Images DEF TypeInv, Typed, DockerTypeOK, RunBare, Container
<1>4. /\ ctr' \in [Id -> Container] /\ Grows
      /\ \A j \in Id : ctr'[j].st # "none" => ctr'[j].name \in Name
      /\ ctr'[i].st # "none"
  BY <1>1, <1>3 DEF TypeInv, Typed, DockerTypeOK, Grows, Unused
<1>5. stream' \in Seq(Event) /\ EventsKnown'
  BY <1>1, <1>4, Images, EmitKeeps DEF TypeInv, Typed
<1>6. DockerTypeOK'
  BY <1>4, <1>5 DEF HandRun, TypeInv, Typed, DockerTypeOK
<1> QED BY <1>2, <1>4, <1>5, <1>6, OutFrame DEF HandRun

\* A daemon call of a Recreate fails.
LEMMA CallErrorTyped == ASSUME TypeInv, CallError PROVE TypeInv'
<1>1. PICK a \in Actor : /\ CallFails(a)
                         /\ lost' = lost \cup {n \in Name : Holds(a, n) /\ ~Running(n)}
  BY DEF CallError
<1>2. CallKeeps(a) /\ proc' = proc
  BY <1>1, RecreateKeeps DEF TypeInv, Typed, CallFails
<1>3. spent' \in Nat /\ lost' \subseteq Name
  BY <1>1 DEF CallError, Outside, TypeInv, Typed
<1> QED BY <1>2, <1>3, CallsTyped DEF CallError

\* Start-up: the watcher subscribes.
LEMMA SubscribeTyped == ASSUME TypeInv, Subscribe PROVE TypeInv'
<1>1. DockerTypeOK' /\ EventsKnown' /\ Grows
  BY DEF Subscribe, TypeInv, Typed, DockerTypeOK, EventsKnown, Grows
<1>2. spent' \in Nat /\ lost' \subseteq Name
  BY DEF Subscribe, TypeInv, Typed
<1> QED BY <1>1, <1>2, OutFrame DEF Subscribe

\* Start-up: the store is filled from the listing.
LEMMA SeedTyped == ASSUME TypeInv, Seed PROVE TypeInv'
<1>1. DockerTypeOK' /\ EventsKnown' /\ Grows
  BY DEF Seed, TypeInv, Typed, DockerTypeOK, EventsKnown, Grows
<1>2. MaxId \in Nat \ {0} /\ Name # {}
  BY DockerAssumption DEF DockerAssumption
<1>3. /\ heap' \in [1..MaxId -> Entry]
      /\ keys' = [i \in Id |-> IF i \in Listed THEN i ELSE 0]
  <2>1. <<>> \in Seq(Image) /\ NoDigest \in Image
    BY Images
  <2>2. (CHOOSE n \in Name : TRUE) \in Name
    BY <1>2
  <2>3. \A i \in Listed : ctr[i].name \in Name /\ ctr[i].image \in Image
    BY DEF Listed, Present, TypeInv, Typed, DockerTypeOK, Container
  <2>4. PICK nm : nm = CHOOSE n \in Name : TRUE
    OBVIOUS
  <2>5. heap' = [i \in Id |->
                   IF i \in Listed
                   THEN [id |-> i, name |-> ctr[i].name,
                         image |-> ctr[i].image, hist |-> <<>>]
                   ELSE [id |-> i, name |-> nm, image |-> NoDigest,
                         hist |-> <<>>]]
    BY <2>4 DEF Seed, SeedStore
  <2>6. \A i \in Id : heap'[i] \in Entry
    BY <2>1, <2>2, <2>3, <2>4, <2>5 DEF Entry
  <2> QED BY <2>5, <2>6 DEF Seed, SeedStore, Id
<1>4. heap' \in Seq(Entry) /\ Len(heap') = MaxId
  BY <1>2, <1>3
<1>5. StoreTypeOK'
  BY <1>2, <1>3, <1>4 DEF StoreTypeOK, Ptr, Id
<1>6. heap = <<>> /\ Len(heap) = 0 /\ Len(heap') \in Nat /\ Len(heap') >= Len(heap)
  BY <1>2, <1>4 DEF Seed, TypeInv, DownIsEmpty
<1>7. TasksKnown'
  BY <1>1, TaskStays DEF Seed, TypeInv, TasksKnown
<1>8. ExecKnown' /\ RbKnown' /\ WatKnown' /\ ReqsKnown'
  BY <1>1, <1>6, ExecStays, RbStays, WatStays, ReqsStay DEF Seed, TypeInv
<1>9. /\ RecreateTypeOK' /\ ExecutorTypeOK' /\ RollbackTypeOK' /\ WatcherTypeOK'
      /\ HealthMonTypeOK' /\ MonKnown' /\ TriggersTypeOK' /\ DownIsEmpty'
      /\ TopicsTypeOK' /\ DeploysTypeOK' /\ spent' \in Nat /\ lost' \subseteq Name
  BY DEF Seed, TypeInv, Typed, RecreateTypeOK, ExecutorTypeOK, RollbackTypeOK,
     WatcherTypeOK, HealthMonTypeOK, MonKnown, TriggersTypeOK, DownIsEmpty,
     TopicsTypeOK, topicVars, DeploysTypeOK, deployVars
<1> QED BY <1>1, <1>5, <1>7, <1>8, <1>9 DEF TypeInv, Typed

\* The process ends: its memory is empty, which is typed.
LEMMA DownTyped == ASSUME TypeInv, Down, spent' \in Nat PROVE TypeInv'
<1>1. /\ stream' = <<>> /\ qImage' = <<>> /\ qApplied' = <<>>
      /\ qUnhealthy' = <<>> /\ exec' = ExecIdle /\ rb' = RbIdle /\ wat' = WatIdle
      /\ task' = [a \in Actor |-> NoTask] /\ mon' = [i \in Id |-> MonOff]
      /\ req' = [s \in Slot |-> NoReq] /\ jobs' = <<>>
      /\ active' = [k \in JobKey |-> 0] /\ rows' = rows
      /\ keys' = [i \in Id |-> 0] /\ heap' = <<>> /\ proc' = "down"
      /\ lastDigest' = lastDigest /\ ctr' = ctr /\ reg' = reg
      /\ lost' = lost \cup {n \in Name : ~Running(n)}
  BY DEF Down, MemoryEmpty, NoJobs
<1>2. DockerTypeOK' /\ EventsKnown'
  BY <1>1 DEF TypeInv, Typed, DockerTypeOK, EventsKnown
<1>3. StoreTypeOK' /\ DownIsEmpty' /\ TopicsTypeOK'
  BY <1>1 DEF StoreTypeOK, DownIsEmpty, TopicsTypeOK
<1>4. RecreateTypeOK' /\ TasksKnown'
  <2>1. NoTask \in Task
    BY Images DEF NoTask, Task
  <2> QED BY <1>1, <2>1, NoTaskKnown DEF RecreateTypeOK, TasksKnown
<1>5. DeploysTypeOK' /\ lost' \subseteq Name
  BY <1>1 DEF TypeInv, Typed, DeploysTypeOK
<1>6. ExecutorTypeOK' /\ RollbackTypeOK' /\ WatcherTypeOK' /\ WatKnown'
  BY <1>1, Images, WatIdleTyped DEF ExecutorTypeOK, RollbackTypeOK, ExecIdle, RbIdle
<1>7. HealthMonTypeOK' /\ MonKnown' /\ TriggersTypeOK' /\ ReqsKnown'
  BY <1>1, Images DEF HealthMonTypeOK, MonKnown, MonOff, TypeInv, Typed,
     TriggersTypeOK, NoReq, Request, ReqsKnown, ReqKnown
<1>8. ExecKnown' /\ RbKnown'
  BY <1>1 DEF ExecKnown, RbKnown, ExecIdle, RbIdle, Actor
<1> QED BY <1>2, <1>3, <1>4, <1>5, <1>6, <1>7, <1>8 DEF TypeInv, Typed

\* A stuttering step, or a quiet one.
LEMMA StutterTyped == ASSUME TypeInv, UNCHANGED vars PROVE TypeInv'
<1>1. UNCHANGED dockerVars /\ UNCHANGED storeVars /\ UNCHANGED topicVars
      /\ UNCHANGED deployVars /\ UNCHANGED <<task, exec, rb, wat, mon, req>>
      /\ UNCHANGED <<lastDigest, spent, lost>>
  BY DEF vars
<1>2. DockerTypeOK' /\ EventsKnown' /\ Grows
  BY <1>1, DockerStays DEF TypeInv, Typed
<1>3. spent' \in Nat /\ lost' \subseteq Name /\ proc' = proc
  BY <1>1 DEF TypeInv, Typed, dockerVars
<1> QED BY <1>1, <1>2, <1>3, OutFrame

\* Every step of the pipeline keeps TypeInv.
LEMMA NextTyped == TypeInv /\ [Next]_vars => TypeInv'
<1> SUFFICES ASSUME TypeInv, [Next]_vars PROVE TypeInv'
  OBVIOUS
<1>1. CASE Seed
  BY <1>1, SeedTyped
<1>2. CASE Subscribe
  BY <1>2, SubscribeTyped
<1>3. CASE Panic
  <2>1. Down /\ spent' \in Nat
    BY <1>3 DEF Panic, TypeInv, Typed
  <2> QED BY <2>1, DownTyped
<1>4. CASE Exec
  BY <1>4, ExecTyped
<1>5. CASE Rb
  BY <1>5, RbTyped
<1>6. CASE Watch
  BY <1>6, WatchTyped
<1>7. CASE Monitor
  BY <1>7, MonitorTyped
<1>8. CASE \E a \in Actor : Calls(a)
  <2>1. PICK a \in Actor : Calls(a)
    BY <1>8
  <2>2. CallKeeps(a) /\ proc' = proc
    BY <2>1, RecreateKeeps DEF Calls, RecreateStep, TypeInv, Typed
  <2>3. spent' \in Nat /\ lost' \subseteq Name
    BY <2>1 DEF Calls, Recover, TypeInv, Typed
  <2> QED BY <2>1, <2>2, <2>3, CallsTyped DEF Calls
<1>9. CASE \E s \in Slot : Serve(s) \/ Ask(s)
  BY <1>9, ServeTyped, AskTyped
<1>10. CASE Release \/ HostPull \/ Sicken
  BY <1>10, ReleaseTyped, HostPullTyped, SickenTyped
<1>11. CASE HandRemove \/ HandRestart \/ HandRun
  BY <1>11, HandRemoveTyped, HandRestartTyped, HandRunTyped
<1>12. CASE CallError
  BY <1>12, CallErrorTyped
<1>13. CASE Crash
  <2>1. Down /\ spent' \in Nat
    BY <1>13 DEF Crash, Outside, TypeInv, Typed
  <2> QED BY <2>1, DownTyped
<1>14. CASE UNCHANGED vars
  BY <1>14, StutterTyped
<1> QED BY <1>1, <1>2, <1>3, <1>4, <1>5, <1>6, <1>7, <1>8, <1>9, <1>10, <1>11,
           <1>12, <1>13, <1>14 DEF Next, Rest

\* TypeInv says all that TypeOK asks.
LEMMA TypeInvIsTypeOK == TypeInv => TypeOK
<1> SUFFICES ASSUME TypeInv PROVE TypeOK
  OBVIOUS
<1>1. /\ exec.cs \in 0..Len(heap) /\ rb.cs \in 0..Len(heap)
      /\ wat.pc \in {"report", "pull"} => wat.todo \subseteq Ptr
  BY DEF TypeInv, ExecKnown, RbKnown, WatKnown
<1>2. \A s \in Slot : req[s].p \in 0..Len(heap) /\ req[s].todo \subseteq Ptr
  BY DEF TypeInv, ReqsKnown, ReqKnown
<1> QED BY <1>1, <1>2 DEF TypeInv, Typed, TypeOK

\* What each goroutine's place says of its locals holds throughout: the ids,
\* names and pointers that executor, rollback engine, watcher, monitor and
\* request handlers carry across their daemon calls are of things that exist.
THEOREM TypeInvHolds == Spec => []TypeInv
BY InitTyped, NextTyped, PTL DEF Spec

\* Every variable keeps its type, for any number of services, digests,
\* containers, request goroutines and outside events.
THEOREM TypeCorrect == Spec => []TypeOK
BY TypeInvHolds, TypeInvIsTypeOK, PTL
=============================================================================
