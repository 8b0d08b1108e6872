----------------------------- MODULE BusProofs -----------------------------
(***************************************************************************)
(* Theorems about Bus, for any topics, subscribers, browsers, buffers and  *)
(* number of events.                                                       *)
(***************************************************************************)
EXTENDS Bus, TLAPS

\* The slices and the arrays under them.
ArraysTyped ==
    /\ slice \in [Topic -> [arr: Nat, len: Nat]]
    /\ arrays \in [Topic -> Seq(Seq(Sub))]
    /\ \A t \in Topic :
        /\ slice[t].arr = Len(arrays[t])
        /\ slice[t].len > 0 => slice[t].arr > 0
                               /\ slice[t].len <= Len(arrays[t][slice[t].arr])

\* A Publish under way reads inside the array it walks.
PubKnown(p) ==
    p.pc = "send" =>
        /\ p.topic \in Topic /\ p.arr \in 1..Len(arrays[p.topic])
        /\ p.len \in Nat /\ p.len <= Len(arrays[p.topic][p.arr])
        /\ p.i \in 1..p.len

\* The locals of a Publish.
Fields == {"pc", "topic", "arr", "len", "i", "due", "missed"}

\* Every call has its locals, and reads inside its array.
PubsKnown ==
    /\ DOMAIN pub = Event
    /\ \A e \in Event : DOMAIN pub[e] = Fields /\ PubKnown(pub[e])

\* No subscriber has gone.
AllStay ==
    /\ run \in [Topic -> [Sub -> {"new", "run", "dispatch"}]]
    /\ chan \in [Topic -> [Sub -> [st: {"none", "open"}, buf: Seq(Event)]]]

\* What is left to serve is open: clients leave only when nobody reads.
ServingOpen ==
    /\ clients \in [Client -> {"new", "open", "closed"}]
    /\ todo \in [Topic -> SUBSET Client]
    /\ \A t \in Topic : todo[t] \subseteq OpenClients

\* How things are until the process is told to stop.
LiveInv ==
    /\ ctx = "live" /\ crashed = FALSE
    /\ ArraysTyped /\ PubsKnown /\ AllStay /\ ServingOpen

BusInv == ctx = "done" \/ LiveInv

\* At first nobody has subscribed.
LEMMA BusInit == Init => BusInv
<1> SUFFICES ASSUME Init PROVE LiveInv
  BY DEF BusInv
<1>1. ArraysTyped
  BY DEF Init, ArraysTyped
<1>2. PubsKnown
  <2>1. ASSUME NEW e \in Event
        PROVE  DOMAIN pub[e] = Fields /\ PubKnown(pub[e])
    <3>1. pub[e] = NewPub
      BY DEF Init
    <3>2. DOMAIN NewPub = Fields /\ NewPub.pc = "new"
      BY DEF NewPub, Fields
    <3> QED BY <3>1, <3>2 DEF PubKnown
  <2>2. DOMAIN pub = Event
    BY DEF Init
  <2> QED BY <2>1, <2>2 DEF PubsKnown
<1>3. AllStay /\ ServingOpen
  BY DEF Init, AllStay, ServingOpen
<1> QED BY <1>1, <1>2, <1>3 DEF Init, LiveInv

\* A subscriber that is there to be read is one.
LEMMA Walked ==
    ASSUME ArraysTyped, NEW p, PubKnown(p), p.pc = "send"
    PROVE  arrays[p.topic][p.arr][p.i] \in Sub
<1>1. PICK xs \in Seq(Seq(Sub)) : xs = arrays[p.topic]
  BY DEF ArraysTyped, PubKnown
<1>2. PICK a \in Seq(Sub) : a = xs[p.arr]
  BY <1>1 DEF PubKnown
<1>3. p.i \in 1..Len(a)
  BY <1>1, <1>2 DEF PubKnown
<1> QED BY <1>1, <1>2, <1>3

\* Writing behind the first n elements keeps an array one of subscribers.
LEMMA WrittenArray ==
    ASSUME NEW a \in Seq(Sub), NEW n \in Nat, n <= Len(a), NEW s \in Sub
    PROVE  /\ Written(a, n, s) \in Seq(Sub)
           /\ Len(Written(a, n, s)) >= Len(a)
           /\ Len(Written(a, n, s)) >= n + 1
           /\ Written(a, n, s)[n + 1] = s
           /\ \A i \in 1..Len(a) : i # n + 1 => Written(a, n, s)[i] = a[i]
<1>1. PICK m : m = IF Len(a) > n THEN Len(a) ELSE n + 1
  OBVIOUS
<1>2. m \in Nat /\ m >= Len(a) /\ m >= n + 1 /\ m <= n + 1 + Len(a)
      /\ (m = Len(a) \/ m = n + 1)
  BY <1>1
<1>3. \A j \in 1..m : (IF j = n + 1 THEN s ELSE a[j]) \in Sub
  <2> SUFFICES ASSUME NEW j \in 1..m, j # n + 1 PROVE a[j] \in Sub
    OBVIOUS
  <2>1. j \in 1..Len(a)
    BY <1>1, <1>2
  <2> QED BY <2>1
<1>4. PICK w : w = [j \in 1..m |-> IF j = n + 1 THEN s ELSE a[j]]
  OBVIOUS
<1>5. w \in [1..m -> Sub]
  BY <1>3, <1>4
<1>6. w \in Seq(Sub) /\ Len(w) = m
  BY <1>2, <1>5
<1>7. Written(a, n, s) = w
  BY <1>1, <1>4 DEF Written
<1>8. w[n + 1] = s /\ \A i \in 1..Len(a) : i # n + 1 => w[i] = a[i]
  BY <1>2, <1>4
<1> QED BY <1>2, <1>6, <1>7, <1>8

\* The current array is one of subscribers, at least as long as the slice.
LEMMA ArrayTyped ==
    ASSUME ArraysTyped, NEW t \in Topic
    PROVE  /\ Array(t) \in Seq(Sub) /\ slice[t].len <= Len(Array(t))
           /\ slice[t].len \in Nat /\ slice[t].arr \in Nat
           /\ slice[t].arr = Len(arrays[t]) /\ arrays[t] \in Seq(Seq(Sub))
<1>1. PICK xs \in Seq(Seq(Sub)), k \in Nat, n \in Nat :
         xs = arrays[t] /\ k = slice[t].arr /\ n = slice[t].len
  BY DEF ArraysTyped
<1>2. k = Len(xs)
  BY <1>1 DEF ArraysTyped
<1>3. n > 0 => k > 0 /\ n <= Len(xs[k])
  BY <1>1 DEF ArraysTyped
<1>4. CASE k = 0
  <2>1. Array(t) = <<>>
    BY <1>1, <1>4 DEF Array
  <2> QED BY <1>1, <1>2, <1>3, <1>4, <2>1
<1>5. CASE k # 0
  <2>1. Array(t) = xs[k]
    BY <1>1, <1>5 DEF Array
  <2>2. xs[k] \in Seq(Sub)
    BY <1>2, <1>5
  <2>3. Len(xs[k]) \in Nat
    BY <2>2
  <2> QED BY <1>1, <1>2, <1>3, <2>1, <2>2, <2>3
<1> QED BY <1>4, <1>5

\* One topic's slice and arrays are replaced by longer ones.
LEMMA Replaced ==
    ASSUME ArraysTyped, NEW t \in Topic, NEW bs \in Seq(Seq(Sub)), NEW n \in Nat,
           arrays' = [arrays EXCEPT ![t] = bs],
           slice' = [slice EXCEPT ![t] = [arr |-> Len(bs), len |-> n]],
           Len(bs) > 0, n <= Len(bs[Len(bs)]),
           Len(bs) >= Len(arrays[t]),
           \A j \in 1..Len(arrays[t]) : Len(bs[j]) >= Len(arrays[t][j])
    PROVE  /\ ArraysTyped'
           /\ \A u \in Topic :
                /\ Len(arrays'[u]) >= Len(arrays[u])
                /\ \A j \in 1..Len(arrays[u]) :
                     Len(arrays'[u][j]) >= Len(arrays[u][j])
<1>1. arrays'[t] = bs /\ \A u \in Topic : u # t => arrays'[u] = arrays[u]
  BY DEF ArraysTyped
<1>2. /\ slice'[t].arr = Len(bs) /\ slice'[t].len = n
      /\ \A u \in Topic : u # t => slice'[u] = slice[u]
  BY DEF ArraysTyped
<1>3. arrays' \in [Topic -> Seq(Seq(Sub))]
  BY DEF ArraysTyped
<1>4. Len(bs) \in Nat
  OBVIOUS
<1>5. slice' \in [Topic -> [arr: Nat, len: Nat]]
  BY <1>4 DEF ArraysTyped
<1>6. ASSUME NEW u \in Topic
      PROVE  /\ slice'[u].arr = Len(arrays'[u])
             /\ slice'[u].len > 0 => slice'[u].arr > 0
                     /\ slice'[u].len <= Len(arrays'[u][slice'[u].arr])
  <2>1. CASE u = t
    BY <1>1, <1>2, <2>1
  <2>2. CASE u # t
    BY <1>1, <1>2, <2>2 DEF ArraysTyped
  <2> QED BY <2>1, <2>2
<1>7. ASSUME NEW u \in Topic
      PROVE  /\ Len(arrays'[u]) >= Len(arrays[u])
             /\ \A j \in 1..Len(arrays[u]) :
                  Len(arrays'[u][j]) >= Len(arrays[u][j])
  <2>1. CASE u = t
    BY <1>1, <2>1
  <2>2. CASE u # t
    <3>1. PICK cs \in Seq(Seq(Sub)) : cs = arrays[u]
      BY DEF ArraysTyped
    <3>2. Len(cs) \in Nat /\ \A j \in 1..Len(cs) : Len(cs[j]) \in Nat
      OBVIOUS
    <3> QED BY <1>1, <2>2, <3>1, <3>2
  <2> QED BY <2>1, <2>2
<1> QED BY <1>3, <1>5, <1>6, <1>7 DEF ArraysTyped

\* A topic's arrays become bs, which hold s behind the slice and, as far as
\* the slice went, what they held.
Appends(t, s, bs) ==
    /\ arrays' = [arrays EXCEPT ![t] = bs]
    /\ slice' = [slice EXCEPT ![t] =
                   [arr |-> Len(bs), len |-> slice[t].len + 1]]
    /\ Len(bs) > 0 /\ slice[t].len + 1 <= Len(bs[Len(bs)])
    /\ Len(bs) \in {slice[t].arr, slice[t].arr + 1}
    /\ bs[Len(bs)][slice[t].len + 1] = s
    /\ \A i \in 1..slice[t].len : bs[Len(bs)][i] = Array(t)[i]
    /\ \A j \in 1..slice[t].arr :
         /\ Len(bs[j]) >= Len(arrays[t][j])
         /\ \A i \in 1..Len(arrays[t][j]) :
              \/ bs[j][i] = arrays[t][j][i]
              \/ j = Len(bs) /\ i = slice[t].len + 1

\* append writes the subscriber behind the slice, in the array or in a copy
\* of it, and nothing else that anybody can see.
LEMMA AppendShape ==
    ASSUME ArraysTyped, NEW t \in Topic, NEW s \in Sub, Appended(t, s)
    PROVE  \E bs \in Seq(Seq(Sub)) : Appends(t, s, bs)
<1>1. PICK xs \in Seq(Seq(Sub)), k \in Nat, n \in Nat, old \in Seq(Sub) :
         /\ xs = arrays[t] /\ k = slice[t].arr /\ n = slice[t].len
         /\ old = Array(t) /\ n <= Len(old) /\ k = Len(xs)
  BY ArrayTyped
<1>2. CASE Room(t)
  <2>1. PICK a \in Seq(Sub) :
          /\ a = Written(old, n, s) /\ Len(a) >= Len(old) /\ Len(a) >= n + 1
          /\ a[n + 1] = s /\ \A i \in 1..Len(old) : i # n + 1 => a[i] = old[i]
    <3>1. /\ Written(old, n, s) \in Seq(Sub)
          /\ Len(Written(old, n, s)) >= Len(old)
          /\ Len(Written(old, n, s)) >= n + 1
          /\ Written(old, n, s)[n + 1] = s
          /\ \A i \in 1..Len(old) :
                i # n + 1 => Written(old, n, s)[i] = old[i]
      BY <1>1, WrittenArray
    <3> QED BY <3>1
  <2>2. k \in 1..Len(xs) /\ old = xs[k]
    <3>1. k > 0
      BY <1>1, <1>2, Zenon DEF Room
    <3> QED BY <1>1, <3>1 DEF Array
  <2>3. PICK bs : bs = [xs EXCEPT ![k] = a]
    OBVIOUS
  <2>4. /\ bs \in Seq(Seq(Sub)) /\ Len(bs) = k /\ bs[k] = a
        /\ \A j \in 1..k : j # k => bs[j] = xs[j]
    BY <1>1, <2>2, <2>3
  <2>5. /\ arrays' = [arrays EXCEPT ![t] = bs]
        /\ slice' = [slice EXCEPT ![t] = [arr |-> k, len |-> n + 1]]
    BY <1>1, <1>2, <2>1, <2>3 DEF Appended
  <2>6. ASSUME NEW j \in 1..k
        PROVE  /\ Len(bs[j]) >= Len(xs[j])
               /\ \A i \in 1..Len(xs[j]) :
                    bs[j][i] = xs[j][i] \/ (j = k /\ i = n + 1)
    <3>1. CASE j = k
      BY <2>1, <2>2, <2>4, <3>1
    <3>2. CASE j # k
      <4>1. bs[j] = xs[j] /\ Len(xs[j]) \in Nat
        BY <1>1, <2>4, <3>2
      <4> QED BY <4>1
    <3> QED BY <3>1, <3>2
  <2>7. \A i \in 1..n : bs[k][i] = old[i]
    <3> SUFFICES ASSUME NEW i \in 1..n PROVE a[i] = old[i]
      BY <2>4
    <3>1. i \in 1..Len(old) /\ i # n + 1
      BY <1>1
    <3> QED BY <2>1, <3>1
  <2>8. k > 0 /\ n + 1 <= Len(bs[k]) /\ k \in {k, k + 1} /\ bs[k][n + 1] = s
    BY <2>1, <2>2, <2>4
  <2>9. Appends(t, s, bs)
    BY <1>1, <2>4, <2>5, <2>6, <2>7, <2>8 DEF Appends
  <2> QED BY <2>4, <2>9
<1>3. CASE ~Room(t)
  <2>1. PICK a \in Seq(Sub) :
          /\ a = Append(SubSeq(old, 1, n), s) /\ Len(a) = n + 1
          /\ a[n + 1] = s /\ \A i \in 1..n : a[i] = old[i]
    <3>1. PICK b \in Seq(Sub) : /\ b = SubSeq(old, 1, n) /\ Len(b) = n
                                /\ \A i \in 1..n : b[i] = old[i]
      <4>1. Len(old) \in Nat
        BY <1>1
      <4>2. \A i \in 1..n : i \in 1..Len(old)
        BY <1>1, <4>1
      <4>3. SubSeq(old, 1, n) \in Seq(Sub)
        BY <1>1, <4>1, <4>2
      <4>4. Len(SubSeq(old, 1, n)) = n
        BY <1>1, <4>1
      <4>5. \A i \in 1..n : SubSeq(old, 1, n)[i] = old[i]
        BY <1>1, <4>1
      <4> QED BY <4>3, <4>4, <4>5
    <3>2. PICK a : a = Append(b, s)
      OBVIOUS
    <3>3. /\ a \in Seq(Sub) /\ Len(a) = n + 1 /\ a[n + 1] = s
          /\ \A i \in 1..n : a[i] = b[i]
      BY <1>1, <3>1, <3>2
    <3> QED BY <3>1, <3>2, <3>3
  <2>2. PICK bs : bs = Append(xs, a)
    OBVIOUS
  <2>3. /\ bs \in Seq(Seq(Sub)) /\ Len(bs) = k + 1 /\ bs[k + 1] = a
        /\ \A j \in 1..k : bs[j] = xs[j]
    <3>1. Len(xs) = k /\ xs \in Seq(Seq(Sub)) /\ a \in Seq(Sub)
      BY <1>1, <2>1
    <3>2. bs \in Seq(Seq(Sub))
      BY <2>2, <3>1
    <3>3. Len(bs) = Len(xs) + 1 /\ bs[Len(xs) + 1] = a
      BY <2>2, <3>1
    <3>4. \A j \in 1..Len(xs) : bs[j] = xs[j]
      BY <2>2, <3>1
    <3> QED BY <3>1, <3>2, <3>3, <3>4
  <2>4. /\ arrays' = [arrays EXCEPT ![t] = bs]
        /\ slice' = [slice EXCEPT ![t] = [arr |-> k + 1, len |-> n + 1]]
    BY <1>1, <1>3, <2>1, <2>2 DEF Appended, ArraysTyped
  <2>5. \A j \in 1..k : Len(bs[j]) >= Len(xs[j])
    <3>1. \A j \in 1..k : Len(xs[j]) \in Nat
      BY <1>1
    <3> QED BY <2>3, <3>1
  <2>6. \A j \in 1..k : \A i \in 1..Len(xs[j]) : bs[j][i] = xs[j][i]
    BY <2>3
  <2>7. \A i \in 1..n : bs[k + 1][i] = old[i]
    BY <2>1, <2>3
  <2>8. /\ k + 1 > 0 /\ n + 1 <= Len(bs[k + 1]) /\ k + 1 \in {k, k + 1}
        /\ bs[k + 1][n + 1] = s
    BY <2>1, <2>3
  <2>9. Appends(t, s, bs)
    BY <1>1, <2>3, <2>4, <2>5, <2>6, <2>7, <2>8 DEF Appends
  <2> QED BY <2>3, <2>9
<1> QED BY <1>2, <1>3

\* append leaves every array at least as long as it was.
LEMMA AppendGrows ==
    ASSUME ArraysTyped, NEW t \in Topic, NEW s \in Sub, Appended(t, s)
    PROVE  /\ ArraysTyped'
           /\ \A u \in Topic :
                /\ Len(arrays'[u]) >= Len(arrays[u])
                /\ \A j \in 1..Len(arrays[u]) :
                     Len(arrays'[u][j]) >= Len(arrays[u][j])
<1>1. PICK n \in Nat, k \in Nat :
         n = slice[t].len + 1 /\ k = slice[t].arr /\ k = Len(arrays[t])
  <2>1. slice[t].len \in Nat /\ slice[t].arr \in Nat
        /\ slice[t].arr = Len(arrays[t])
    BY ArrayTyped
  <2>2. slice[t].len + 1 \in Nat
    BY <2>1
  <2> QED BY <2>1, <2>2
<1>2. PICK bs \in Seq(Seq(Sub)) : Appends(t, s, bs)
  BY AppendShape
<1>3. /\ arrays' = [arrays EXCEPT ![t] = bs]
      /\ slice' = [slice EXCEPT ![t] = [arr |-> Len(bs), len |-> n]]
      /\ Len(bs) > 0 /\ n <= Len(bs[Len(bs)]) /\ Len(bs) \in {k, k + 1}
      /\ \A j \in 1..k : Len(bs[j]) >= Len(arrays[t][j])
  BY <1>1, <1>2 DEF Appends
<1>4. Len(bs) >= Len(arrays[t])
  BY <1>1, <1>3
<1> QED BY <1>1, <1>3, <1>4, Replaced

\* What does not touch a topic's slice leaves every Publish known.
LEMMA PubsStay ==
    ASSUME ArraysTyped, PubsKnown, pub' = pub,
           \A u \in Topic :
              /\ Len(arrays'[u]) >= Len(arrays[u])
              /\ \A j \in 1..Len(arrays[u]) :
                   Len(arrays'[u][j]) >= Len(arrays[u][j]),
           ArraysTyped'
    PROVE  PubsKnown'
<1> SUFFICES ASSUME NEW e \in Event, pub[e].pc = "send"
             PROVE  PubKnown(pub[e])'
  BY DEF PubsKnown, PubKnown, Fields
<1>1. PubKnown(pub[e])
  BY DEF PubsKnown
<1>2. PICK u \in Topic, k \in Nat, n \in Nat :
         /\ u = pub[e].topic /\ k = pub[e].arr /\ n = pub[e].len
         /\ k \in 1..Len(arrays[u]) /\ n <= Len(arrays[u][k])
         /\ pub[e].i \in 1..n
  BY <1>1 DEF PubKnown
<1>3. PICK xs, ys \in Seq(Seq(Sub)) : xs = arrays[u] /\ ys = arrays'[u]
  BY DEF ArraysTyped
<1>4. Len(ys) >= Len(xs) /\ Len(ys[k]) >= Len(xs[k])
  BY <1>2, <1>3
<1>5. k \in 1..Len(ys)
  BY <1>2, <1>3, <1>4
<1>6. Len(xs[k]) \in Nat /\ Len(ys[k]) \in Nat
  <2>1. xs[k] \in Seq(Sub) /\ ys[k] \in Seq(Sub)
    <3>1. k \in 1..Len(xs)
      BY <1>2, <1>3
    <3> QED BY <1>5, <3>1
  <2> QED BY <2>1
<1>7. n <= Len(ys[k])
  <2>1. n <= Len(xs[k])
    BY <1>2, <1>3
  <2> QED BY <1>4, <1>6, <2>1
<1> QED BY <1>2, <1>3, <1>5, <1>7 DEF PubKnown

\* One call moves on.
LEMMA PubPut ==
    ASSUME PubsKnown, NEW e \in Event, NEW p, DOMAIN p = Fields, PubKnown(p),
           pub' = [pub EXCEPT ![e] = p], UNCHANGED <<slice, arrays>>
    PROVE  PubsKnown'
<1>1. pub'[e] = p /\ \A d \in Event : d # e => pub'[d] = pub[d]
  BY DEF PubsKnown
<1>2. DOMAIN pub' = Event
  BY DEF PubsKnown
<1>3. ASSUME NEW d \in Event
      PROVE  DOMAIN pub'[d] = Fields /\ PubKnown(pub[d])'
  <2>1. CASE d = e
    BY <1>1, <2>1 DEF PubKnown
  <2>2. CASE d # e
    BY <1>1, <2>2 DEF PubsKnown, PubKnown
  <2> QED BY <2>1, <2>2
<1> QED BY <1>2, <1>3 DEF PubsKnown, Fields, Event

\* A channel's buffer changes, and the channel stays open.
LEMMA ChanPut ==
    ASSUME AllStay, NEW t \in Topic, NEW s \in Sub, NEW b \in Seq(Event),
           chan' = [chan EXCEPT ![t][s].buf = b]
    PROVE  chan' \in [Topic -> [Sub -> [st: {"none", "open"}, buf: Seq(Event)]]]
<1> DEFINE Ch == [st: {"none", "open"}, buf: Seq(Event)]
<1>1. PICK x \in Ch : x = chan[t][s]
  BY DEF AllStay
<1>2. PICK y : y = [x EXCEPT !.buf = b]
  OBVIOUS
<1>3. y \in Ch
  BY <1>1, <1>2
<1>4. PICK f \in [Sub -> Ch] : f = chan[t]
  BY DEF AllStay
<1>5. PICK m : m = [f EXCEPT ![s] = y]
  OBVIOUS
<1>6. m \in [Sub -> Ch]
  BY <1>3, <1>4, <1>5
<1>7. chan' = [chan EXCEPT ![t] = m]
  BY <1>1, <1>2, <1>4, <1>5
<1>8. chan \in [Topic -> [Sub -> Ch]]
  BY DEF AllStay
<1>9. chan' \in [Topic -> [Sub -> Ch]]
  BY <1>6, <1>7, <1>8
<1> QED BY <1>9

\* The arrays and the calls stay as they are.
LEMMA SlicesStay ==
    ASSUME ArraysTyped, PubsKnown, UNCHANGED <<slice, arrays, pub>>
    PROVE  ArraysTyped' /\ PubsKnown'
BY DEF ArraysTyped, PubsKnown, PubKnown, Fields

\* The steps of a subscriber's goroutine while the process is live.
LEMMA SubscriberLive ==
    ASSUME LiveInv, NEW t \in Topic, NEW s \in Sub, Subscriber(t, s)
    PROVE  LiveInv'
<1>0. ArraysTyped /\ PubsKnown /\ AllStay /\ ServingOpen /\ ctx = "live"
      /\ crashed = FALSE
  BY DEF LiveInv
<1>1. CASE Subscribe(t, s)
  <2>1. ArraysTyped' /\ PubsKnown'
    BY <1>0, <1>1, AppendGrows, PubsStay DEF Subscribe
  <2>2. AllStay'
    BY <1>0, <1>1 DEF Subscribe, AllStay
  <2>3. ServingOpen'
    BY <1>0, <1>1 DEF Subscribe, ServingOpen, OpenClients, sseVars
  <2> QED BY <1>0, <1>1, <2>1, <2>2, <2>3 DEF Subscribe, LiveInv
<1>2. CASE Receive(t, s)
  <2>1. PICK b \in Seq(Event) : b = chan[t][s].buf /\ b # <<>>
                                /\ Tail(b) \in Seq(Event)
    BY <1>0, <1>2 DEF Receive, AllStay
  <2>2. chan' = [chan EXCEPT ![t][s].buf = Tail(b)]
    BY <1>2, <2>1 DEF Receive
  <2>3. AllStay'
    <3>1. chan' \in [Topic -> [Sub -> [st: {"none", "open"}, buf: Seq(Event)]]]
      BY <1>0, <2>1, <2>2, ChanPut
    <3> QED BY <1>0, <1>2, <3>1 DEF Receive, AllStay
  <2>4. ServingOpen' /\ ArraysTyped' /\ PubsKnown'
    BY <1>0, <1>2, SlicesStay DEF Receive, ServingOpen, OpenClients, sseVars
  <2> QED BY <1>0, <1>2, <2>3, <2>4 DEF Receive, LiveInv
<1>3. CASE Close(t, s)
  BY <1>0, <1>3 DEF Close
<1>4. CASE Remove(t, s)
  BY <1>0, <1>4 DEF Remove, AllStay
<1>5. CASE DispatchBegin(t)
  <2>1. PICK b \in Seq(Event) : b = chan[t][Notifier].buf /\ b # <<>>
                                /\ Tail(b) \in Seq(Event)
    BY <1>0, <1>5, BusAssumption DEF DispatchBegin, AllStay, BusAssumption
  <2>2. chan' = [chan EXCEPT ![t][Notifier].buf = Tail(b)]
    BY <1>5, <2>1 DEF DispatchBegin
  <2>3. AllStay'
    <3>1. chan' \in [Topic -> [Sub -> [st: {"none", "open"}, buf: Seq(Event)]]]
      BY <1>0, <2>1, <2>2, ChanPut, BusAssumption DEF BusAssumption
    <3> QED BY <1>0, <1>5, <3>1, BusAssumption
            DEF DispatchBegin, AllStay, BusAssumption
  <2>4. ServingOpen'
    BY <1>0, <1>5 DEF DispatchBegin, ServingOpen, OpenClients
  <2>5. ArraysTyped' /\ PubsKnown'
    BY <1>0, <1>5, SlicesStay DEF DispatchBegin
  <2> QED BY <1>0, <1>5, <2>3, <2>4, <2>5 DEF DispatchBegin, LiveInv
<1>6. ASSUME NEW c \in Client, DispatchOne(t, c) PROVE LiveInv'
  <2>1. clients[c] = "open"
    BY <1>0, <1>6 DEF DispatchOne, ServingOpen, OpenClients
  <2>2. crashed' = FALSE
    BY <1>6, <2>1 DEF DispatchOne
  <2>3. AllStay'
    BY <1>0, <1>6, BusAssumption DEF DispatchOne, Served, AllStay, BusAssumption
  <2>4. ServingOpen'
    BY <1>0, <1>6 DEF DispatchOne, Served, ServingOpen, OpenClients
  <2>5. ArraysTyped' /\ PubsKnown'
    BY <1>0, <1>6, SlicesStay DEF DispatchOne
  <2> QED BY <1>0, <1>6, <2>2, <2>3, <2>4, <2>5 DEF DispatchOne, LiveInv
<1> QED BY <1>1, <1>2, <1>3, <1>4, <1>5, <1>6 DEF Subscriber

\* A Publish begins with what it finds in the slice, and goes on inside it.
LEMMA PublisherKnown ==
    ASSUME ArraysTyped, PubsKnown, NEW e \in Event, Publisher(e)
    PROVE  ArraysTyped' /\ PubsKnown'
<1>1. ASSUME NEW t \in Topic, PublishBegin(e, t)
      PROVE  ArraysTyped' /\ PubsKnown'
  <2>1. PICK k \in Nat, n \in Nat : k = slice[t].arr /\ n = slice[t].len
    BY DEF ArraysTyped
  <2>2. PICK p : p = [pc |-> IF n = 0 THEN "done" ELSE "send", topic |-> t,
                      arr |-> k, len |-> n, i |-> 1,
                      due |-> Subscribed(t), missed |-> {}]
    OBVIOUS
  <2>3. pub' = [pub EXCEPT ![e] = p] /\ UNCHANGED <<slice, arrays>>
    BY <1>1, <2>1, <2>2 DEF PublishBegin
  <2>4. PubKnown(p)
    <3> SUFFICES ASSUME n # 0
                 PROVE  /\ k \in 1..Len(arrays[t])
                        /\ n <= Len(arrays[t][k]) /\ 1 \in 1..n
      BY <2>1, <2>2 DEF PubKnown
    <3>1. k > 0 /\ n <= Len(arrays[t][k]) /\ k = Len(arrays[t])
      BY <2>1 DEF ArraysTyped
    <3> QED BY <2>1, <3>1
  <2>5. DOMAIN p = Fields
    BY <2>2 DEF Fields
  <2>6. PubsKnown'
    BY <2>3, <2>4, <2>5, PubPut
  <2> QED BY <2>3, <2>6 DEF ArraysTyped
<1>2. CASE PublishOne(e)
  <2>1. PICK p : p = pub[e] /\ p.pc = "send" /\ PubKnown(p)
    BY <1>2 DEF PublishOne, PubsKnown
  <2>2. PICK s, room : pub' = [pub EXCEPT ![e] =
                [p EXCEPT !.pc = IF p.i = p.len THEN "done" ELSE "send",
                          !.i = p.i + 1,
                          !.missed = IF room THEN @ ELSE @ \cup {s}]]
    BY <1>2, <2>1 DEF PublishOne
  <2>3. PICK q : q = [p EXCEPT
                !.pc = IF p.i = p.len THEN "done" ELSE "send",
                !.i = p.i + 1,
                !.missed = IF room THEN @ ELSE @ \cup {s}]
    OBVIOUS
  <2>4. pub' = [pub EXCEPT ![e] = q] /\ UNCHANGED <<slice, arrays>>
    BY <1>2, <2>2, <2>3 DEF PublishOne
  <2>5. DOMAIN p = Fields
    BY <2>1 DEF PubsKnown
  <2>6. DOMAIN q = Fields
    BY <2>3, <2>5
  <2>7. /\ q.pc = IF p.i = p.len THEN "done" ELSE "send"
        /\ q.i = p.i + 1
        /\ q.topic = p.topic /\ q.arr = p.arr /\ q.len = p.len
    BY <2>3, <2>5 DEF Fields
  <2>8. PubKnown(q)
    BY <2>1, <2>7 DEF PubKnown
  <2>9. PubsKnown'
    BY <2>4, <2>6, <2>8, PubPut
  <2> QED BY <2>4, <2>9 DEF ArraysTyped
<1> QED BY <1>1, <1>2 DEF Publisher

\* The steps of a Publish while the process is live: all channels it can
\* meet are open.
LEMMA PublisherLive ==
    ASSUME LiveInv, NEW e \in Event, Publisher(e)
    PROVE  LiveInv'
<1>0. ArraysTyped /\ PubsKnown /\ AllStay /\ ServingOpen /\ ctx = "live"
      /\ crashed = FALSE
  BY DEF LiveInv
<1>1. ArraysTyped' /\ PubsKnown'
  BY <1>0, PublisherKnown
<1>2. ASSUME NEW t \in Topic, PublishBegin(e, t) PROVE LiveInv'
  <2>1. AllStay' /\ ServingOpen'
    BY <1>0, <1>2 DEF PublishBegin, AllStay, ServingOpen, OpenClients, sseVars
  <2> QED BY <1>0, <1>2, <1>1, <2>1 DEF PublishBegin, LiveInv
<1>3. CASE PublishOne(e)
  <2>1. PICK p : p = pub[e] /\ p.pc = "send" /\ PubKnown(p)
    BY <1>0, <1>3 DEF PublishOne, PubsKnown
  <2>2. PICK s \in Sub : s = arrays[p.topic][p.arr][p.i]
    BY <1>0, <2>1, Walked
  <2>3. PICK t \in Topic : t = p.topic
    BY <2>1 DEF PubKnown
  <2>4. chan[t][s] \in [st: {"none", "open"}, buf: Seq(Event)]
    BY <1>0, <2>2, <2>3 DEF AllStay
  <2>5. PICK b \in Seq(Event) : b = chan[t][s].buf /\ Append(b, e) \in Seq(Event)
    <3>1. PICK b \in Seq(Event) : b = chan[t][s].buf
      BY <2>4
    <3> QED BY <3>1
  <2>6. chan[t][s].st # "closed"
    BY <2>4
  <2>7. crashed' = FALSE
    BY <1>3, <2>1, <2>2, <2>3, <2>6 DEF PublishOne
  <2>8. chan' = [chan EXCEPT ![t][s].buf = Append(b, e)] \/ chan' = chan
    BY <1>3, <2>1, <2>2, <2>3, <2>5 DEF PublishOne
  <2>9. AllStay'
    <3>1. chan' \in [Topic -> [Sub -> [st: {"none", "open"}, buf: Seq(Event)]]]
      <4>1. CASE chan' = [chan EXCEPT ![t][s].buf = Append(b, e)]
        BY <1>0, <2>5, <4>1, ChanPut
      <4>2. CASE chan' = chan
        BY <1>0, <4>2 DEF AllStay
      <4> QED BY <2>8, <4>1, <4>2
    <3> QED BY <1>0, <1>3, <3>1 DEF PublishOne, AllStay
  <2>10. ServingOpen' /\ ctx' = "live"
    BY <1>0, <1>3 DEF PublishOne, ServingOpen, OpenClients, sseVars
  <2> QED BY <1>1, <2>7, <2>9, <2>10 DEF LiveInv
<1> QED BY <1>2, <1>3 DEF Publisher

\* Browsers come and go while nobody serves them.
LEMMA BrowserLive ==
    ASSUME LiveInv, NEW c \in Client, Browser(c)
    PROVE  LiveInv'
<1>0. ArraysTyped /\ PubsKnown /\ AllStay /\ ServingOpen /\ ctx = "live"
      /\ crashed = FALSE
  BY DEF LiveInv
<1>1. UNCHANGED <<ctx, crashed, busVars, todo>>
  BY DEF Browser, AddClient, RemoveClient, ClientRead
<1>2. ArraysTyped' /\ PubsKnown' /\ AllStay'
  BY <1>0, <1>1, SlicesStay DEF busVars, AllStay
<1>3. ServingOpen'
  <2>1. CASE AddClient(c)
    BY <1>0, <1>1, <2>1 DEF AddClient, ServingOpen, OpenClients
  <2>2. CASE RemoveClient(c)
    BY <1>0, <1>1, <2>2 DEF RemoveClient, NoReader, ServingOpen, OpenClients
  <2>3. CASE ClientRead(c)
    BY <1>0, <1>1, <2>3 DEF ClientRead, ServingOpen, OpenClients
  <2> QED BY <2>1, <2>2, <2>3 DEF Browser
<1> QED BY <1>0, <1>1, <1>2, <1>3 DEF LiveInv

\* The invariant is kept, and what has been told to stop stays told.
LEMMA BusNext == BusInv /\ [Next]_vars => BusInv'
<1> SUFFICES ASSUME BusInv, [Next]_vars PROVE BusInv'
  OBVIOUS
<1>1. CASE UNCHANGED vars
  <2>1. CASE ctx = "done"
    BY <1>1, <2>1 DEF BusInv, vars
  <2>2. CASE LiveInv
    <3>1. ArraysTyped' /\ PubsKnown'
      BY <1>1, <2>2, SlicesStay DEF vars, busVars, LiveInv
    <3> QED BY <1>1, <2>2, <3>1
            DEF vars, busVars, sseVars, BusInv, LiveInv, AllStay, ServingOpen,
                OpenClients
  <2> QED BY <2>1, <2>2 DEF BusInv
<1>2. CASE Stop
  BY <1>2 DEF Stop, BusInv
<1>3. ASSUME NEW t \in Topic, NEW s \in Sub, Subscriber(t, s) PROVE BusInv'
  <2>1. CASE LiveInv
    BY <1>3, <2>1, SubscriberLive DEF BusInv
  <2>2. CASE ctx = "done"
    BY <1>3, <2>2 DEF Subscriber, Subscribe, Receive, Close, Remove,
       DispatchBegin, DispatchOne, BusInv
  <2> QED BY <2>1, <2>2 DEF BusInv
<1>4. ASSUME NEW e \in Event, Publisher(e) PROVE BusInv'
  <2>1. CASE LiveInv
    BY <1>4, <2>1, PublisherLive DEF BusInv
  <2>2. CASE ctx = "done"
    BY <1>4, <2>2 DEF Publisher, PublishOne, PublishBegin, BusInv
  <2> QED BY <2>1, <2>2 DEF BusInv
<1>5. ASSUME NEW c \in Client, Browser(c) PROVE BusInv'
  <2>1. CASE LiveInv
    BY <1>5, <2>1, BrowserLive DEF BusInv
  <2>2. CASE ctx = "done"
    BY <1>5, <2>2 DEF Browser, AddClient, RemoveClient, ClientRead, BusInv
  <2> QED BY <2>1, <2>2 DEF BusInv
<1>6. CASE Rest
  BY <1>1, <1>6 DEF Rest
<1> QED BY <1>1, <1>2, <1>3, <1>4, <1>5, <1>6 DEF Next

\* Until the process is told to stop, neither a Publish walking a slice that
\* others append to nor a dispatch serving browsers that come and go sends on
\* a closed channel, for any numbers of them and any buffers.
THEOREM NoCrashWhileLiveHolds == Spec => []NoCrashWhileLive
<1>1. BusInv => NoCrashWhileLive
  BY DEF BusInv, LiveInv, NoCrashWhileLive
<1> QED BY BusInit, BusNext, <1>1, PTL DEF Spec
-----------------------------------------------------------------------------
(* Types, and who is in a slice, whether the process is live or stopping.  *)

\* A subscriber is in its topic's slice from Subscribe to Remove.
There == {"run", "dispatch", "closing"}

\* A slice holds those who are there, each once.
ListedOn(t) ==
    /\ \A i, j \in 1..slice[t].len : Array(t)[i] = Array(t)[j] => i = j
    /\ \A i \in 1..slice[t].len : run[t][Array(t)[i]] \in There
    /\ \A s \in Sub : run[t][s] \in There =>
                         \E i \in 1..slice[t].len : Array(t)[i] = s

Listed == \A t \in Topic : ListedOn(t)

\* Browsers are left to serve only while the notifier dispatches, and there
\* is an event to dispatch.
Dispatches ==
    \A t \in Topic :
        todo[t] # {} => run[t][Notifier] = "dispatch" /\ 1 \in Event

\* What TypeOK says of everything but the slices.
RestTyped ==
    /\ ctx \in {"live", "done"} /\ crashed \in BOOLEAN
    /\ chan \in [Topic -> [Sub -> Chan]]
    /\ run \in [Topic -> [Sub -> {"new", "run", "dispatch", "closing", "over"}]]
    /\ pub \in [Event -> Pub] /\ got \in [Event -> [Sub -> Nat]]
    /\ clients \in [Client -> {"new", "open", "closed"}]
    /\ cbuf \in [Client -> Seq(Event)]
    /\ todo \in [Topic -> SUBSET Client]

AlwaysInv ==
    RestTyped /\ ArraysTyped /\ PubsKnown /\ Listed /\ Dispatches

\* At first all slices are empty.
LEMMA AlwaysInit == Init => AlwaysInv
<1> SUFFICES ASSUME Init PROVE AlwaysInv
  OBVIOUS
<1>1. ArraysTyped
  BY DEF Init, ArraysTyped
<1>2. PubsKnown
  <2>1. ASSUME NEW e \in Event
        PROVE  DOMAIN pub[e] = Fields /\ PubKnown(pub[e])
    <3>1. pub[e] = NewPub
      BY DEF Init
    <3>2. DOMAIN NewPub = Fields /\ NewPub.pc = "new"
      BY DEF NewPub, Fields
    <3> QED BY <3>1, <3>2 DEF PubKnown
  <2>2. DOMAIN pub = Event
    BY DEF Init
  <2> QED BY <2>1, <2>2 DEF PubsKnown
<1>3. Listed
  <2> SUFFICES ASSUME NEW t \in Topic PROVE ListedOn(t)
    BY DEF Listed
  <2>1. slice[t].len = 0 /\ \A s \in Sub : run[t][s] = "new"
    BY DEF Init
  <2> QED BY <2>1 DEF ListedOn, There
<1>4. RestTyped
  <2>1. NewPub \in Pub
    <3>1. (CHOOSE t \in Topic : TRUE) \in Topic
      BY BusAssumption DEF BusAssumption
    <3> QED BY <3>1 DEF NewPub, Pub
  <2>2. [st |-> "none", buf |-> <<>>] \in Chan
    BY DEF Chan
  <2>3. pub \in [Event -> Pub] /\ chan \in [Topic -> [Sub -> Chan]]
    BY <2>1, <2>2 DEF Init
  <2>4. <<>> \in Seq(Event)
    OBVIOUS
  <2> QED BY <2>3, <2>4 DEF Init, RestTyped
<1> QED BY <1>1, <1>2, <1>3, <1>4 DEF Init, AlwaysInv, Dispatches

\* One channel is replaced.
LEMMA ChanTyped ==
    ASSUME RestTyped, NEW t \in Topic, NEW s \in Sub, NEW y \in Chan,
           chan' = [chan EXCEPT ![t][s] = y]
    PROVE  chan' \in [Topic -> [Sub -> Chan]]
BY DEF RestTyped

\* A channel's buffer changes.
LEMMA BufTyped ==
    ASSUME RestTyped, NEW t \in Topic, NEW s \in Sub, NEW b \in Seq(Event),
           chan' = [chan EXCEPT ![t][s].buf = b]
    PROVE  chan' \in [Topic -> [Sub -> Chan]]
<1>1. PICK x \in Chan : x = chan[t][s]
  BY DEF RestTyped
<1>2. PICK y : y = [x EXCEPT !.buf = b]
  OBVIOUS
<1>3. y \in Chan
  BY <1>1, <1>2 DEF Chan
<1>4. chan' = [chan EXCEPT ![t][s] = y]
  BY <1>1, <1>2
<1> QED BY <1>3, <1>4, ChanTyped

\* Who is there stays, and so does the list of them.
LEMMA ListedStays ==
    ASSUME ArraysTyped, Listed, UNCHANGED <<slice, arrays>>,
           \A t \in Topic, s \in Sub :
              (run'[t][s] \in There) <=> (run[t][s] \in There)
    PROVE  Listed'
<1> SUFFICES ASSUME NEW t \in Topic PROVE ListedOn(t)'
  BY DEF Listed
<1>1. PICK n \in Nat, a \in Seq(Sub) : n = slice[t].len /\ a = Array(t)
                                       /\ n <= Len(a)
  BY ArrayTyped
<1>2. slice'[t].len = n /\ Array(t)' = a
  BY <1>1 DEF Array
<1>3. \A i \in 1..n : a[i] \in Sub
  BY <1>1
<1>4. ListedOn(t)
  BY DEF Listed
<1> QED BY <1>1, <1>2, <1>3, <1>4 DEF ListedOn

\* A new subscriber is put behind the others.
LEMMA ListedGrows ==
    ASSUME ArraysTyped, Listed, RestTyped, NEW t \in Topic, NEW s \in Sub,
           Subscribe(t, s)
    PROVE  Listed'
<1>1. PICK n \in Nat, a \in Seq(Sub) : n = slice[t].len /\ a = Array(t)
                                       /\ n <= Len(a)
  BY ArrayTyped
<1>2. PICK bs \in Seq(Seq(Sub)) : Appends(t, s, bs)
  BY AppendShape DEF Subscribe
<1>3. /\ arrays' = [arrays EXCEPT ![t] = bs]
      /\ slice' = [slice EXCEPT ![t] = [arr |-> Len(bs), len |-> n + 1]]
      /\ Len(bs) > 0 /\ bs[Len(bs)][n + 1] = s
      /\ \A i \in 1..n : bs[Len(bs)][i] = a[i]
  BY <1>1, <1>2 DEF Appends
<1>4. /\ arrays'[t] = bs /\ \A u \in Topic : u # t => arrays'[u] = arrays[u]
      /\ slice'[t].arr = Len(bs) /\ slice'[t].len = n + 1
      /\ \A u \in Topic : u # t => slice'[u] = slice[u]
  BY <1>3 DEF ArraysTyped
<1>5. PICK b : b = bs[Len(bs)]
  OBVIOUS
<1>6. Array(t)' = b
  BY <1>3, <1>4, <1>5 DEF Array
<1>7. /\ run[t][s] = "new" /\ run'[t][s] = "run"
      /\ \A r \in Sub : r # s => run'[t][r] = run[t][r]
      /\ \A u \in Topic : u # t => run'[u] = run[u]
  BY DEF Subscribe, RestTyped
<1>8. ListedOn(t)'
  <2>1. ListedOn(t) /\ \A i \in 1..n : a[i] \in Sub
    BY <1>1 DEF Listed
  <2>2. \A i \in 1..n : a[i] # s /\ b[i] = a[i]
    BY <1>1, <1>3, <1>5, <1>7, <2>1 DEF ListedOn, There
  <2>3. b[n + 1] = s
    BY <1>3, <1>5
  <2>4. \A i \in 1..(n + 1) : i \in 1..n \/ i = n + 1
    OBVIOUS
  <2>5. \A i, j \in 1..(n + 1) : b[i] = b[j] => i = j
    <3>1. \A i, j \in 1..n : a[i] = a[j] => i = j
      BY <1>1, <2>1 DEF ListedOn
    <3> SUFFICES ASSUME NEW i \in 1..(n + 1), NEW j \in 1..(n + 1),
                        b[i] = b[j]
                 PROVE  i = j
      OBVIOUS
    <3>2. CASE i \in 1..n /\ j \in 1..n
      BY <2>2, <3>1, <3>2
    <3>3. CASE i = n + 1 \/ j = n + 1
      BY <2>2, <2>3, <2>4, <3>3
    <3> QED BY <2>4, <3>2, <3>3
  <2>6. \A i \in 1..(n + 1) : run'[t][b[i]] \in There
    BY <1>1, <1>7, <2>1, <2>2, <2>3, <2>4 DEF ListedOn, There
  <2>7. ASSUME NEW r \in Sub, run'[t][r] \in There
        PROVE  \E i \in 1..(n + 1) : b[i] = r
    <3>1. CASE r = s
      BY <2>3, <3>1
    <3>2. CASE r # s
      <4>1. PICK i \in 1..n : a[i] = r
        BY <1>1, <1>7, <2>1, <2>7, <3>2 DEF ListedOn
      <4>2. i \in 1..(n + 1) /\ b[i] = r
        BY <2>2, <4>1
      <4> QED BY <4>2
    <3> QED BY <3>1, <3>2
  <2> QED BY <1>4, <1>6, <2>5, <2>6, <2>7 DEF ListedOn
<1>9. ASSUME NEW u \in Topic, u # t PROVE ListedOn(u)'
  <2>1. Array(u)' = Array(u) /\ slice'[u] = slice[u] /\ run'[u] = run[u]
    BY <1>4, <1>7, <1>9 DEF Array
  <2> QED BY <2>1 DEF Listed, ListedOn
<1> QED BY <1>8, <1>9 DEF Listed

\* The place of a subscriber that is there.
LEMMA Placed ==
    ASSUME ArraysTyped, Listed, NEW t \in Topic, NEW s \in Sub,
           run[t][s] \in There
    PROVE  /\ Place(t, s) \in 1..slice[t].len
           /\ Array(t)[Place(t, s)] = s
           /\ slice[t].arr \in 1..Len(arrays[t])
           /\ Array(t) = arrays[t][slice[t].arr]
<1>1. PICK i \in 1..slice[t].len : Array(t)[i] = s
  BY DEF Listed, ListedOn
<1>2. slice[t].len \in Nat /\ slice[t].len > 0
  BY <1>1 DEF ArraysTyped
<1>3. slice[t].arr > 0 /\ slice[t].arr = Len(arrays[t]) /\ slice[t].arr \in Nat
  BY <1>2 DEF ArraysTyped
<1>4. Array(t) = arrays[t][slice[t].arr]
  BY <1>3 DEF Array
<1>5. /\ Place(t, s) \in 1..slice[t].len
      /\ arrays[t][slice[t].arr][Place(t, s)] = s
  BY <1>1, <1>4 DEF Place
<1> QED BY <1>3, <1>4, <1>5

\* The current array, the last of bs, lost the element at the place of s.
Removes(t, s, bs) ==
    LET n == slice[t].len
        k == slice[t].arr
        m == Place(t, s)
    IN  /\ m \in 1..n /\ Array(t)[m] = s
        /\ k \in 1..Len(arrays[t]) /\ k = Len(arrays[t]) /\ Len(bs) = k
        /\ n <= Len(bs[k])
        /\ arrays' = [arrays EXCEPT ![t] = bs]
        /\ slice' = [slice EXCEPT ![t] = [arr |-> k, len |-> n - 1]]
        /\ \A j \in 1..k : Len(bs[j]) = Len(arrays[t][j])
        /\ \A i \in 1..(m - 1) : bs[k][i] = Array(t)[i]
        /\ \A i \in m..(n - 1) : bs[k][i] = Array(t)[i + 1]

\* Remove shifts those behind the place down, in the same array.
LEMMA RemoveShape ==
    ASSUME ArraysTyped, Listed, NEW t \in Topic, NEW s \in Sub, Remove(t, s)
    PROVE  \E bs \in Seq(Seq(Sub)) : Removes(t, s, bs)
<1>1. PICK n \in Nat, k \in Nat, old \in Seq(Sub), xs \in Seq(Seq(Sub)) :
         /\ n = slice[t].len /\ k = slice[t].arr /\ old = Array(t)
         /\ n <= Len(old) /\ xs = arrays[t] /\ k = Len(xs)
  BY ArrayTyped
<1>2. PICK m \in Nat : /\ m = Place(t, s) /\ m \in 1..n /\ old[m] = s
                       /\ k \in 1..k /\ old = xs[k]
  <2>1. run[t][s] \in There
    BY DEF Remove, There
  <2>2. /\ Place(t, s) \in 1..slice[t].len /\ Array(t)[Place(t, s)] = s
        /\ slice[t].arr \in 1..Len(arrays[t])
        /\ Array(t) = arrays[t][slice[t].arr]
    BY <2>1, Placed
  <2>3. Place(t, s) \in Nat
    BY <1>1, <2>2
  <2> QED BY <1>1, <2>2, <2>3
<1>3. PICK b : b = [j \in DOMAIN old |-> IF j >= m /\ j < n THEN old[j + 1]
                                         ELSE old[j]]
  OBVIOUS
<1>4. b \in Seq(Sub) /\ Len(b) = Len(old)
  <2>1. DOMAIN old = 1..Len(old) /\ Len(old) \in Nat
    BY <1>1
  <2>2. ASSUME NEW j \in 1..Len(old), j >= m, j < n PROVE old[j + 1] \in Sub
    <3>1. j + 1 \in 1..Len(old)
      BY <1>1, <1>2, <2>1, <2>2
    <3> QED BY <3>1
  <2>3. b \in [1..Len(old) -> Sub]
    BY <1>3, <2>1, <2>2
  <2> QED BY <2>1, <2>3
<1>5. PICK bs : bs = [xs EXCEPT ![k] = b]
  OBVIOUS
<1>6. /\ bs \in Seq(Seq(Sub)) /\ Len(bs) = k /\ bs[k] = b
      /\ \A j \in 1..k : j # k => bs[j] = xs[j]
  BY <1>1, <1>2, <1>4, <1>5
<1>7. arrays' = [arrays EXCEPT ![t] = bs]
  BY <1>1, <1>2, <1>3, <1>5 DEF Remove, ArraysTyped
<1>8. slice' = [slice EXCEPT ![t] = [arr |-> k, len |-> n - 1]]
  <2>1. PICK x \in [arr: Nat, len: Nat] : x = slice[t] /\ x.arr = k /\ x.len = n
    BY <1>1 DEF ArraysTyped
  <2>2. slice' = [slice EXCEPT ![t] = [x EXCEPT !.len = n - 1]]
    BY <2>1 DEF Remove
  <2>3. [x EXCEPT !.len = n - 1] = [arr |-> k, len |-> n - 1]
    BY <2>1
  <2> QED BY <2>2, <2>3
<1>9. \A j \in 1..k : Len(bs[j]) = Len(xs[j])
  BY <1>2, <1>4, <1>6
<1>10. \A i \in 1..(m - 1) : b[i] = old[i]
  <2> SUFFICES ASSUME NEW i \in 1..(m - 1) PROVE b[i] = old[i]
    OBVIOUS
  <2>1. i \in DOMAIN old /\ ~ (i >= m)
    BY <1>1, <1>2
  <2> QED BY <1>3, <2>1
<1>11. \A i \in m..(n - 1) : b[i] = old[i + 1]
  <2> SUFFICES ASSUME NEW i \in m..(n - 1) PROVE b[i] = old[i + 1]
    OBVIOUS
  <2>1. i \in DOMAIN old /\ i >= m /\ i < n
    BY <1>1, <1>2
  <2> QED BY <1>3, <2>1
<1>12. n <= Len(bs[k])
  BY <1>1, <1>4, <1>6
<1>13. Removes(t, s, bs)
  BY <1>1, <1>2, <1>6, <1>7, <1>8, <1>9, <1>10, <1>11, <1>12 DEF Removes
<1> QED BY <1>6, <1>13

\* Who is left behind a leaver stays in the list.
LEMMA ListedShrinks ==
    ASSUME ArraysTyped, Listed, RestTyped, NEW t \in Topic, NEW s \in Sub,
           Remove(t, s)
    PROVE  Listed'
<1>1. PICK n \in Nat, a \in Seq(Sub) : n = slice[t].len /\ a = Array(t)
                                       /\ n <= Len(a)
  BY ArrayTyped
<1>2. PICK bs \in Seq(Seq(Sub)) : Removes(t, s, bs)
  BY RemoveShape
<1>3. PICK k \in Nat, m \in Nat :
         /\ k = slice[t].arr /\ m = Place(t, s)
         /\ k > 0 /\ m \in 1..n /\ a[m] = s
  <2>1. slice[t].arr \in Nat /\ slice[t].arr > 0 /\ Place(t, s) \in 1..n
        /\ a[Place(t, s)] = s
    BY <1>1, <1>2 DEF Removes, ArraysTyped
  <2> QED BY <2>1
<1> DEFINE b == bs[k]
<1>4. /\ arrays'[t] = bs /\ \A u \in Topic : u # t => arrays'[u] = arrays[u]
      /\ slice'[t].arr = k /\ slice'[t].len = n - 1
      /\ \A u \in Topic : u # t => slice'[u] = slice[u]
  BY <1>1, <1>2, <1>3 DEF ArraysTyped, Removes
<1>5. Array(t)' = b
  BY <1>3, <1>4 DEF Array
<1>6. \A i \in 1..(n - 1) : b[i] = a[IF i < m THEN i ELSE i + 1]
  <2>1. /\ \A i \in 1..(m - 1) : b[i] = a[i]
        /\ \A i \in m..(n - 1) : b[i] = a[i + 1]
    BY <1>1, <1>2, <1>3 DEF Removes
  <2> SUFFICES ASSUME NEW i \in 1..(n - 1)
               PROVE  b[i] = a[IF i < m THEN i ELSE i + 1]
    OBVIOUS
  <2>2. CASE i < m
    <3>1. i \in 1..(m - 1)
      BY <1>3, <2>2
    <3> QED BY <2>1, <2>2, <3>1
  <2>3. CASE ~ (i < m)
    <3>1. i \in m..(n - 1)
      BY <1>3, <2>3
    <3> QED BY <2>1, <2>3, <3>1
  <2> QED BY <2>2, <2>3
<1>7. /\ run[t][s] = "closing" /\ run'[t][s] = "over"
      /\ \A r \in Sub : r # s => run'[t][r] = run[t][r]
      /\ \A u \in Topic : u # t => run'[u] = run[u]
  BY DEF Remove, RestTyped
<1>8. /\ \A i, j \in 1..n : a[i] = a[j] => i = j
      /\ \A i \in 1..n : a[i] \in Sub /\ run[t][a[i]] \in There
      /\ \A r \in Sub : run[t][r] \in There => \E i \in 1..n : a[i] = r
  <2>1. ListedOn(t) /\ \A i \in 1..n : a[i] \in Sub
    BY <1>1 DEF Listed
  <2> QED BY <1>1, <2>1 DEF ListedOn
<1>9. ListedOn(t)'
  <2>1. \A i, j \in 1..(n - 1) : b[i] = b[j] => i = j
    <3> SUFFICES ASSUME NEW i \in 1..(n - 1), NEW j \in 1..(n - 1), b[i] = b[j]
                 PROVE  i = j
      OBVIOUS
    <3>1. PICK p \in 1..n, q \in 1..n : /\ p = IF i < m THEN i ELSE i + 1
                                        /\ q = IF j < m THEN j ELSE j + 1
      OBVIOUS
    <3>2. p = q
      <4>1. a[p] = b[i] /\ a[q] = b[j]
        BY <1>6, <3>1
      <4> QED BY <1>8, <4>1
    <3> QED BY <3>1, <3>2
  <2>2. ASSUME NEW i \in 1..(n - 1) PROVE run'[t][b[i]] \in There
    <3>1. PICK p \in 1..n : p = (IF i < m THEN i ELSE i + 1) /\ p # m
      OBVIOUS
    <3>2. b[i] = a[p] /\ a[p] # s
      BY <1>3, <1>6, <1>8, <3>1
    <3>3. PICK r \in Sub : r = a[p] /\ run[t][r] \in There
      BY <1>8, <3>1
    <3> QED BY <1>7, <3>2, <3>3
  <2>3. ASSUME NEW r \in Sub, run'[t][r] \in There
        PROVE  \E i \in 1..(n - 1) : b[i] = r
    <3>1. r # s
      BY <1>7, <2>3 DEF There
    <3>2. PICK p \in 1..n : a[p] = r
      BY <1>7, <1>8, <2>3, <3>1
    <3>3. p # m
      BY <1>3, <3>1, <3>2
    <3>4. PICK i : i = IF p < m THEN p ELSE p - 1
      OBVIOUS
    <3>5. i \in 1..(n - 1) /\ p = IF i < m THEN i ELSE i + 1
      BY <1>3, <3>3, <3>4
    <3> QED BY <1>6, <3>2, <3>5
  <2> QED BY <1>4, <1>5, <2>1, <2>2, <2>3 DEF ListedOn
<1>10. ASSUME NEW u \in Topic, u # t PROVE ListedOn(u)'
  <2>1. Array(u)' = Array(u) /\ slice'[u] = slice[u] /\ run'[u] = run[u]
    BY <1>4, <1>7, <1>10 DEF Array
  <2> QED BY <2>1 DEF Listed, ListedOn
<1> QED BY <1>9, <1>10 DEF Listed

\* Remove leaves every array as long as it was.
LEMMA RemoveKeeps ==
    ASSUME ArraysTyped, Listed, NEW t \in Topic, NEW s \in Sub, Remove(t, s)
    PROVE  /\ ArraysTyped'
           /\ \A u \in Topic :
                /\ Len(arrays'[u]) >= Len(arrays[u])
                /\ \A j \in 1..Len(arrays[u]) :
                     Len(arrays'[u][j]) >= Len(arrays[u][j])
<1>1. PICK bs \in Seq(Seq(Sub)) : Removes(t, s, bs)
  BY RemoveShape
<1>2. PICK xs \in Seq(Seq(Sub)), k \in Nat, n \in Nat :
         xs = arrays[t] /\ k = slice[t].arr /\ n = slice[t].len
  BY DEF ArraysTyped
<1>3. /\ n > 0 /\ k > 0 /\ k = Len(xs) /\ Len(bs) = k /\ n <= Len(bs[k])
      /\ arrays' = [arrays EXCEPT ![t] = bs]
      /\ slice' = [slice EXCEPT ![t] = [arr |-> k, len |-> n - 1]]
      /\ \A j \in 1..k : Len(bs[j]) = Len(xs[j])
  BY <1>1, <1>2 DEF Removes
<1>4. \A j \in 1..k : Len(bs[j]) \in Nat /\ Len(bs[j]) >= Len(xs[j])
  BY <1>3
<1>5. n - 1 \in Nat /\ n - 1 <= Len(bs[Len(bs)])
  BY <1>3, <1>4
<1>6. slice' = [slice EXCEPT ![t] = [arr |-> Len(bs), len |-> n - 1]]
  BY <1>3
<1>7. Len(bs) > 0 /\ Len(bs) >= Len(arrays[t])
  BY <1>2, <1>3
<1>8. \A j \in 1..Len(arrays[t]) : Len(bs[j]) >= Len(arrays[t][j])
  BY <1>2, <1>3, <1>4
<1>9. arrays' = [arrays EXCEPT ![t] = bs]
  BY <1>3
<1> QED BY <1>5, <1>6, <1>7, <1>8, <1>9, Replaced

\* The steps of a subscriber's goroutine keep the types.
LEMMA SubscriberTyped ==
    ASSUME AlwaysInv, NEW t \in Topic, NEW s \in Sub, Subscriber(t, s)
    PROVE  RestTyped'
<1>0. RestTyped /\ Notifier \in Sub
  BY BusAssumption DEF AlwaysInv, BusAssumption
<1>1. CASE Subscribe(t, s)
  <2>1. [st |-> "open", buf |-> <<>>] \in Chan
    BY DEF Chan
  <2>2. chan' \in [Topic -> [Sub -> Chan]]
    BY <1>0, <1>1, <2>1, ChanTyped DEF Subscribe
  <2> QED BY <1>0, <1>1, <2>2 DEF Subscribe, RestTyped, sseVars
<1>2. CASE Receive(t, s)
  <2>1. PICK b \in Seq(Event) : b = chan[t][s].buf /\ Tail(b) \in Seq(Event)
    BY <1>0, <1>2 DEF Receive, RestTyped, Chan
  <2>2. chan' \in [Topic -> [Sub -> Chan]]
    BY <1>0, <1>2, <2>1, BufTyped DEF Receive
  <2> QED BY <1>0, <1>2, <2>2 DEF Receive, RestTyped, sseVars
<1>3. CASE Close(t, s)
  <2>1. PICK x \in Chan : x = chan[t][s]
    BY <1>0 DEF RestTyped
  <2>2. [x EXCEPT !.st = "closed"] \in Chan
    BY DEF Chan
  <2>3. chan' = [chan EXCEPT ![t][s] = [x EXCEPT !.st = "closed"]]
    BY <1>3, <2>1 DEF Close
  <2>4. chan' \in [Topic -> [Sub -> Chan]]
    BY <1>0, <2>2, <2>3, ChanTyped
  <2> QED BY <1>0, <1>3, <2>4 DEF Close, RestTyped, sseVars
<1>4. CASE Remove(t, s)
  BY <1>0, <1>4 DEF Remove, RestTyped, sseVars
<1>5. CASE DispatchBegin(t)
  <2>1. PICK b \in Seq(Event) :
           b = chan[t][Notifier].buf /\ Tail(b) \in Seq(Event)
    BY <1>0, <1>5 DEF DispatchBegin, RestTyped, Chan
  <2>2. chan' \in [Topic -> [Sub -> Chan]]
    BY <1>0, <1>5, <2>1, BufTyped DEF DispatchBegin
  <2> QED BY <1>0, <1>5, <2>2 DEF DispatchBegin, RestTyped, OpenClients
<1>6. ASSUME NEW c \in Client, DispatchOne(t, c) PROVE RestTyped'
  <2>1. crashed' \in BOOLEAN
    BY <1>6, Zenon DEF DispatchOne
  <2>2. 1 \in Event
    BY <1>6 DEF DispatchOne, AlwaysInv, Dispatches
  <2>3. cbuf' \in [Client -> Seq(Event)]
    <3>1. CASE cbuf' = cbuf
      BY <1>0, <3>1 DEF RestTyped
    <3>2. CASE cbuf' = [cbuf EXCEPT ![c] = Append(@, 1)]
      <4>1. PICK b \in Seq(Event) : b = cbuf[c] /\ Append(b, 1) \in Seq(Event)
        BY <1>0, <2>2 DEF RestTyped
      <4>2. cbuf' = [cbuf EXCEPT ![c] = Append(b, 1)]
        BY <3>2, <4>1
      <4> QED BY <1>0, <4>1, <4>2 DEF RestTyped
    <3> QED BY <1>6, <3>1, <3>2 DEF DispatchOne
  <2> QED BY <1>0, <1>6, <2>1, <2>3 DEF DispatchOne, Served, RestTyped
<1> QED BY <1>1, <1>2, <1>3, <1>4, <1>5, <1>6 DEF Subscriber

\* A Publish that moves on keeps its type.
LEMMA PubMoves ==
    ASSUME NEW p \in Pub, NEW c \in {"new", "send", "done"}, NEW j \in Nat,
           NEW m \in SUBSET Sub
    PROVE  [p EXCEPT !.pc = c, !.i = j, !.missed = m] \in Pub
BY DEF Pub

\* The steps of a Publish keep the types.
LEMMA PublisherTyped ==
    ASSUME AlwaysInv, NEW e \in Event, Publisher(e)
    PROVE  RestTyped'
<1>0. RestTyped /\ ArraysTyped /\ PubsKnown
  BY DEF AlwaysInv
<1>1. ASSUME NEW t \in Topic, PublishBegin(e, t) PROVE RestTyped'
  <2>1. PICK k \in Nat, n \in Nat : k = slice[t].arr /\ n = slice[t].len
    BY <1>0 DEF ArraysTyped
  <2>2. Subscribed(t) \in SUBSET Sub
    <3> SUFFICES ASSUME NEW i \in 1..n PROVE arrays[t][k][i] \in Sub
      BY <2>1 DEF Subscribed
    <3>1. PICK a \in Seq(Sub) : a = Array(t) /\ n <= Len(a)
      BY <1>0, <2>1, ArrayTyped
    <3>2. k > 0
      BY <1>0, <2>1 DEF ArraysTyped
    <3>3. a = arrays[t][k]
      BY <2>1, <3>1, <3>2 DEF Array
    <3> QED BY <3>1, <3>3
  <2>3. PICK p : p = [pc |-> IF n = 0 THEN "done" ELSE "send",
                      topic |-> t, arr |-> k, len |-> n, i |-> 1,
                      due |-> Subscribed(t), missed |-> {}]
    OBVIOUS
  <2>4. p \in Pub
    BY <2>2, <2>3 DEF Pub
  <2>5. pub' = [pub EXCEPT ![e] = p]
    BY <1>1, <2>1, <2>3 DEF PublishBegin
  <2>6. pub' \in [Event -> Pub]
    BY <1>0, <2>5, <2>4 DEF RestTyped
  <2> QED BY <1>0, <1>1, <2>6 DEF PublishBegin, RestTyped, sseVars
<1>2. CASE PublishOne(e)
  <2>1. PICK p \in Pub : p = pub[e] /\ p.pc = "send" /\ PubKnown(p)
    BY <1>0, <1>2 DEF PublishOne, PubsKnown, RestTyped
  <2>2. PICK s \in Sub : s = arrays[p.topic][p.arr][p.i]
    BY <1>0, <2>1, Walked
  <2>3. PICK t \in Topic : t = p.topic
    BY <2>1 DEF PubKnown
  <2>4. PICK b \in Seq(Event) : b = chan[t][s].buf /\ Append(b, e) \in Seq(Event)
    <3>1. PICK b \in Seq(Event) : b = chan[t][s].buf
      BY <1>0 DEF RestTyped, Chan
    <3> QED BY <3>1
  <2>5. crashed' \in BOOLEAN
    BY <1>2, Zenon DEF PublishOne
  <2>6. chan' = [chan EXCEPT ![t][s].buf = Append(b, e)] \/ chan' = chan
    BY <1>2, <2>1, <2>2, <2>3, <2>4 DEF PublishOne
  <2>7. chan' \in [Topic -> [Sub -> Chan]]
    <3>1. CASE chan' = [chan EXCEPT ![t][s].buf = Append(b, e)]
      BY <1>0, <2>4, <3>1, BufTyped
    <3>2. CASE chan' = chan
      BY <1>0, <3>2 DEF RestTyped
    <3> QED BY <2>6, <3>1, <3>2
  <2>8. got' \in [Event -> [Sub -> Nat]]
    <3>1. PICK y \in Nat : y = got[e][s] + 1
      BY <1>0 DEF RestTyped
    <3>2. got' = [got EXCEPT ![e][s] = y] \/ got' = got
      BY <1>2, <2>1, <2>2, <3>1 DEF PublishOne
    <3>3. PICK g : g = [got[e] EXCEPT ![s] = y]
      OBVIOUS
    <3>4. g \in [Sub -> Nat]
      BY <1>0, <3>3 DEF RestTyped
    <3>5. got' = [got EXCEPT ![e] = g] \/ got' = got
      BY <3>2, <3>3
    <3> QED BY <1>0, <3>4, <3>5 DEF RestTyped
  <2>9. pub' \in [Event -> Pub]
    <3>1. PICK room : pub' = [pub EXCEPT ![e] =
                [p EXCEPT !.pc = IF p.i = p.len THEN "done" ELSE "send",
                          !.i = p.i + 1,
                          !.missed = IF room THEN @ ELSE @ \cup {s}]]
      BY <1>2, <2>1, <2>2 DEF PublishOne
    <3>2. PICK m \in SUBSET Sub :
             m = IF room THEN p.missed ELSE p.missed \cup {s}
      BY DEF Pub
    <3>3. PICK c \in {"send", "done"} :
             c = IF p.i = p.len THEN "done" ELSE "send"
      OBVIOUS
    <3>4. p \in Pub /\ c \in {"new", "send", "done"} /\ m \in SUBSET Sub
      BY <2>1, <3>2, <3>3
    <3>5. PICK j \in Nat : j = p.i + 1
      BY <3>4 DEF Pub
    <3>6. PICK q : q = [p EXCEPT !.pc = c, !.i = j, !.missed = m]
      OBVIOUS
    <3>7. q \in Pub
      BY <3>4, <3>5, <3>6, PubMoves
    <3>8. pub' = [pub EXCEPT ![e] = q]
      BY <3>1, <3>2, <3>3, <3>5, <3>6
    <3> QED BY <1>0, <3>7, <3>8 DEF RestTyped
  <2> QED BY <1>0, <1>2, <2>5, <2>7, <2>8, <2>9
          DEF PublishOne, RestTyped, sseVars
<1> QED BY <1>1, <1>2 DEF Publisher

\* Browsers keep the types.
LEMMA BrowserTyped ==
    ASSUME RestTyped, NEW c \in Client, Browser(c)
    PROVE  RestTyped'
<1>1. UNCHANGED <<ctx, crashed, busVars, todo>>
  BY DEF Browser, AddClient, RemoveClient, ClientRead
<1>2. clients' \in [Client -> {"new", "open", "closed"}]
  BY DEF Browser, AddClient, RemoveClient, ClientRead, RestTyped
<1>3. cbuf' \in [Client -> Seq(Event)]
  <2>1. CASE AddClient(c)
    BY <2>1 DEF AddClient, RestTyped
  <2>2. CASE RemoveClient(c)
    BY <2>2 DEF RemoveClient, RestTyped
  <2>3. CASE ClientRead(c)
    <3>1. PICK b \in Seq(Event) : b = cbuf[c] /\ Tail(b) \in Seq(Event)
      BY <2>3 DEF ClientRead, RestTyped
    <3> QED BY <2>3, <3>1 DEF ClientRead, RestTyped
  <2> QED BY <2>1, <2>2, <2>3 DEF Browser
<1> QED BY <1>1, <1>2, <1>3 DEF RestTyped, busVars

\* A subscriber's steps keep the slices, and who is in them.
LEMMA SubscriberListed ==
    ASSUME AlwaysInv, NEW t \in Topic, NEW s \in Sub, Subscriber(t, s)
    PROVE  ArraysTyped' /\ PubsKnown' /\ Listed' /\ Dispatches'
<1>0. /\ RestTyped /\ ArraysTyped /\ PubsKnown /\ Listed /\ Dispatches
      /\ Notifier \in Sub
  BY BusAssumption DEF AlwaysInv, BusAssumption
<1>1. CASE Subscribe(t, s)
  <2>1. ArraysTyped' /\ PubsKnown'
    BY <1>0, <1>1, AppendGrows, PubsStay DEF Subscribe
  <2>2. Listed'
    BY <1>0, <1>1, ListedGrows
  <2>3. Dispatches'
    BY <1>0, <1>1 DEF Subscribe, Dispatches, sseVars, RestTyped
  <2> QED BY <2>1, <2>2, <2>3
<1>2. CASE Receive(t, s)
  <2>1. UNCHANGED <<slice, arrays, run, pub, todo>>
    BY <1>2 DEF Receive, sseVars
  <2> QED BY <1>0, <2>1, SlicesStay, ListedStays DEF Dispatches
<1>3. CASE Close(t, s)
  <2>1. UNCHANGED <<slice, arrays, pub, todo>>
    BY <1>3 DEF Close, sseVars
  <2>2. \A u \in Topic, r \in Sub :
           (run'[u][r] \in There) <=> (run[u][r] \in There)
    BY <1>0, <1>3 DEF Close, There, RestTyped
  <2>3. Listed'
    BY <1>0, <2>1, <2>2, ListedStays
  <2>4. Dispatches'
    BY <1>0, <1>3 DEF Close, Dispatches, RestTyped, sseVars
  <2> QED BY <1>0, <2>1, <2>3, <2>4, SlicesStay
<1>4. CASE Remove(t, s)
  <2>1. ArraysTyped' /\ PubsKnown'
    BY <1>0, <1>4, RemoveKeeps, PubsStay DEF Remove
  <2>2. Listed'
    BY <1>0, <1>4, ListedShrinks
  <2>3. Dispatches'
    BY <1>0, <1>4 DEF Remove, Dispatches, RestTyped, sseVars
  <2> QED BY <2>1, <2>2, <2>3
<1>5. CASE DispatchBegin(t)
  <2>1. UNCHANGED <<slice, arrays, pub>>
    BY <1>5 DEF DispatchBegin
  <2>2. \A u \in Topic, r \in Sub :
           (run'[u][r] \in There) <=> (run[u][r] \in There)
    BY <1>0, <1>5 DEF DispatchBegin, There, RestTyped
  <2>3. Listed'
    BY <1>0, <2>1, <2>2, ListedStays
  <2>4. 1 \in Event
    <3>1. PICK b \in Seq(Event) : b = chan[t][Notifier].buf /\ b # <<>>
      BY <1>0, <1>5 DEF DispatchBegin, RestTyped, Chan
    <3>2. b[1] \in Event
      BY <3>1
    <3> QED BY <3>2, BusAssumption DEF Event, BusAssumption
  <2>5. Dispatches'
    BY <1>0, <1>5, <2>4 DEF DispatchBegin, Dispatches, RestTyped, Event
  <2> QED BY <1>0, <2>1, <2>3, <2>5, SlicesStay
<1>6. ASSUME NEW c \in Client, DispatchOne(t, c)
      PROVE  ArraysTyped' /\ PubsKnown' /\ Listed' /\ Dispatches'
  <2>1. UNCHANGED <<slice, arrays, pub>>
    BY <1>6 DEF DispatchOne
  <2>2. run[t][Notifier] = "dispatch" /\ 1 \in Event
    BY <1>0, <1>6 DEF DispatchOne, Dispatches
  <2>3. \A u \in Topic, r \in Sub :
           (run'[u][r] \in There) <=> (run[u][r] \in There)
    BY <1>0, <1>6, <2>2 DEF DispatchOne, Served, There, RestTyped
  <2>4. Listed'
    BY <1>0, <2>1, <2>3, ListedStays
  <2>5. Dispatches'
    <3> SUFFICES ASSUME NEW u \in Topic, todo'[u] # {}
                 PROVE  run'[u][Notifier] = "dispatch"
      BY <2>2 DEF Dispatches, Event
    <3>1. CASE u = t
      BY <1>0, <1>6, <2>2, <3>1 DEF DispatchOne, Served, RestTyped
    <3>2. CASE u # t
      BY <1>0, <1>6, <3>2 DEF DispatchOne, Served, RestTyped, Dispatches
    <3> QED BY <3>1, <3>2
  <2> QED BY <1>0, <2>1, <2>4, <2>5, SlicesStay
<1> QED BY <1>1, <1>2, <1>3, <1>4, <1>5, <1>6 DEF Subscriber

\* What changes neither slices nor goroutines.
LEMMA AlwaysFrame ==
    ASSUME AlwaysInv, UNCHANGED <<slice, arrays, run, todo>>,
           PubsKnown', RestTyped'
    PROVE  AlwaysInv'
<1>1. Listed'
  BY ListedStays DEF AlwaysInv
<1>2. ArraysTyped' /\ Dispatches'
  BY DEF AlwaysInv, ArraysTyped, Dispatches, Event
<1> QED BY <1>1, <1>2 DEF AlwaysInv

\* Every step keeps the invariant.
LEMMA AlwaysNext == AlwaysInv /\ [Next]_vars => AlwaysInv'
<1> SUFFICES ASSUME AlwaysInv, [Next]_vars PROVE AlwaysInv'
  OBVIOUS
<1>0. RestTyped /\ ArraysTyped /\ PubsKnown /\ Listed /\ Dispatches
  BY DEF AlwaysInv
<1>1. CASE UNCHANGED vars
  <2>1. PubsKnown' /\ RestTyped'
    BY <1>0, <1>1, SlicesStay DEF vars, busVars, sseVars, RestTyped
  <2> QED BY <1>1, <2>1, AlwaysFrame DEF vars, busVars, sseVars
<1>2. CASE Stop
  <2>1. PubsKnown' /\ RestTyped'
    BY <1>0, <1>2, SlicesStay DEF Stop, busVars, sseVars, RestTyped
  <2> QED BY <1>2, <2>1, AlwaysFrame DEF Stop, busVars, sseVars
<1>3. ASSUME NEW t \in Topic, NEW s \in Sub, Subscriber(t, s)
      PROVE  AlwaysInv'
  BY <1>3, SubscriberTyped, SubscriberListed DEF AlwaysInv
<1>4. ASSUME NEW e \in Event, Publisher(e) PROVE AlwaysInv'
  <2>1. RestTyped' /\ PubsKnown'
    BY <1>0, <1>4, PublisherTyped, PublisherKnown
  <2>2. UNCHANGED <<slice, arrays, run, todo>>
    BY <1>4 DEF Publisher, PublishOne, PublishBegin, sseVars
  <2> QED BY <2>1, <2>2, AlwaysFrame
<1>5. ASSUME NEW c \in Client, Browser(c) PROVE AlwaysInv'
  <2>1. UNCHANGED <<busVars, todo>>
    BY <1>5 DEF Browser, AddClient, RemoveClient, ClientRead
  <2>2. RestTyped' /\ PubsKnown'
    BY <1>0, <1>5, <2>1, BrowserTyped, SlicesStay DEF busVars
  <2> QED BY <2>1, <2>2, AlwaysFrame DEF busVars
<1>6. CASE Rest
  BY <1>1, <1>6 DEF Rest
<1> QED BY <1>1, <1>2, <1>3, <1>4, <1>5, <1>6 DEF Next

\* In every reachable state, while the process runs and while it stops, every
\* variable has its type, and a topic's slice lies inside its newest array.
THEOREM TypeCorrect == Spec => []TypeOK
<1>1. AlwaysInv => TypeOK
  BY DEF AlwaysInv, RestTyped, ArraysTyped, TypeOK
<1> QED BY AlwaysInit, AlwaysNext, <1>1, PTL DEF Spec
-----------------------------------------------------------------------------
(* Who is given what, until the process is told to stop.                   *)

\* The i-th subscriber of a Publish's slice.
Met(e, i) == arrays[pub[e].topic][pub[e].arr][i]

\* Before it begins, nobody has its event.
Untold(e) == pub[e].pc = "new" => \A s \in Sub : got[e][s] = 0

\* While it walks, its slice is as it was: nobody is in it twice, and what is
\* appended to the same array goes behind it.
Steady(e) ==
    pub[e].pc = "send" =>
        /\ \A i, j \in 1..pub[e].len : Met(e, i) = Met(e, j) => i = j
        /\ slice[pub[e].topic].arr = pub[e].arr =>
              pub[e].len <= slice[pub[e].topic].len
        /\ pub[e].due = {Met(e, i) : i \in 1..pub[e].len}

\* Those it has passed have the event or are missed, the others have nothing.
Telling(e) ==
    pub[e].pc = "send" =>
        /\ \A s \in pub[e].missed :
             got[e][s] = 0 /\ \E i \in 1..(pub[e].i - 1) : Met(e, i) = s
        /\ \A i \in 1..(pub[e].i - 1) :
             Met(e, i) \notin pub[e].missed => got[e][Met(e, i)] = 1
        /\ \A i \in pub[e].i..pub[e].len : got[e][Met(e, i)] = 0
        /\ \A s \in Sub : got[e][s] <= 1

\* At the end everyone due has it once or is missed.
Told(e) ==
    pub[e].pc = "done" =>
        /\ \A s \in pub[e].due \ pub[e].missed : got[e][s] = 1
        /\ \A s \in Sub : got[e][s] <= 1
        /\ \A s \in pub[e].missed : got[e][s] = 0

DeliverInv ==
    ctx = "live" =>
        \A e \in Event : Untold(e) /\ Steady(e) /\ Telling(e) /\ Told(e)

\* At first no Publish has begun.
LEMMA DeliverInit == Init => DeliverInv
<1> SUFFICES ASSUME Init, NEW e \in Event
             PROVE  Untold(e) /\ Steady(e) /\ Telling(e) /\ Told(e)
  BY DEF DeliverInv
<1>1. pub[e].pc = "new" /\ \A s \in Sub : got[e][s] = 0
  BY DEF Init, NewPub
<1> QED BY <1>1 DEF Untold, Steady, Telling, Told

\* Neither calls nor slices change.
LEMMA DeliverFrame ==
    ASSUME DeliverInv, UNCHANGED <<slice, arrays, pub, got>>,
           ctx' = "live" => ctx = "live"
    PROVE  DeliverInv'
<1> SUFFICES ASSUME ctx' = "live", NEW e \in Event
             PROVE  (Untold(e) /\ Steady(e) /\ Telling(e) /\ Told(e))'
  BY DEF DeliverInv, Event
<1>1. Untold(e) /\ Steady(e) /\ Telling(e) /\ Told(e)
  BY DEF DeliverInv
<1>2. Untold(e)' /\ Told(e)'
  BY <1>1 DEF Untold, Told
<1>3. Steady(e)'
  BY <1>1 DEF Steady, Met
<1>4. Telling(e)'
  BY <1>1 DEF Telling, Met
<1> QED BY <1>2, <1>3, <1>4

\* What a Publish reads stays where it is when others subscribe.
LEMMA MetStays ==
    ASSUME ArraysTyped, PubsKnown, NEW e \in Event, pub[e].pc = "send",
           Steady(e), NEW t \in Topic, NEW s \in Sub, Appended(t, s), pub' = pub
    PROVE  /\ \A i \in 1..pub[e].len : Met(e, i)' = Met(e, i)
           /\ slice'[pub[e].topic].arr = pub[e].arr =>
                 pub[e].len <= slice'[pub[e].topic].len
<1>1. PICK u \in Topic, k \in Nat, n \in Nat, xs \in Seq(Seq(Sub)) :
         /\ u = pub[e].topic /\ k = pub[e].arr /\ n = pub[e].len
         /\ xs = arrays[u] /\ k \in 1..Len(xs) /\ n <= Len(xs[k])
  BY DEF PubsKnown, PubKnown, ArraysTyped
<1>2. PICK bs \in Seq(Seq(Sub)) : Appends(t, s, bs)
  BY AppendShape
<1>3. PICK l \in Nat, m \in Nat : l = slice[t].len /\ m = slice[t].arr
                                  /\ m = Len(arrays[t])
  BY DEF ArraysTyped
<1>4. /\ arrays'[t] = bs /\ \A v \in Topic : v # t => arrays'[v] = arrays[v]
      /\ slice'[t].arr = Len(bs) /\ slice'[t].len = l + 1
      /\ \A v \in Topic : v # t => slice'[v] = slice[v]
      /\ Len(bs) \in {m, m + 1}
      /\ \A j \in 1..m : \A i \in 1..Len(arrays[t][j]) :
           \/ bs[j][i] = arrays[t][j][i]
           \/ j = Len(bs) /\ i = l + 1
  BY <1>2, <1>3 DEF Appends, ArraysTyped
<1>5. slice[u].arr = k => n <= slice[u].len
  BY <1>1 DEF Steady
<1>6. CASE u # t
  BY <1>1, <1>4, <1>5, <1>6 DEF Met
<1>7. CASE u = t
  <2>1. k \in 1..m /\ (k = m => n <= l) /\ Len(xs[k]) \in Nat
    <3>1. k \in 1..m /\ (k = m => n <= l)
      BY <1>1, <1>3, <1>5, <1>7
    <3>2. xs[k] \in Seq(Sub)
      BY <1>1
    <3> QED BY <3>1, <3>2
  <2>2. ASSUME NEW i \in 1..n PROVE bs[k][i] = xs[k][i]
    <3>1. i \in 1..Len(xs[k])
      <4>1. PICK w \in Nat : w = Len(xs[k])
        BY <2>1
      <4>2. n <= w
        BY <1>1, <4>1
      <4> QED BY <4>1, <4>2
    <3>2. ~ (k = Len(bs) /\ i = l + 1)
      <4>1. Len(bs) \in {m, m + 1} /\ k \in 1..m /\ (k = m => n <= l)
        BY <1>4, <2>1
      <4> QED BY <4>1
    <3>3. i \in 1..Len(arrays[t][k])
      BY <1>1, <1>7, <3>1
    <3>4. \/ bs[k][i] = arrays[t][k][i]
          \/ k = Len(bs) /\ i = l + 1
      BY <1>4, <2>1, <3>3
    <3> QED BY <1>1, <1>7, <3>2, <3>4
  <2>3. Len(bs) = k => n <= l + 1
    BY <1>4, <2>1
  <2> QED BY <1>1, <1>4, <1>7, <2>2, <2>3 DEF Met
<1> QED BY <1>6, <1>7

\* Somebody subscribes while events are published.
LEMMA DeliverSubscribe ==
    ASSUME DeliverInv, AlwaysInv, NEW t \in Topic, NEW s \in Sub,
           Subscribe(t, s)
    PROVE  DeliverInv'
<1> SUFFICES ASSUME ctx' = "live", NEW e \in Event
             PROVE  (Untold(e) /\ Steady(e) /\ Telling(e) /\ Told(e))'
  BY DEF DeliverInv, Event
<1>1. /\ Untold(e) /\ Steady(e) /\ Telling(e) /\ Told(e)
      /\ pub' = pub /\ got' = got
  BY DEF DeliverInv, Subscribe
<1>2. (Untold(e) /\ Told(e))'
  BY <1>1 DEF Untold, Told
<1>3. ASSUME pub[e].pc = "send" PROVE (Steady(e) /\ Telling(e))'
  <2>1. /\ \A i \in 1..pub[e].len : Met(e, i)' = Met(e, i)
        /\ slice'[pub[e].topic].arr = pub[e].arr =>
              pub[e].len <= slice'[pub[e].topic].len
    BY <1>1, <1>3, MetStays DEF AlwaysInv, Subscribe
  <2>2. PICK n \in Nat, m \in Nat : n = pub[e].len /\ m = pub[e].i /\ m \in 1..n
    BY <1>3 DEF AlwaysInv, PubsKnown, PubKnown
  <2>3. Steady(e)'
    BY <1>1, <1>3, <2>1, <2>2 DEF Steady
  <2>4. /\ \A i \in 1..(m - 1) : i \in 1..n
        /\ \A i \in m..n : i \in 1..n
    BY <2>2
  <2>5. Telling(e)'
    BY <1>1, <1>3, <2>1, <2>2, <2>4 DEF Telling
  <2> QED BY <2>3, <2>5
<1> QED BY <1>1, <1>2, <1>3 DEF Steady, Telling

\* A Publish takes the slice.
LEMMA DeliverBegin ==
    ASSUME DeliverInv, AlwaysInv, NEW e \in Event, NEW t \in Topic,
           PublishBegin(e, t)
    PROVE  DeliverInv'
<1> SUFFICES ASSUME ctx' = "live", NEW d \in Event
             PROVE  (Untold(d) /\ Steady(d) /\ Telling(d) /\ Told(d))'
  BY DEF DeliverInv, Event
<1>1. /\ \A f \in Event : Untold(f) /\ Steady(f) /\ Telling(f) /\ Told(f)
      /\ UNCHANGED <<slice, arrays, got>> /\ pub[e].pc = "new"
  BY DEF DeliverInv, PublishBegin
<1>2. CASE d # e
  <2>1. pub'[d] = pub[d] /\ got'[d] = got[d]
    BY <1>1, <1>2 DEF PublishBegin, AlwaysInv, PubsKnown
  <2>2. Untold(d) /\ Steady(d) /\ Telling(d) /\ Told(d)
    BY <1>1
  <2>3. Untold(d)' /\ Told(d)'
    BY <1>1, <2>1, <2>2 DEF Untold, Told
  <2>4. \A i : Met(d, i)' = Met(d, i)
    BY <1>1, <2>1 DEF Met
  <2>5. Steady(d)'
    BY <1>1, <2>1, <2>2, <2>4 DEF Steady
  <2>6. Telling(d)'
    BY <2>1, <2>2, <2>4 DEF Telling
  <2> QED BY <2>3, <2>5, <2>6
<1>3. CASE d = e
  <2>1. \A s \in Sub : got[e][s] = 0
    BY <1>1 DEF Untold
  <2>2. PICK k \in Nat, n \in Nat, a \in Seq(Sub) :
           /\ k = slice[t].arr /\ n = slice[t].len /\ a = Array(t)
           /\ n <= Len(a)
    BY ArrayTyped DEF AlwaysInv
  <2>3. /\ pub'[e].pc = IF n = 0 THEN "done" ELSE "send"
        /\ pub'[e].topic = t /\ pub'[e].arr = k /\ pub'[e].len = n
        /\ pub'[e].i = 1 /\ pub'[e].due = Subscribed(t)
        /\ pub'[e].missed = {}
    BY <2>2 DEF PublishBegin, AlwaysInv, PubsKnown
  <2>4. n > 0 => \A i \in 1..n : arrays[t][k][i] = a[i]
    <3>1. n > 0 => k > 0
      BY <2>2 DEF AlwaysInv, ArraysTyped
    <3> QED BY <2>2, <3>1 DEF Array
  <2>5. n > 0 => \A i \in 1..n : Met(e, i)' = a[i]
    BY <1>1, <2>3, <2>4 DEF Met
  <2>6. \A i \in 1..n : a[i] \in Sub
    BY <2>2
  <2>7. \A i, j \in 1..n : a[i] = a[j] => i = j
    BY <2>2 DEF AlwaysInv, Listed, ListedOn
  <2>8. n > 0 => Subscribed(t) = {a[i] : i \in 1..n}
    BY <2>2, <2>4 DEF Subscribed
  <2>9. n = 0 => Subscribed(t) = {}
    BY <2>2 DEF Subscribed
  <2>10. CASE n = 0
    BY <1>1, <1>3, <2>1, <2>3, <2>9, <2>10
       DEF Untold, Steady, Telling, Told
  <2>11. CASE n > 0
    <3>1. pub'[e].pc = "send"
      BY <2>3, <2>11
    <3>2. Steady(e)'
      <4>1. \A i, j \in 1..n : Met(e, i)' = Met(e, j)' => i = j
        BY <2>5, <2>7, <2>11
      <4>2. Subscribed(t) = {Met(e, i)' : i \in 1..n}
        BY <2>5, <2>8, <2>11
      <4> QED BY <1>1, <2>2, <2>3, <3>1, <4>1, <4>2 DEF Steady
    <3>3. Telling(e)'
      BY <1>1, <2>1, <2>3, <2>5, <2>6, <2>11 DEF Telling
    <3> QED BY <1>3, <3>1, <3>2, <3>3 DEF Untold, Told
  <2> QED BY <2>2, <2>10, <2>11
<1> QED BY <1>2, <1>3

\* One turn of a Publish: the one it meets gets the event, unless its buffer
\* is full.
LEMMA DeliverOne ==
    ASSUME DeliverInv, AlwaysInv, NEW e \in Event, PublishOne(e)
    PROVE  DeliverInv'
<1> SUFFICES ASSUME ctx' = "live", NEW d \in Event
             PROVE  (Untold(d) /\ Steady(d) /\ Telling(d) /\ Told(d))'
  BY DEF DeliverInv, Event
<1>1. /\ \A f \in Event : Untold(f) /\ Steady(f) /\ Telling(f) /\ Told(f)
      /\ UNCHANGED <<slice, arrays>> /\ pub[e].pc = "send"
  BY DEF DeliverInv, PublishOne
<1>2. CASE d # e
  <2>1. pub'[d] = pub[d] /\ got'[d] = got[d]
    BY <1>2 DEF PublishOne, AlwaysInv, RestTyped
  <2>2. Untold(d) /\ Steady(d) /\ Telling(d) /\ Told(d)
    BY <1>1
  <2>3. Untold(d)' /\ Told(d)'
    BY <1>1, <2>1, <2>2 DEF Untold, Told
  <2>4. \A i : Met(d, i)' = Met(d, i)
    BY <1>1, <2>1 DEF Met
  <2>5. Steady(d)'
    BY <1>1, <2>1, <2>2, <2>4 DEF Steady
  <2>6. Telling(d)'
    BY <2>1, <2>2, <2>4 DEF Telling
  <2> QED BY <2>3, <2>5, <2>6
<1>3. CASE d = e
  <2>1. PICK n \in Nat, m \in Nat : n = pub[e].len /\ m = pub[e].i /\ m \in 1..n
    BY <1>1 DEF AlwaysInv, PubsKnown, PubKnown
  <2>2. \A i \in 1..n : Met(e, i) \in Sub
    <3>1. PubKnown(pub[e]) /\ ArraysTyped
      BY DEF AlwaysInv, PubsKnown
    <3>2. PICK xs \in Seq(Seq(Sub)) : xs = arrays[pub[e].topic]
      BY <1>1, <3>1 DEF ArraysTyped, PubKnown
    <3>3. PICK a \in Seq(Sub) : a = xs[pub[e].arr] /\ n <= Len(a)
      BY <1>1, <2>1, <3>1, <3>2 DEF PubKnown
    <3>4. \A i \in 1..n : i \in 1..Len(a)
      BY <3>3
    <3> QED BY <3>2, <3>3, <3>4 DEF Met
  <2>3. PICK s \in Sub : s = Met(e, m)
    BY <2>1, <2>2
  <2>4. PICK room \in BOOLEAN :
           /\ got' = IF room THEN [got EXCEPT ![e][s] = @ + 1] ELSE got
           /\ pub' = [pub EXCEPT ![e] =
                [pub[e] EXCEPT
                    !.pc = IF pub[e].i = pub[e].len THEN "done" ELSE "send",
                    !.i = pub[e].i + 1,
                    !.missed = IF room THEN @ ELSE @ \cup {s}]]
    BY <2>1, <2>3, Zenon DEF PublishOne, Met
  <2>5. /\ pub'[e].pc = IF m = n THEN "done" ELSE "send"
        /\ pub'[e].topic = pub[e].topic /\ pub'[e].arr = pub[e].arr
        /\ pub'[e].len = n /\ pub'[e].i = m + 1 /\ pub'[e].due = pub[e].due
        /\ pub'[e].missed = IF room THEN pub[e].missed
                            ELSE pub[e].missed \cup {s}
    BY <2>1, <2>4 DEF AlwaysInv, PubsKnown, Fields
  <2>6. \A i \in 1..n : Met(e, i)' = Met(e, i)
    BY <1>1, <2>5 DEF Met
  <2>7. Steady(e) /\ Telling(e)
    BY <1>1
  <2>8. got[e][s] = 0
    BY <1>1, <2>1, <2>3, <2>7 DEF Telling
  <2>9. /\ \A r \in Sub : r # s => got'[e][r] = got[e][r]
        /\ got'[e][s] = IF room THEN 1 ELSE 0
    BY <2>4, <2>8 DEF AlwaysInv, RestTyped
  <2>10. \A i \in 1..n : Met(e, i) = s => i = m
    BY <1>1, <2>1, <2>3, <2>7 DEF Steady
  <2>11. /\ \A i \in 1..m : i \in 1..n /\ (i = m \/ i \in 1..(m - 1))
         /\ \A i \in (m + 1)..n : i \in 1..n /\ i \in m..n /\ i # m
         /\ \A i \in 1..(m - 1) : i \in 1..n /\ i # m /\ i \in 1..m
         /\ m \in 1..m
    BY <2>1
  <2>12. s \notin pub[e].missed
    <3> SUFFICES ASSUME s \in pub[e].missed PROVE FALSE
      OBVIOUS
    <3>1. PICK i \in 1..(m - 1) : Met(e, i) = s
      BY <1>1, <2>1, <2>7 DEF Telling
    <3> QED BY <2>10, <2>11, <3>1
  <2>13. \A r \in pub'[e].missed :
            got'[e][r] = 0 /\ \E i \in 1..m : Met(e, i) = r
    <3> SUFFICES ASSUME NEW r, r \in pub'[e].missed
                 PROVE  got'[e][r] = 0 /\ \E i \in 1..m : Met(e, i) = r
      OBVIOUS
    <3>1. CASE r = s
      BY <2>3, <2>5, <2>9, <2>11, <2>12, <3>1
    <3>2. CASE r # s
      <4>1. r \in pub[e].missed
        BY <2>5, <3>2
      <4>2. PICK i \in 1..(m - 1) : Met(e, i) = r /\ got[e][r] = 0
        BY <1>1, <2>1, <2>7, <4>1 DEF Telling
      <4> QED BY <2>2, <2>9, <2>11, <3>2, <4>2
    <3> QED BY <3>1, <3>2
  <2>14. \A i \in 1..m :
            Met(e, i) \notin pub'[e].missed => got'[e][Met(e, i)] = 1
    <3> SUFFICES ASSUME NEW i \in 1..m, Met(e, i) \notin pub'[e].missed
                 PROVE  got'[e][Met(e, i)] = 1
      OBVIOUS
    <3>1. CASE i = m
      BY <2>3, <2>5, <2>9, <3>1
    <3>2. CASE i \in 1..(m - 1)
      <4>1. Met(e, i) # s /\ Met(e, i) \in Sub
        BY <2>2, <2>10, <2>11, <3>2
      <4>2. got[e][Met(e, i)] = 1
        BY <1>1, <2>1, <2>5, <2>7, <3>2 DEF Telling
      <4> QED BY <2>9, <4>1, <4>2
    <3> QED BY <2>11, <3>1, <3>2
  <2>15. \A i \in (m + 1)..n : got'[e][Met(e, i)] = 0
    <3> SUFFICES ASSUME NEW i \in (m + 1)..n PROVE got'[e][Met(e, i)] = 0
      OBVIOUS
    <3>1. Met(e, i) # s /\ Met(e, i) \in Sub
      BY <2>2, <2>10, <2>11
    <3>2. got[e][Met(e, i)] = 0
      BY <1>1, <2>1, <2>7, <2>11 DEF Telling
    <3> QED BY <2>9, <3>1, <3>2
  <2>16. \A r \in Sub : got'[e][r] <= 1
    <3>1. \A r \in Sub : got[e][r] <= 1
      BY <1>1, <2>7 DEF Telling
    <3> QED BY <2>9, <3>1
  <2>17. CASE m # n
    <3>1. pub'[e].pc = "send" /\ m + 1 - 1 = m
      BY <2>5, <2>17
    <3>2. Telling(e)'
      BY <2>5, <2>6, <2>11, <2>13, <2>14, <2>15, <2>16, <3>1 DEF Telling
    <3>3. Steady(e)'
      BY <1>1, <2>1, <2>5, <2>6, <2>7 DEF Steady
    <3> QED BY <1>3, <3>1, <3>2, <3>3 DEF Untold, Told
  <2>18. CASE m = n
    <3>1. pub'[e].pc = "done"
      BY <2>5, <2>18
    <3>2. \A r \in pub'[e].due : \E i \in 1..m : r = Met(e, i)
      BY <1>1, <2>1, <2>5, <2>7, <2>18 DEF Steady
    <3>3. Told(e)'
      BY <2>13, <2>14, <2>16, <3>2 DEF Told
    <3> QED BY <1>3, <3>1, <3>3 DEF Untold, Steady, Telling
  <2> QED BY <2>17, <2>18
<1> QED BY <1>2, <1>3

\* Every step keeps it.
LEMMA DeliverNext ==
    DeliverInv /\ BusInv /\ AlwaysInv /\ [Next]_vars => DeliverInv'
<1> SUFFICES ASSUME DeliverInv, BusInv, AlwaysInv, [Next]_vars
             PROVE  DeliverInv'
  OBVIOUS
<1>1. CASE UNCHANGED vars
  BY <1>1, DeliverFrame DEF vars, busVars
<1>2. CASE Stop
  BY <1>2 DEF Stop, DeliverInv
<1>3. ASSUME NEW t \in Topic, NEW s \in Sub, Subscriber(t, s)
      PROVE  DeliverInv'
  <2>1. CASE Subscribe(t, s)
    BY <2>1, DeliverSubscribe
  <2>2. CASE Receive(t, s)
    BY <2>2, DeliverFrame DEF Receive
  <2>3. CASE Close(t, s)
    BY <2>3, DeliverFrame DEF Close
  <2>4. CASE Remove(t, s)
    BY <2>4 DEF Remove, BusInv, LiveInv, AllStay, DeliverInv
  <2>5. CASE DispatchBegin(t)
    BY <2>5, DeliverFrame DEF DispatchBegin
  <2>6. ASSUME NEW c \in Client, DispatchOne(t, c) PROVE DeliverInv'
    BY <2>6, DeliverFrame DEF DispatchOne
  <2> QED BY <1>3, <2>1, <2>2, <2>3, <2>4, <2>5, <2>6 DEF Subscriber
<1>4. ASSUME NEW e \in Event, Publisher(e) PROVE DeliverInv'
  BY <1>4, DeliverBegin, DeliverOne DEF Publisher
<1>5. ASSUME NEW c \in Client, Browser(c) PROVE DeliverInv'
  <2>1. UNCHANGED <<ctx, busVars>>
    BY <1>5 DEF Browser, AddClient, RemoveClient, ClientRead
  <2> QED BY <2>1, DeliverFrame DEF busVars
<1>6. CASE Rest
  BY <1>1, <1>6 DEF Rest
<1> QED BY <1>1, <1>2, <1>3, <1>4, <1>5, <1>6 DEF Next

\* Until the process is told to stop, a Publish that has returned gave its
\* event once to everyone subscribed when it began, save to those it found
\* with a full buffer, and twice to nobody, however many subscribe while it
\* walks the slice they are appended to.
THEOREM DeliveredHolds == Spec => []Delivered
<1>1. DeliverInv => Delivered
  BY DEF DeliverInv, Told, Delivered
<1> QED BY BusInit, AlwaysInit, DeliverInit, BusNext, AlwaysNext, DeliverNext,
           <1>1, PTL DEF Spec
=============================================================================
