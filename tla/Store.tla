-------------------------------- MODULE Store --------------------------------
(***************************************************************************)
(* internal/store: the in-memory map from container id to ContainerState.  *)
(* Components keep *ContainerState pointers across calls, so the map       *)
(* (keys) is kept apart from the structs it points to (heap): a pointer is *)
(* an index of heap and stays valid after the map forgets it.              *)
(***************************************************************************)
EXTENDS Docker

CONSTANT RingSize   \* digestHistorySize, 5 in the code

ASSUME StoreAssumption == RingSize \in Nat \ {0}

VARIABLES
    keys,   \* Store.containers: id -> pointer, 0 when not tracked
    heap    \* every ContainerState allocated since the process started

storeVars == <<keys, heap>>

\* ContainerState; hist is the digest ring, most recent first.
Entry == [id: Id, name: Name, image: Image, hist: Seq(Image)]

Ptr == 1..Len(heap)
Tracked == {keys[i] : i \in {j \in Id : keys[j] # 0}}

StoreTypeOK ==
    /\ heap \in Seq(Entry)
    /\ keys \in [Id -> Nat]
    /\ \A i \in Id : keys[i] # 0 => keys[i] \in Ptr

CurrentDigest(p) == IF heap[p].hist = <<>> THEN NoDigest ELSE heap[p].hist[1]

PreviousDigest(p) == IF Len(heap[p].hist) < 2 THEN NoDigest ELSE heap[p].hist[2]

\* The ring after a push: newest first, cut to RingSize.
Pushed(h, d) ==
    LET all == <<d>> \o h
    IN  IF Len(all) > RingSize THEN SubSeq(all, 1, RingSize) ELSE all

PushDigest(p, d) ==
    heap' = [heap EXCEPT ![p] = [@ EXCEPT !.hist = Pushed(heap[p].hist, d)]]

Upsert(i, n, img) ==
    IF keys[i] = 0
    THEN /\ heap' = Append(heap, [id |-> i, name |-> n, image |-> img,
                                  hist |-> <<>>])
         /\ keys' = [keys EXCEPT ![i] = Len(heap) + 1]
    ELSE /\ heap' = [heap EXCEPT ![keys[i]] =
                       [@ EXCEPT !.name = n, !.image = img]]
         /\ UNCHANGED keys

\* Variant with a bug: the state keeps its old id.
RekeyKeepsId(i, j) ==
    IF keys[i] = 0
    THEN UNCHANGED storeVars
    ELSE keys' = [keys EXCEPT ![i] = 0, ![j] = keys[i]] /\ UNCHANGED heap

Rekey(i, j) ==
    IF keys[i] = 0
    THEN UNCHANGED storeVars
    ELSE /\ keys' = [keys EXCEPT ![i] = 0, ![j] = keys[i]]
         /\ heap' = [heap EXCEPT ![keys[i]] = [@ EXCEPT !.id = j]]

Remove(i) == keys' = [keys EXCEPT ![i] = 0] /\ UNCHANGED heap

\* The seeding loop of main over the listed containers, on an empty store.
\* Which free heap cell holds which entry does not matter: cell i is used
\* for container i, and a cell of an unlisted id is unreachable.
SeedStore ==
    /\ keys' = [i \in Id |-> IF i \in Listed THEN i ELSE 0]
    /\ heap' = [i \in Id |->
                  IF i \in Listed
                  THEN [id |-> i, name |-> ctr[i].name,
                        image |-> ctr[i].image, hist |-> <<>>]
                  ELSE [id |-> i, name |-> CHOOSE n \in Name : TRUE,
                        image |-> NoDigest, hist |-> <<>>]]
=============================================================================
