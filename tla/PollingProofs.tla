----------------------------- MODULE PollingProofs -----------------------------
(***************************************************************************)
(* Polling's types, and, with intervals longer than the requests of one    *)
(* check may take: what is announced never goes back, and a check that     *)
(* finds nothing to do is not excused by the digest it saved itself.       *)
(***************************************************************************)
EXTENDS Polling, TLAPS

USE DEF In, SetChk, Set, Mode

LEMMA ReqCount == Requests \in 1..3
BY PollingAssumption DEF Requests

-----------------------------------------------------------------------------
(* Types.                                                                  *)

LEMMA NoReqType == NoReq \in Req
BY DEF NoReq, Req

LEMMA NoCheckType == NoCheck \in Chk
BY PollingAssumption DEF NoCheck, Chk

LEMMA TypeInit == Init => TypeOK
<1> SUFFICES ASSUME Init PROVE TypeOK
  OBVIOUS
<1>1. rows \in Table /\ cache = rows
  BY ServicesAssumption DEF Init, Table, Row
<1>2. ServicesTypeOK
  BY <1>1, NoReqType DEF Init, ServicesTypeOK, NoReq
<1>3. Longest \in Nat
  BY PollingAssumption, ServicesAssumption
<1> QED
  BY <1>2, <1>3, NoCheckType, PollingAssumption DEF Init, TypeOK, NoCheck

ChkOK ==
    /\ chk \in [Check -> Chk]
    /\ \A k \in Check :
         /\ chk[k].pc # "none" => chk[k].name \in Service
         /\ chk[k].pc = "swap" => chk[k].snap \in Table

\* A goroutine's record may be replaced by any other of its type.
LEMMA ChkSet ==
    ASSUME ChkOK, NEW k \in Check, NEW c \in Chk,
           c.pc # "none" => c.name \in Service,
           c.pc = "swap" => c.snap \in Table,
           chk' = [chk EXCEPT ![k] = c]
    PROVE  ChkOK'
<1>1. chk' \in [Check -> Chk]
  BY DEF ChkOK
<1>2. ASSUME NEW j \in Check
      PROVE  /\ chk'[j].pc # "none" => chk'[j].name \in Service
             /\ chk'[j].pc = "swap" => chk'[j].snap \in Table
  <2>1. CASE j = k
    <3>1. chk'[j] = c
      BY <2>1 DEF ChkOK
    <3> QED BY <3>1
  <2>2. CASE j # k
    <3>1. chk'[j] = chk[j]
      BY <2>2 DEF ChkOK
    <3> QED BY <3>1 DEF ChkOK
  <2> QED BY <2>1, <2>2
<1> QED BY <1>1, <1>2 DEF ChkOK

\* A check that is over.
LEMMA ChkEnds ==
    ASSUME ChkOK, NEW k \in Check, SetChk(k, NoCheck) PROVE ChkOK'
<1>1. NoCheck \in Chk /\ NoCheck.pc = "none"
  BY NoCheckType DEF NoCheck
<1> QED BY <1>1, ChkSet

\* The requests of the API.
LEMMA ServiceTypes ==
    ASSUME ServicesTypeOK, NEW s \in Slot,
           ServicesStep(s) \/ \E n \in Service : Ask(s, n)
    PROVE  ServicesTypeOK'
<1> USE DEF ServicesTypeOK
<1>r. ASSUME NEW r \in Req,
             r.pc \in {"insert", "update"} => r.name \in Service /\ r.every \in Every,
             r.pc = "swap" => r.snap \in Table,
             Set(s, r), rows' \in Table, cache' \in Table
      PROVE  ServicesTypeOK'
  <2>1. req' \in [Slot -> Req]
    BY <1>r
  <2>2. ASSUME NEW j \in Slot
        PROVE  /\ req'[j].pc \in {"insert", "update"} =>
                    req'[j].name \in Service /\ req'[j].every \in Every
               /\ req'[j].pc = "swap" => req'[j].snap \in Table
    <3>1. CASE j = s
      <4>1. req'[j] = r
        BY <1>r, <3>1
      <4> QED BY <1>r, <4>1
    <3>2. CASE j # s
      <4>1. req'[j] = req[j]
        BY <1>r, <3>2
      <4> QED BY <4>1
    <3> QED BY <3>1, <3>2
  <2> QED BY <1>r, <2>1, <2>2
<1>0. NoReq \in Req /\ NoReq.pc = "idle"
  BY NoReqType DEF NoReq
<1>1. req[s] \in Req
  OBVIOUS
<1>2. CASE Insert(s)
  <2> USE DEF Insert
  <2> DEFINE n == req[s].name
  <2>1. n \in Service /\ req[s].every \in Every /\ req[s].mode \in Mode
    BY <1>2, <1>1 DEF Req
  <2>2. CASE rows[n] = NoRow /\ rows' = [rows EXCEPT ![n] = [mode |-> req[s].mode, every |-> req[s].every, last |-> 0]] /\ Set(s, [req[s] EXCEPT !.pc = "query"])
    <3>1. rows' \in Table
      BY <2>1, <2>2 DEF Table, Row
    <3>2. PICK r : r = [req[s] EXCEPT !.pc = "query"]
      OBVIOUS
    <3>3. r \in Req /\ r.pc = "query"
      BY <1>1, <3>2 DEF Req
    <3> QED BY <1>2, <1>r, <2>2, <3>1, <3>2, <3>3
  <2>3. CASE Set(s, NoReq) /\ UNCHANGED rows
    BY <1>0, <1>2, <1>r, <2>3
  <2> QED BY <1>2, <2>2, <2>3
<1>3. CASE Update(s)
  <2> DEFINE n == req[s].name
  <2>1. /\ n \in Service /\ req[s].every \in Every /\ req[s].mode \in Mode
        /\ rows' = IF rows[n] = NoRow THEN rows
                   ELSE [rows EXCEPT ![n] = [rows[n] EXCEPT !.mode = req[s].mode, !.every = req[s].every]]
        /\ Set(s, [req[s] EXCEPT !.pc = "query"]) /\ UNCHANGED cache
    BY <1>3, <1>1 DEF Req, Update
  <2>2. rows' \in Table
    <3>1. CASE rows[n] = NoRow
      BY <2>1, <3>1
    <3>2. CASE rows[n] # NoRow
      <4>1. rows[n] \in Row
        BY <2>1, <3>2 DEF Table
      <4>2. [rows[n] EXCEPT !.mode = req[s].mode, !.every = req[s].every] \in Row
        BY <4>1, <2>1 DEF Row
      <4> QED BY <2>1, <3>2, <4>2 DEF Table
    <3> QED BY <3>1, <3>2
  <2>3. PICK r : r = [req[s] EXCEPT !.pc = "query"]
    OBVIOUS
  <2>4. r \in Req /\ r.pc = "query"
    BY <1>1, <2>3 DEF Req
  <2> QED BY <1>r, <2>1, <2>2, <2>3, <2>4
<1>4. CASE ReqQuery(s)
  <2>1. PICK r : r = [req[s] EXCEPT !.pc = "swap", !.snap = rows]
    OBVIOUS
  <2>2. r \in Req /\ r.pc = "swap" /\ r.snap \in Table
    BY <1>1, <2>1 DEF Req
  <2> QED BY <1>4, <1>r, <2>1, <2>2 DEF ReqQuery
<1>5. CASE ReqSwap(s)
  BY <1>0, <1>5, <1>r DEF ReqSwap, Reloaded
<1>6. ASSUME NEW n \in Service, NEW mode \in Mode, NEW every \in Every,
             CreateBegin(s, n, mode, every)
      PROVE  ServicesTypeOK'
  <2>1. PICK r : r = [NoReq EXCEPT !.pc = "insert", !.name = n, !.mode = mode, !.every = every]
    OBVIOUS
  <2>2. r \in Req /\ r.pc = "insert" /\ r.name = n /\ r.every = every
    BY <1>0, <2>1 DEF Req
  <2> QED BY <1>6, <1>r, <2>1, <2>2 DEF CreateBegin
<1>7. ASSUME NEW n \in Service, NEW ms \in SUBSET Mode, NEW es \in SUBSET Every,
             PatchBegin(s, n, ms, es)
      PROVE  ServicesTypeOK'
  <2>1. cache[n] \in Row
    BY <1>7 DEF PatchBegin, Table
  <2>2. PICK mode \in IF ms = {} THEN {cache[n].mode} ELSE ms,
             every \in IF es = {} THEN {cache[n].every} ELSE es :
          Set(s, [NoReq EXCEPT !.pc = "update", !.name = n, !.mode = mode, !.every = every])
    BY <1>7 DEF PatchBegin
  <2>3. mode \in Mode /\ every \in Every
    BY <2>1, <2>2 DEF Row
  <2>4. PICK r : r = [NoReq EXCEPT !.pc = "update", !.name = n, !.mode = mode, !.every = every]
    OBVIOUS
  <2>5. r \in Req /\ r.pc = "update" /\ r.name = n /\ r.every = every
    BY <1>0, <2>3, <2>4 DEF Req
  <2>6. Set(s, r)
    BY <2>2, <2>4
  <2>7. rows' \in Table /\ cache' \in Table
    BY <1>7 DEF PatchBegin
  <2>8. r.pc \in {"insert", "update"} => r.name \in Service /\ r.every \in Every
    BY <2>3, <2>5 DEF Row
  <2>9. r.pc = "swap" => r.snap \in Table
    BY <2>5
  <2> QED BY ONLY <1>r, <2>5, <2>6, <2>7, <2>8, <2>9
<1>8. ASSUME NEW n \in Service, Ask(s, n) PROVE ServicesTypeOK'
  <2>1. CASE \E mode \in Mode, every \in Every : CreateBegin(s, n, mode, every)
    BY <1>6, <2>1
  <2>2. CASE \E mode \in Mode, every \in Every : PatchBegin(s, n, {mode}, {every})
    BY <1>7, <2>2
  <2>3. CASE \E mode \in Mode : PatchBegin(s, n, {mode}, {})
    BY <1>7, <2>3
  <2>4. CASE \E every \in Every : PatchBegin(s, n, {}, {every})
    BY <1>7, <2>4
  <2> QED BY <1>8, <2>1, <2>2, <2>3, <2>4 DEF Ask
<1> QED BY <1>2, <1>3, <1>4, <1>5, <1>8 DEF ServicesStep

RestOK ==
    /\ since \in [Service -> 0..Longest]
    /\ reg \in [Service -> Nat] /\ up \in [Service -> BOOLEAN]
    /\ composed \subseteq Service
    /\ runs \in [Service -> Nat] /\ ring \in [Service -> Nat]
    /\ queue \in Seq([name: Service, dig: Nat]) /\ Len(queue) <= QueueCap
    /\ told \in [Service -> Nat] /\ owed \subseteq Service
    /\ spent \in 0..Limit

LEMMA Parts == TypeOK <=> ServicesTypeOK /\ ChkOK /\ RestOK
BY DEF TypeOK, ChkOK, RestOK

LEMMA PartsNext ==
    ASSUME ServicesTypeOK', ChkOK', RestOK' PROVE TypeOK'
BY DEF TypeOK, ChkOK, RestOK

LEMMA ServicesSame ==
    ASSUME ServicesTypeOK, UNCHANGED serviceVars PROVE ServicesTypeOK'
BY DEF ServicesTypeOK, serviceVars

LEMMA RestSame ==
    ASSUME RestOK,
           UNCHANGED <<worldVars, since, ring, queue, told, owed>>
    PROVE  RestOK'
BY DEF RestOK, worldVars

LEMMA ChkOf ==
    ASSUME ChkOK, NEW k \in Check
    PROVE  /\ chk[k] \in Chk
           /\ chk[k].pc # "none" => chk[k].name \in Service
BY DEF ChkOK

LEMMA SpentOK ==
    ASSUME spent \in 0..Limit, NEW e, Allowed(e) PROVE spent' \in 0..Limit
BY PollingAssumption DEF Allowed

LEMMA DispatchTypes ==
    ASSUME TypeOK, NEW n \in Service, NEW k \in Check, Dispatch(n, k)
    PROVE  TypeOK'
<1> USE DEF Dispatch
<1>1. ServicesTypeOK /\ ChkOK /\ RestOK
  BY Parts
<1>2. cache[n] \in Row
  BY <1>1 DEF Polled, ServicesTypeOK, Table
<1>3. PICK c : c = [NoCheck EXCEPT !.pc = "asking", !.name = n,
                                   !.last = cache[n].last, !.left = Requests]
  OBVIOUS
<1>4. c \in Chk /\ c.pc = "asking" /\ c.name = n
  <2>1. cache[n].last \in Nat
    BY <1>2 DEF Row
  <2>2. PICK q \in Nat : q = Requests
    BY ReqCount
  <2> QED BY <1>3, <2>1, <2>2, NoCheckType DEF Chk, CheckPc
<1>5. ChkOK'
  BY <1>1, <1>3, <1>4, ChkSet
<1>6. since' \in [Service -> 0..Longest]
  BY <1>1, PollingAssumption, ServicesAssumption DEF RestOK
<1>7. RestOK' /\ ServicesTypeOK'
  BY <1>1, <1>6, ServicesSame DEF RestOK, worldVars
<1> QED BY <1>5, <1>7, PartsNext

\* The steps of a check that change nothing but its record.
LEMMA RecordTypes ==
    ASSUME TypeOK, NEW k \in Check, NextRequest(k) \/ Served(k) \/ Arrives(k)
    PROVE  TypeOK'
<1>1. ServicesTypeOK /\ ChkOK /\ RestOK
  BY Parts
<1>2. chk[k] \in Chk /\ (chk[k].pc # "none" => chk[k].name \in Service)
  BY <1>1, ChkOf
<1>3. CASE NextRequest(k)
  <2>1. PICK c : c = [chk[k] EXCEPT !.left = @ - 1, !.wait = 0]
    OBVIOUS
  <2>2. chk[k].left \in Nat /\ chk[k].left > 1 /\ 0 \in 0..Timeout
    BY <1>2, <1>3, PollingAssumption DEF NextRequest, Chk
  <2>5. chk[k].left - 1 \in Nat
    BY <2>2
  <2>3. c \in Chk /\ c.pc = "asking" /\ c.name = chk[k].name
    BY <1>2, <1>3, <2>1, <2>2, <2>5 DEF NextRequest, Chk
  <2>4. ChkOK'
    BY <1>1, <1>2, <1>3, <2>1, <2>3, ChkSet DEF NextRequest
  <2>q. ServicesTypeOK' /\ RestOK'
    BY <1>1, <1>3, ServicesSame, RestSame DEF NextRequest
  <2> QED BY <2>4, <2>q, PartsNext
<1>4. CASE Served(k)
  <2>1. PICK c : c = [chk[k] EXCEPT !.pc = "answered", !.dig = reg[chk[k].name]]
    OBVIOUS
  <2>2. reg[chk[k].name] \in Nat
    BY <1>1, <1>2, <1>4 DEF Served, RestOK
  <2>3. c \in Chk /\ c.pc = "answered" /\ c.name = chk[k].name
    BY <1>2, <2>1, <2>2 DEF Chk, CheckPc
  <2>4. ChkOK'
    BY <1>1, <1>2, <1>4, <2>1, <2>3, ChkSet DEF Served
  <2>q. ServicesTypeOK' /\ RestOK'
    BY <1>1, <1>4, ServicesSame, RestSame DEF Served
  <2> QED BY <2>4, <2>q, PartsNext
<1>5. CASE Arrives(k)
  <2>1. PICK c : c = [chk[k] EXCEPT !.pc = "save"]
    OBVIOUS
  <2>2. c \in Chk /\ c.pc = "save" /\ c.name = chk[k].name
    BY <1>2, <2>1 DEF Chk, CheckPc
  <2>3. ChkOK'
    BY <1>1, <1>2, <1>5, <2>1, <2>2, ChkSet DEF Arrives
  <2>q. ServicesTypeOK' /\ RestOK'
    BY <1>1, <1>5, ServicesSame, RestSame DEF Arrives
  <2> QED BY <2>3, <2>q, PartsNext
<1> QED BY <1>3, <1>4, <1>5

\* The steps that save the digest and reload the map.
LEMMA ReloadTypes ==
    ASSUME TypeOK, NEW k \in Check, SaveDigest(k) \/ ChkQuery(k) \/ ChkSwap(k)
    PROVE  TypeOK'
<1>1. ServicesTypeOK /\ ChkOK /\ RestOK
  BY Parts
<1>2. chk[k] \in Chk /\ (chk[k].pc # "none" => chk[k].name \in Service)
  BY <1>1, ChkOf
<1>3. CASE SaveDigest(k)
  <2>1. PICK c : c = [chk[k] EXCEPT !.pc = "query"]
    OBVIOUS
  <2>2. c \in Chk /\ c.pc = "query" /\ c.name = chk[k].name
    BY <1>2, <2>1 DEF Chk, CheckPc
  <2>3. ChkOK'
    BY <1>1, <1>2, <1>3, <2>1, <2>2, ChkSet DEF SaveDigest
  <2>4. PICK n \in Service, d \in Nat : DigestSaved(n, d)
    <3>1. chk[k].dig \in Nat
      BY <1>2 DEF Chk
    <3> QED BY <1>2, <1>3, <3>1 DEF SaveDigest
  <2>5. rows' \in Table
    <3>1. CASE rows[n] = NoRow
      BY <1>1, <2>4, <3>1 DEF DigestSaved, ServicesTypeOK
    <3>2. CASE rows[n] # NoRow
      <4>1. rows[n] \in Row
        BY <1>1, <3>2 DEF ServicesTypeOK, Table
      <4>2. [rows[n] EXCEPT !.last = d] \in Row
        BY <4>1 DEF Row
      <4>3. rows' = [rows EXCEPT ![n] = [rows[n] EXCEPT !.last = d]]
        BY <2>4, <3>2 DEF DigestSaved
      <4> QED BY <1>1, <4>2, <4>3 DEF ServicesTypeOK, Table
    <3> QED BY <3>1, <3>2
  <2>6. ServicesTypeOK'
    BY <1>1, <1>3, <2>5 DEF SaveDigest, ServicesTypeOK
  <2>q. RestOK'
    BY <1>1, <1>3, RestSame DEF SaveDigest
  <2> QED BY <2>3, <2>6, <2>q, PartsNext
<1>4. CASE ChkQuery(k)
  <2>1. PICK c : c = [chk[k] EXCEPT !.pc = "swap", !.snap = rows]
    OBVIOUS
  <2>2. c \in Chk /\ c.pc = "swap" /\ c.name = chk[k].name /\ c.snap \in Table
    BY <1>1, <1>2, <2>1 DEF Chk, CheckPc, ServicesTypeOK
  <2>3. ChkOK'
    BY <1>1, <1>2, <1>4, <2>1, <2>2, ChkSet DEF ChkQuery
  <2>q. ServicesTypeOK' /\ RestOK'
    BY <1>1, <1>4, ServicesSame, RestSame DEF ChkQuery
  <2> QED BY <2>3, <2>q, PartsNext
<1>5. CASE ChkSwap(k)
  <2>1. PICK c : c = [chk[k] EXCEPT !.pc = "read", !.snap = NoRow]
    OBVIOUS
  <2>2. c \in Chk /\ c.pc = "read" /\ c.name = chk[k].name
    BY <1>2, <2>1 DEF Chk, CheckPc
  <2>3. ChkOK'
    BY <1>1, <1>2, <1>5, <2>1, <2>2, ChkSet DEF ChkSwap
  <2>4. cache' \in Table
    BY <1>1, <1>5 DEF ChkSwap, ChkOK, Reloaded
  <2>5. ServicesTypeOK'
    BY <1>1, <1>5, <2>4 DEF ChkSwap, ServicesTypeOK
  <2>q. RestOK'
    BY <1>1, <1>5, RestSame DEF ChkSwap
  <2> QED BY <2>3, <2>5, <2>q, PartsNext
<1> QED BY <1>3, <1>4, <1>5

\* compareAndPublish.
LEMMA CompareTypes ==
    ASSUME TypeOK, NEW k \in Check, CompareRead(k) \/ CompareAct(k)
    PROVE  TypeOK'
<1>1. ServicesTypeOK /\ ChkOK /\ RestOK
  BY Parts
<1>2. chk[k] \in Chk /\ (chk[k].pc # "none" => chk[k].name \in Service)
  BY <1>1, ChkOf
<1>3. CASE CompareRead(k)
  <2> DEFINE n == chk[k].name
  <2>1. n \in Service /\ ring[n] \in Nat /\ chk[k].last \in Nat
    BY <1>1, <1>2, <1>3 DEF CompareRead, RestOK, Chk
  <2>2. /\ UNCHANGED <<serviceVars, worldVars, since, ring, queue, told>>
        /\ \/ SetChk(k, NoCheck) /\ owed' = owed \cup {n}
           \/ \E d \in Nat : /\ SetChk(k, [chk[k] EXCEPT !.pc = "act", !.cur = d])
                            /\ UNCHANGED owed
    BY <1>3, <2>1 DEF CompareRead
  <2>3. ChkOK'
    <3>1. CASE SetChk(k, NoCheck)
      BY <1>1, <3>1, ChkEnds
    <3>2. ASSUME NEW d \in Nat, SetChk(k, [chk[k] EXCEPT !.pc = "act", !.cur = d])
          PROVE  ChkOK'
      <4>1. PICK c : c = [chk[k] EXCEPT !.pc = "act", !.cur = d]
        OBVIOUS
      <4>2. c \in Chk /\ c.pc = "act" /\ c.name = n
        BY <1>2, <4>1 DEF Chk, CheckPc
      <4> QED BY <1>1, <2>1, <3>2, <4>1, <4>2, ChkSet
    <3> QED BY <2>2, <3>1, <3>2
  <2>4. owed' \subseteq Service
    BY <1>1, <2>1, <2>2 DEF RestOK
  <2>5. RestOK' /\ ServicesTypeOK'
    BY <1>1, <2>2, <2>4, ServicesSame DEF RestOK, worldVars
  <2> QED BY <2>3, <2>5, PartsNext
<1>4. CASE CompareAct(k)
  <2> DEFINE n == chk[k].name
             d == chk[k].dig
  <2>1. n \in Service /\ d \in Nat /\ chk[k].cur \in Nat
    BY <1>2, <1>4 DEF CompareAct, Chk
  <2>2. ring' \in [Service -> Nat]
    BY <1>1, <1>4, <2>1 DEF CompareAct, RestOK
  <2>3. told' \in [Service -> Nat] /\ owed' \subseteq Service
    <3>1. told' = told \/ told' = [told EXCEPT ![n] = d]
      BY <1>4 DEF CompareAct
    <3>2. owed' = owed \/ owed' = owed \cup {n}
      BY <1>4 DEF CompareAct
    <3>3. told \in [Service -> Nat] /\ owed \subseteq Service
      BY <1>1 DEF RestOK
    <3>4. told' \in [Service -> Nat]
      BY <2>1, <3>1, <3>3
    <3> QED BY <2>1, <3>2, <3>3, <3>4
  <2>4. queue' \in Seq([name: Service, dig: Nat]) /\ Len(queue') <= QueueCap
    <3>1. queue' = queue \/ (Len(queue) < QueueCap /\ queue' = Append(queue, [name |-> n, dig |-> d]))
      BY <1>4 DEF CompareAct, Announced
    <3>2. [name |-> n, dig |-> d] \in [name: Service, dig: Nat]
      BY <2>1
    <3>3. PICK e \in [name: Service, dig: Nat] : e = [name |-> n, dig |-> d]
      BY <3>2
    <3>4. Append(queue, e) \in Seq([name: Service, dig: Nat]) /\ Len(Append(queue, e)) = Len(queue) + 1
      BY <1>1 DEF RestOK
    <3>5. Len(queue) \in Nat
      BY <1>1 DEF RestOK
    <3>6. /\ queue \in Seq([name: Service, dig: Nat]) /\ Len(queue) <= QueueCap
          /\ QueueCap \in Nat
      BY <1>1, PollingAssumption DEF RestOK
    <3>7. CASE queue' = queue
      BY ONLY <3>6, <3>7
    <3>8. CASE Len(queue) < QueueCap /\ queue' = Append(queue, e)
      <4>1. Len(queue') = Len(queue) + 1
        BY <3>4, <3>8
      <4>2. Len(queue') <= QueueCap
        BY <3>5, <3>6, <3>8, <4>1
      <4> QED BY <3>4, <3>8, <4>2
    <3> QED BY <3>1, <3>3, <3>7, <3>8
  <2>5. ChkOK'
    BY <1>1, <1>4, ChkEnds DEF CompareAct
  <2>6. UNCHANGED <<serviceVars, worldVars, since>>
    BY <1>4 DEF CompareAct
  <2>7. RestOK' /\ ServicesTypeOK'
    BY <1>1, <2>2, <2>3, <2>4, <2>6, ServicesSame DEF RestOK, worldVars
  <2> QED BY <2>5, <2>7, PartsNext
<1> QED BY <1>3, <1>4

LEMMA ExecutorTypes == ASSUME TypeOK, Applied \/ NotApplied PROVE TypeOK'
<1>1. ServicesTypeOK /\ ChkOK /\ RestOK
  BY Parts
<1>2. queue # <<>>
  BY DEF Applied, NotApplied
<1>3. Head(queue) \in [name: Service, dig: Nat]
  <2>1. PICK S : S = [name: Service, dig: Nat]
    OBVIOUS
  <2>2. queue \in Seq(S)
    BY <1>1, <2>1 DEF RestOK
  <2>3. Head(queue) \in S
    BY <1>2, <2>2
  <2> QED BY <2>1, <2>3
<1>4. PICK n \in Service, d \in Nat : Head(queue).name = n /\ Head(queue).dig = d
  BY <1>3
<1>5. queue' \in Seq([name: Service, dig: Nat]) /\ Len(queue') <= QueueCap
  <2>1. queue' = Tail(queue)
    BY DEF Applied, NotApplied
  <2>2. Tail(queue) \in Seq([name: Service, dig: Nat]) /\ Len(Tail(queue)) = Len(queue) - 1
    BY <1>1, <1>2 DEF RestOK
  <2>3. Len(queue) \in Nat
    BY <1>1 DEF RestOK
  <2> QED BY <1>1, <2>1, <2>2, <2>3, PollingAssumption DEF RestOK
<1>6. UNCHANGED <<serviceVars, chk, since, told, reg, up, composed, spent>>
  BY DEF Applied, NotApplied, worldVars
<1>7. runs' \in [Service -> Nat] /\ ring' \in [Service -> Nat] /\ owed' \subseteq Service
  <2>1. CASE Applied
    <3>1. PICK v \in Nat, w \in Nat :
            /\ runs' = [runs EXCEPT ![n] = v] /\ ring' = [ring EXCEPT ![n] = w]
            /\ owed' \in {owed, owed \ {n}}
      <4>1. reg[n] \in Nat
        BY <1>1 DEF RestOK
      <4> QED BY <1>4, <2>1, <4>1 DEF Applied
    <3> QED BY <1>1, <3>1 DEF RestOK
  <2>2. CASE NotApplied
    BY <1>1, <1>4, <2>2 DEF NotApplied, RestOK, worldVars
  <2> QED BY <2>1, <2>2
<1>8. RestOK' /\ ServicesTypeOK'
  BY <1>1, <1>5, <1>6, <1>7, ServicesSame DEF RestOK
<1>9. ChkOK'
  BY <1>1, <1>6 DEF ChkOK
<1> QED BY <1>8, <1>9, PartsNext

LEMMA TickTypes == ASSUME TypeOK, Tick PROVE TypeOK'
<1>1. ServicesTypeOK /\ ChkOK /\ RestOK
  BY Parts
<1>2. ASSUME NEW k \in Check
      PROVE  /\ chk'[k] \in Chk /\ chk'[k].pc = chk[k].pc
             /\ chk[k].pc # "none" => /\ chk'[k].name = chk[k].name
                                      /\ chk'[k].snap = chk[k].snap
  <2>1. chk[k] \in Chk
    BY <1>1, ChkOf
  <2>2. CASE In(k, "none")
    BY <2>2, NoCheckType DEF Tick, NoCheck
  <2>3. CASE ~In(k, "none")
    <3>1. chk'[k] = [chk[k] EXCEPT !.wait = chk[k].wait + 1]
      BY <2>3 DEF Tick
    <3>2. chk[k].wait + 1 \in 0..Timeout
      <4>1. chk[k].wait \in 0..Timeout /\ chk[k].wait < Timeout
        BY <2>1, <2>3 DEF Tick, Chk
      <4> QED BY <4>1, PollingAssumption
    <3> QED BY <2>1, <3>1, <3>2 DEF Chk
  <2> QED BY <2>2, <2>3
<1>3. ChkOK'
  <2>1. chk' \in [Check -> Chk]
    BY <1>2 DEF Tick
  <2> QED BY <1>1, <1>2, <2>1 DEF ChkOK
<1>4. since' \in [Service -> 0..Longest]
  BY <1>1, PollingAssumption, ServicesAssumption DEF Tick, RestOK
<1>5. RestOK' /\ ServicesTypeOK'
  BY <1>1, <1>4, ServicesSame DEF Tick, RestOK, worldVars
<1> QED BY <1>3, <1>5, PartsNext

LEMMA WorldTypes ==
    ASSUME TypeOK, NEW n \in Service, Release(n) \/ Stop(n) \/ Start(n)
    PROVE  TypeOK'
<1>1. ServicesTypeOK /\ ChkOK /\ RestOK
  BY Parts
<1>2. UNCHANGED <<serviceVars, chk, since, queue, told, owed, runs, composed>>
  BY DEF Release, Stop, Start, pollVars
<1>3. spent' \in 0..Limit
  BY <1>1, SpentOK DEF Release, Stop, Start, RestOK
<1>4. ring' \in [Service -> Nat]
  BY <1>1 DEF Release, Stop, Start, pollVars, RestOK
<1>5. reg' \in [Service -> Nat]
  <2>1. reg[n] + 1 \in Nat /\ reg \in [Service -> Nat]
    BY <1>1 DEF RestOK
  <2>2. reg' = reg \/ reg' = [reg EXCEPT ![n] = reg[n] + 1]
    BY DEF Release, Stop, Start
  <2> QED BY <2>1, <2>2
<1>6. up' \in [Service -> BOOLEAN]
  BY <1>1 DEF Release, Stop, Start, pollVars, RestOK
<1>7. RestOK' /\ ServicesTypeOK'
  BY <1>1, <1>2, <1>3, <1>4, <1>5, <1>6, ServicesSame DEF RestOK
<1>8. ChkOK'
  BY <1>1, <1>2 DEF ChkOK
<1> QED BY <1>7, <1>8, PartsNext

LEMMA FailureTypes ==
    ASSUME TypeOK, NEW k \in Check, RequestFails(k) \/ SaveFails(k)
    PROVE  TypeOK'
<1>1. ServicesTypeOK /\ ChkOK /\ RestOK
  BY Parts
<1>2. chk[k] \in Chk /\ (chk[k].pc # "none" => chk[k].name \in Service)
  BY <1>1, ChkOf
<1>3. UNCHANGED <<serviceVars, since, ring, queue, told, owed, reg, up, runs, composed>>
  BY DEF RequestFails, SaveFails
<1>4. spent' \in 0..Limit
  BY <1>1, SpentOK DEF RequestFails, SaveFails, RestOK
<1>5. RestOK' /\ ServicesTypeOK'
  BY <1>1, <1>3, <1>4, ServicesSame DEF RestOK
<1>6. ChkOK'
  <2>1. CASE RequestFails(k)
    BY <1>1, <2>1, ChkEnds DEF RequestFails
  <2>2. CASE SaveFails(k)
    <3>1. PICK c : c = [chk[k] EXCEPT !.pc = "read"]
      OBVIOUS
    <3>2. c \in Chk /\ c.pc = "read" /\ c.name = chk[k].name
      BY <1>2, <3>1 DEF Chk, CheckPc
    <3> QED BY <1>1, <1>2, <2>2, <3>1, <3>2, ChkSet DEF SaveFails
  <2> QED BY <2>1, <2>2
<1> QED BY <1>5, <1>6, PartsNext

LEMMA RestartTypes == ASSUME TypeOK, Restart PROVE TypeOK'
<1>1. ServicesTypeOK /\ ChkOK /\ RestOK
  BY Parts
<1>2. ServicesTypeOK'
  BY <1>1, NoReqType DEF Restart, LoadServices, ServicesTypeOK, NoReq
<1>3. ChkOK'
  BY NoCheckType DEF Restart, ChkOK, NoCheck
<1>4. spent' \in 0..Limit
  BY <1>1, SpentOK DEF Restart, RestOK
<1>5. since' \in [Service -> 0..Longest] /\ ring' \in [Service -> Nat]
  BY PollingAssumption, ServicesAssumption DEF Restart
<1>6. queue' \in Seq([name: Service, dig: Nat]) /\ Len(queue') <= QueueCap
  BY PollingAssumption DEF Restart
<1>7. owed' \subseteq Service
  <2>1. \A i \in DOMAIN queue : queue[i].name \in Service
    <3>1. PICK S : S = [name: Service, dig: Nat]
      OBVIOUS
    <3>2. queue \in Seq(S)
      BY <1>1, <3>1 DEF RestOK
    <3>3. \A i \in DOMAIN queue : queue[i] \in S
      BY <3>2
    <3> QED BY <3>1, <3>3
  <2>2. \A k \in Check : Saved(k) => chk[k].name \in Service
    BY <1>1, ChkOf DEF Saved
  <2>3. owed' = owed \cup {queue[i].name : i \in DOMAIN queue}
                    \cup {chk[k].name : k \in {j \in Check : Saved(j)}}
    BY DEF Restart
  <2>4. owed \subseteq Service
    BY <1>1 DEF RestOK
  <2>5. {queue[i].name : i \in DOMAIN queue} \subseteq Service
    BY <2>1
  <2>6. {chk[k].name : k \in {j \in Check : Saved(j)}} \subseteq Service
    BY <2>2
  <2> QED BY <2>3, <2>4, <2>5, <2>6
<1>8. RestOK'
  BY <1>1, <1>4, <1>5, <1>6, <1>7 DEF Restart, RestOK
<1> QED BY <1>2, <1>3, <1>8, PartsNext

LEMMA RequestTypes ==
    ASSUME TypeOK, NEW s \in Slot,
           Handler(s) \/ \E n \in Service : Request(s, n)
    PROVE  TypeOK'
<1>1. ServicesTypeOK /\ ChkOK /\ RestOK
  BY Parts
<1>2. ServicesTypeOK'
  BY <1>1, ServiceTypes DEF Handler, Request
<1>3. UNCHANGED <<chk, since, ring, queue, told, owed, reg, up, runs, composed>>
  BY DEF Handler, Request, pollVars, worldVars
<1>4. spent' \in 0..Limit
  <2>1. CASE Handler(s)
    BY <1>1, <2>1 DEF Handler, worldVars, RestOK
  <2>2. CASE \E n \in Service : Request(s, n)
    BY <1>1, <2>2, SpentOK DEF Request, RestOK
  <2> QED BY <2>1, <2>2
<1>5. RestOK'
  BY <1>1, <1>3, <1>4 DEF RestOK
<1>6. ChkOK'
  BY <1>1, <1>3 DEF ChkOK
<1> QED BY <1>2, <1>5, <1>6, PartsNext

LEMMA TypeNext == ASSUME TypeOK, [Next]_vars PROVE TypeOK'
<1>1. CASE UNCHANGED vars
  <2>1. ServicesTypeOK /\ ChkOK /\ RestOK
    BY Parts
  <2>2. ChkOK' /\ RestOK' /\ ServicesTypeOK'
    BY <1>1, <2>1, ServicesSame DEF vars, pollVars, worldVars, ChkOK, RestOK
  <2> QED BY <2>2, PartsNext
<1>2. ASSUME NEW k \in Check, CheckStep(k) PROVE TypeOK'
  BY <1>2, RecordTypes, ReloadTypes, CompareTypes DEF CheckStep
<1>3. CASE Environment
  BY <1>3, WorldTypes, FailureTypes, RestartTypes, RequestTypes DEF Environment
<1> QED BY <1>1, <1>2, <1>3, DispatchTypes, ExecutorTypes, TickTypes, RequestTypes DEF Next

\* The poller, the handlers and the executor keep to their types: a check that
\* runs has a service, one that reloads has read a table, the executor's
\* buffer holds no more than its capacity.
THEOREM TypeCorrect == Spec => []TypeOK
<1>1. Init => TypeOK
  BY TypeInit
<1>2. TypeOK /\ [Next]_vars => TypeOK'
  BY TypeNext
<1> QED BY <1>1, <1>2, PTL DEF Spec

-----------------------------------------------------------------------------
(* Order.                                                                  *)

\* All the requests of a check, slow as they may be, fit into an interval.
Prompt == \A e \in Every : Requests * Timeout < e

\* The time i requests may take.
Times(i) == CASE i = 0 -> 0
              [] i = 1 -> Timeout
              [] i = 2 -> Timeout + Timeout
              [] i = 3 -> Timeout + Timeout + Timeout

LEMMA TimesStep ==
    /\ Timeout \in Nat /\ Times(0) = 0
    /\ \A i \in 0..3 : Times(i) \in Nat
    /\ \A i \in 0..2 : Times(i + 1) = Times(i) + Timeout
<1>1. Timeout \in Nat
  BY PollingAssumption
<1>2. /\ Times(0) = 0 /\ Times(1) = Timeout
      /\ Times(2) = Timeout + Timeout /\ Times(3) = Timeout + Timeout + Timeout
  BY DEF Times
<1>3. \A i \in 0..3 : i = 0 \/ i = 1 \/ i = 2 \/ i = 3
  OBVIOUS
<1>4. \A i \in 0..3 : Times(i) \in Nat
  BY <1>1, <1>2, <1>3
<1>5. ASSUME NEW i \in 0..2 PROVE Times(i + 1) = Times(i) + Timeout
  <2>1. CASE i = 0
    <3>1. i + 1 = 1
      BY <2>1
    <3> QED BY <1>1, <1>2, <2>1, <3>1
  <2>2. CASE i = 1
    <3>1. i + 1 = 2
      BY <2>2
    <3> QED BY <1>1, <1>2, <2>2, <3>1
  <2>3. CASE i = 2
    <3>1. i + 1 = 3
      BY <2>3
    <3> QED BY <1>1, <1>2, <2>3, <3>1
  <2> QED BY <2>1, <2>2, <2>3
<1> QED BY <1>1, <1>2, <1>4, <1>5

LEMMA PromptTimes ==
    ASSUME Prompt, NEW e \in Every PROVE Times(Requests) < e
<1>1. Times(Requests) = Requests * Timeout
  <2>1. CASE Requests = 1
    BY <2>1, TimesStep DEF Times
  <2>2. CASE Requests = 2
    BY <2>2, TimesStep DEF Times
  <2>3. CASE Requests = 3
    BY <2>3, TimesStep DEF Times
  <2> QED BY <2>1, <2>2, <2>3, ReqCount
<1> QED BY <1>1 DEF Prompt

Running(k) == chk[k].pc # "none"
Knows(k) == chk[k].pc \in CheckPc \ {"asking"}

\* A check is no older than its requests may have made it, at most one runs
\* for a service, and what it knows is between what was told and what is.
Timely(k) ==
    /\ chk[k].left \in 1..Requests
    /\ since[chk[k].name] <= Times(Requests - chk[k].left) + chk[k].wait

OrderOK ==
    /\ \A n \in Service : told[n] <= reg[n]
    /\ \A k \in Check : Running(k) => Timely(k)
    /\ \A j, k \in Check :
         Running(j) /\ Running(k) /\ chk[j].name = chk[k].name => j = k
    /\ \A k \in Check :
         Knows(k) => told[chk[k].name] <= chk[k].dig /\ chk[k].dig <= reg[chk[k].name]

\* A step of one check that is the same one afterwards, and knows no less.
LEMMA SameCheck ==
    ASSUME ChkOK, OrderOK, NEW k \in Check, Running(k), NEW c \in Chk,
           chk' = [chk EXCEPT ![k] = c],
           c.name = chk[k].name,
           c.left \in 1..Requests,
           since[c.name] <= Times(Requests - c.left) + c.wait,
           c.pc \in CheckPc \ {"asking"} =>
              told[c.name] <= c.dig /\ c.dig <= reg[c.name],
           UNCHANGED <<since, told, reg>>
    PROVE  OrderOK'
<1>1. chk'[k] = c /\ \A j \in Check \ {k} : chk'[j] = chk[j]
  BY DEF ChkOK
<1>2. \A j \in Check : chk'[j].name = chk[j].name /\ (Running(j)' => Running(j))
  BY <1>1 DEF Running
<1>3. ASSUME NEW j \in Check, Running(j)' PROVE Timely(j)'
  BY <1>1, <1>2, <1>3 DEF OrderOK, Timely, Running
<1>4. ASSUME NEW j \in Check, Knows(j)'
      PROVE  (told[chk[j].name] <= chk[j].dig /\ chk[j].dig <= reg[chk[j].name])'
  BY <1>1, <1>4 DEF OrderOK, Knows
<1> QED BY <1>2, <1>3, <1>4 DEF OrderOK

\* Checks that end, and time, tellings and releases left alone.
LEMMA OtherChecks ==
    ASSUME OrderOK, UNCHANGED <<since, told, reg>>,
           \A k \in Check : chk'[k] = chk[k] \/ chk'[k] = NoCheck
    PROVE  OrderOK'
<1>1. NoCheck.pc = "none"
  BY DEF NoCheck
<1>2. \A k \in Check : Running(k)' \/ Knows(k)' => chk'[k] = chk[k]
  BY <1>1 DEF Running, Knows, CheckPc
<1> QED BY <1>2 DEF OrderOK, Timely, Running, Knows

LEMMA TimesFit ==
    ASSUME NEW left \in 1..Requests
    PROVE  /\ Requests - left \in 0..2
           /\ Times(Requests - left) \in Nat
           /\ Times(Requests - left) + Timeout <= Times(Requests)
<1>1. PICK r \in 1..3 : r = Requests
  BY ReqCount
<1>2. left \in 1..r
  BY <1>1
<1>3. r - left \in 0..2 /\ r - left \in 0..3
  BY <1>2
<1>4. Times(r - left) \in Nat
  BY <1>3, TimesStep
<1>5. Times(r - left) + Timeout <= Times(r)
  <2>1. /\ Timeout \in Nat /\ Times(0) = 0 /\ Times(1) = Timeout
        /\ Times(2) = Timeout + Timeout /\ Times(3) = Timeout + Timeout + Timeout
    BY TimesStep DEF Times
  <2>2. /\ r = 1 => r - left = 0
        /\ r = 2 => r - left = 0 \/ r - left = 1
        /\ r = 3 => r - left = 0 \/ r - left = 1 \/ r - left = 2
    BY <1>2
  <2>3. r = 1 \/ r = 2 \/ r = 3
    OBVIOUS
  <2> QED BY <2>1, <2>2, <2>3
<1> QED BY <1>1, <1>3, <1>4, <1>5

LEMMA RunningType ==
    ASSUME ChkOK, RestOK, OrderOK, NEW k \in Check, Running(k)
    PROVE  /\ chk[k] \in Chk /\ chk[k].name \in Service
           /\ chk[k].wait \in 0..Timeout /\ chk[k].left \in 1..Requests
           /\ chk[k].dig \in Nat
           /\ since[chk[k].name] \in Nat
           /\ told[chk[k].name] \in Nat /\ reg[chk[k].name] \in Nat
           /\ since[chk[k].name] <= Times(Requests - chk[k].left) + chk[k].wait
<1>1. chk[k] \in Chk /\ chk[k].name \in Service
  BY ChkOf DEF Running
<1>2. since[chk[k].name] \in Nat
  <2>1. since[chk[k].name] \in 0..Longest /\ Longest \in Nat
    BY <1>1, PollingAssumption, ServicesAssumption DEF RestOK
  <2> QED BY <2>1
<1>3. chk[k].left \in 1..Requests
  BY DEF OrderOK, Timely
<1>4. since[chk[k].name] <= Times(Requests - chk[k].left) + chk[k].wait
  BY DEF OrderOK, Timely
<1>5. chk[k].wait \in 0..Timeout /\ chk[k].dig \in Nat
  BY <1>1 DEF Chk
<1> QED BY <1>1, <1>2, <1>3, <1>4, <1>5 DEF RestOK

\* By the time a service is due again its last check is over.
LEMMA NoneRuns ==
    ASSUME TypeOK, OrderOK, Prompt,
           NEW n \in Service, NEW k \in Check, Dispatch(n, k),
           NEW j \in Check, Running(j)
    PROVE  chk[j].name # n
<1>1. ServicesTypeOK /\ ChkOK /\ RestOK
  BY Parts
<1>2. PICK e \in Every : since[n] >= e
  BY <1>1 DEF Dispatch, Polled, ServicesTypeOK, Table, Row
<1>3. SUFFICES ASSUME chk[j].name = n PROVE FALSE
  OBVIOUS
<1>4. /\ since[n] \in Nat /\ chk[j].wait \in 0..Timeout
      /\ chk[j].left \in 1..Requests
      /\ since[n] <= Times(Requests - chk[j].left) + chk[j].wait
  BY <1>1, <1>3, RunningType
<1>5. /\ Times(Requests - chk[j].left) \in Nat
      /\ Times(Requests - chk[j].left) + Timeout <= Times(Requests)
  BY <1>4, TimesFit
<1>6. Times(Requests) < e /\ e \in Nat /\ Times(Requests) \in Nat /\ Timeout \in Nat
  BY PromptTimes, ServicesAssumption, TimesStep, ReqCount
<1>7. PICK t \in Nat, u \in Nat, w \in Nat :
        /\ t = Times(Requests - chk[j].left) /\ u = Times(Requests)
        /\ w = chk[j].wait /\ w <= Timeout
  BY <1>4, <1>5, <1>6
<1>8. since[n] <= t + w /\ t + Timeout <= u /\ u < e /\ since[n] >= e
  BY <1>2, <1>4, <1>5, <1>6, <1>7
<1> QED BY <1>4, <1>6, <1>7, <1>8

LEMMA DispatchOrder ==
    ASSUME TypeOK, OrderOK, Prompt,
           NEW n \in Service, NEW k \in Check, Dispatch(n, k)
    PROVE  OrderOK'
<1>1. ServicesTypeOK /\ ChkOK /\ RestOK
  BY Parts
<1>2. \A j \in Check : Running(j) => chk[j].name # n
  BY NoneRuns
<1>3. ~Running(k) /\ UNCHANGED <<told, reg>>
  BY DEF Dispatch, Running, worldVars
<1>4. PICK c : /\ c = [NoCheck EXCEPT !.pc = "asking", !.name = n,
                                       !.last = cache[n].last, !.left = Requests]
               /\ chk' = [chk EXCEPT ![k] = c]
  BY DEF Dispatch
<1>5. c.pc = "asking" /\ c.name = n /\ c.left = Requests /\ c.wait = 0
  BY <1>4 DEF NoCheck
<1>6. chk'[k] = c /\ \A j \in Check \ {k} : chk'[j] = chk[j]
  BY <1>1, <1>4 DEF ChkOK
<1>7. since'[n] = 0 /\ \A m \in Service \ {n} : since'[m] = since[m]
  BY <1>1 DEF Dispatch, RestOK
<1>8. ASSUME NEW j \in Check, Running(j)' PROVE Timely(j)'
  <2>1. CASE j = k
    <3>1. PICK r \in 1..3 : r = Requests
      BY ReqCount
    <3>2. r \in 1..r /\ r - r = 0 /\ 0 <= Times(0) + 0
      BY TimesStep
    <3> QED BY <1>5, <1>6, <1>7, <2>1, <3>1, <3>2 DEF Timely
  <2>2. CASE j # k
    <3>1. chk'[j] = chk[j] /\ Running(j) /\ Timely(j)
      BY <1>6, <1>8, <2>2 DEF OrderOK, Running
    <3>2. since'[chk[j].name] = since[chk[j].name]
      BY <1>1, <1>2, <1>7, <3>1, RunningType
    <3> QED BY <3>1, <3>2 DEF Timely
  <2> QED BY <2>1, <2>2
<1>9. ASSUME NEW i \in Check, NEW j \in Check, Running(i)', Running(j)',
              chk'[i].name = chk'[j].name
       PROVE  i = j
  BY <1>2, <1>5, <1>6, <1>9 DEF OrderOK, Running
<1>10. ASSUME NEW j \in Check, Knows(j)'
       PROVE  (told[chk[j].name] <= chk[j].dig /\ chk[j].dig <= reg[chk[j].name])'
  BY <1>3, <1>5, <1>6, <1>10 DEF OrderOK, Knows
<1> QED BY <1>3, <1>8, <1>9, <1>10 DEF OrderOK

LEMMA RequestOrder ==
    ASSUME TypeOK, OrderOK, NEW k \in Check, NextRequest(k) \/ Served(k)
    PROVE  OrderOK'
<1>1. ServicesTypeOK /\ ChkOK /\ RestOK
  BY Parts
<1>2. Running(k) /\ UNCHANGED <<since, told, reg>>
  BY DEF NextRequest, Served, Running, worldVars
<1>3. /\ chk[k] \in Chk /\ chk[k].name \in Service
      /\ chk[k].wait \in 0..Timeout /\ chk[k].left \in 1..Requests
      /\ chk[k].dig \in Nat
      /\ since[chk[k].name] \in Nat
      /\ told[chk[k].name] \in Nat /\ reg[chk[k].name] \in Nat
      /\ since[chk[k].name] <= Times(Requests - chk[k].left) + chk[k].wait
  BY <1>1, <1>2, RunningType
<1>4. CASE NextRequest(k)
  <2>1. PICK c : c = [chk[k] EXCEPT !.left = @ - 1, !.wait = 0]
    OBVIOUS
  <2>2. PICK r \in 1..3 : r = Requests
    BY ReqCount
  <2>3. PICK l \in 1..r : l = chk[k].left /\ l > 1
    BY <1>3, <1>4, <2>2 DEF NextRequest
  <2>4. l - 1 \in 1..r /\ r - (l - 1) = (r - l) + 1 /\ r - l \in 0..2 /\ l - 1 \in Nat
    BY <2>3
  <2>5. Times(r - (l - 1)) = Times(r - l) + Timeout /\ Times(r - l) \in Nat /\ Timeout \in Nat
    BY <2>4, TimesStep
  <2>6. chk[k].wait <= Timeout /\ chk[k].wait \in Nat
    BY <1>3, <2>5
  <2>7. since[chk[k].name] <= Times(r - (l - 1)) + 0
    BY <1>3, <2>2, <2>3, <2>5, <2>6
  <2>8. c.pc = "asking" /\ c.name = chk[k].name /\ c.left = l - 1 /\ c.wait = 0
    BY <1>3, <1>4, <2>1, <2>3 DEF NextRequest, Chk
  <2>9. c \in Chk
    <3>1. 0 \in 0..Timeout
      BY <2>5
    <3> QED BY <1>3, <2>1, <2>3, <2>4, <3>1 DEF Chk
  <2>10. c.left \in 1..Requests /\ since[c.name] <= Times(Requests - c.left) + c.wait
    BY <2>2, <2>4, <2>7, <2>8
  <2>11. chk' = [chk EXCEPT ![k] = c] /\ c.pc \notin CheckPc \ {"asking"}
    BY <1>4, <2>1, <2>8 DEF NextRequest
  <2> QED BY <1>1, <1>2, <2>8, <2>9, <2>10, <2>11, SameCheck
<1>5. CASE Served(k)
  <2>1. PICK c : c = [chk[k] EXCEPT !.pc = "answered", !.dig = reg[chk[k].name]]
    OBVIOUS
  <2>2. /\ c \in Chk /\ c.name = chk[k].name /\ c.left = chk[k].left
        /\ c.wait = chk[k].wait /\ c.dig = reg[c.name]
    BY <1>3, <2>1 DEF Chk, CheckPc
  <2>3. told[c.name] <= c.dig /\ c.dig <= reg[c.name]
    BY <1>3, <2>2 DEF OrderOK
  <2>4. chk' = [chk EXCEPT ![k] = c]
    BY <1>5, <2>1 DEF Served
  <2> QED BY <1>1, <1>2, <1>3, <2>2, <2>3, <2>4, SameCheck
<1> QED BY <1>4, <1>5

\* A check that goes on with what it knows.
LEMMA GoesOn ==
    ASSUME TypeOK, OrderOK, NEW k \in Check,
           chk[k].pc \in CheckPc \ {"asking"}, NEW c \in Chk,
           chk' = [chk EXCEPT ![k] = c],
           c.name = chk[k].name, c.left = chk[k].left,
           c.wait = chk[k].wait, c.dig = chk[k].dig,
           UNCHANGED <<since, told, reg>>
    PROVE  OrderOK'
<1>1. ChkOK /\ RestOK
  BY Parts
<1>2. Running(k) /\ Knows(k)
  BY DEF Running, Knows, CheckPc
<1>3. /\ c.left \in 1..Requests
      /\ since[c.name] <= Times(Requests - c.left) + c.wait
  BY <1>1, <1>2, RunningType
<1>4. told[c.name] <= c.dig /\ c.dig <= reg[c.name]
  BY <1>2 DEF OrderOK
<1> QED BY <1>1, <1>2, <1>3, <1>4, SameCheck

LEMMA StepOrder ==
    ASSUME TypeOK, OrderOK, NEW k \in Check,
           \/ Arrives(k) \/ SaveDigest(k) \/ ChkQuery(k) \/ ChkSwap(k)
           \/ SaveFails(k) \/ CompareRead(k)
    PROVE  OrderOK'
<1>1. ServicesTypeOK /\ ChkOK /\ RestOK
  BY Parts
<1>2. UNCHANGED <<since, told, reg>>
  BY DEF Arrives, SaveDigest, ChkQuery, ChkSwap, SaveFails, CompareRead, worldVars
<1>3. chk[k].pc \in CheckPc \ {"asking"} /\ chk[k] \in Chk
  BY <1>1, ChkOf DEF Arrives, SaveDigest, ChkQuery, ChkSwap, SaveFails, CompareRead, CheckPc
<1>4. ASSUME NEW l \in CheckPc, chk' = [chk EXCEPT ![k] = [chk[k] EXCEPT !.pc = l]]
      PROVE  OrderOK'
  <2>1. PICK c : c = [chk[k] EXCEPT !.pc = l]
    OBVIOUS
  <2>2. /\ c \in Chk /\ c.name = chk[k].name /\ c.left = chk[k].left
        /\ c.wait = chk[k].wait /\ c.dig = chk[k].dig
    BY <1>3, <2>1 DEF Chk
  <2> QED BY <1>2, <1>3, <1>4, <2>1, <2>2, GoesOn
<1>5. ASSUME NEW l \in CheckPc, NEW t \in Table \cup {NoRow},
             chk' = [chk EXCEPT ![k] = [chk[k] EXCEPT !.pc = l, !.snap = t]]
      PROVE  OrderOK'
  <2>1. PICK c : c = [chk[k] EXCEPT !.pc = l, !.snap = t]
    OBVIOUS
  <2>2. /\ c \in Chk /\ c.name = chk[k].name /\ c.left = chk[k].left
        /\ c.wait = chk[k].wait /\ c.dig = chk[k].dig
    BY <1>3, <2>1 DEF Chk
  <2> QED BY <1>2, <1>3, <1>5, <2>1, <2>2, GoesOn
<1>6. CASE Arrives(k)
  BY <1>4, <1>6 DEF Arrives, CheckPc
<1>7. CASE SaveDigest(k)
  BY <1>4, <1>7 DEF SaveDigest, CheckPc
<1>8. CASE SaveFails(k)
  BY <1>4, <1>8 DEF SaveFails, CheckPc
<1>9. CASE ChkQuery(k)
  <2>1. rows \in Table
    BY <1>1 DEF ServicesTypeOK
  <2> QED BY <1>5, <1>9, <2>1 DEF ChkQuery, CheckPc
<1>10. CASE ChkSwap(k)
  BY <1>5, <1>10 DEF ChkSwap, CheckPc
<1>11. CASE CompareRead(k)
  <2>1. /\ chk[k].name \in Service /\ ring[chk[k].name] \in Nat
        /\ chk[k].last \in Nat
    BY <1>1, <1>3, ChkOf DEF RestOK, Chk, CheckPc
  <2>2. \/ SetChk(k, NoCheck)
        \/ \E d \in Nat : SetChk(k, [chk[k] EXCEPT !.pc = "act", !.cur = d])
    BY <1>11, <2>1 DEF CompareRead
  <2>3. CASE SetChk(k, NoCheck)
    <3>1. \A j \in Check : chk'[j] = chk[j] \/ chk'[j] = NoCheck
      BY <1>1, <2>3 DEF ChkOK
    <3> QED BY <1>2, <3>1, OtherChecks
  <2>4. ASSUME NEW d \in Nat, SetChk(k, [chk[k] EXCEPT !.pc = "act", !.cur = d])
        PROVE  OrderOK'
    <3>1. PICK c : c = [chk[k] EXCEPT !.pc = "act", !.cur = d]
      OBVIOUS
    <3>2. /\ c \in Chk /\ c.name = chk[k].name /\ c.left = chk[k].left
          /\ c.wait = chk[k].wait /\ c.dig = chk[k].dig
      BY <1>3, <3>1 DEF Chk, CheckPc
    <3> QED BY <1>2, <1>3, <2>4, <3>1, <3>2, GoesOn
  <2> QED BY <2>2, <2>3, <2>4
<1> QED BY <1>6, <1>7, <1>8, <1>9, <1>10, <1>11

\* What CompareAct tells, if anything, is what the check knows.
LEMMA ActTells ==
    ASSUME TypeOK, OrderOK, NEW k \in Check, CompareAct(k)
    PROVE  LET n == chk[k].name
               d == chk[k].dig
           IN  /\ n \in Service /\ d \in Nat /\ told[n] <= d /\ d <= reg[n]
               /\ told' = [told EXCEPT ![n] = d] /\ UNCHANGED reg
<1> DEFINE n == chk[k].name
           d == chk[k].dig
<1>1. ChkOK /\ RestOK
  BY Parts
<1>2. Running(k) /\ Knows(k)
  BY DEF CompareAct, Running, Knows, CheckPc
<1>3. n \in Service /\ d \in Nat /\ told[n] \in Nat /\ reg[n] \in Nat
  BY <1>1, <1>2, RunningType
<1>4. told[n] <= d /\ d <= reg[n]
  BY <1>2 DEF OrderOK
<1>5. told' = [told EXCEPT ![n] = d]
  <2>1. \/ told' = [told EXCEPT ![n] = d]
        \/ ~(d > told[n]) /\ told' = told
    BY DEF CompareAct
  <2>2. CASE ~(d > told[n]) /\ told' = told
    <3>1. told[n] = d
      BY <1>3, <1>4, <2>2
    <3>2. told \in [Service -> Nat]
      BY <1>1 DEF RestOK
    <3> QED BY <1>3, <2>2, <3>1, <3>2
  <2> QED BY <2>1, <2>2
<1> QED BY <1>3, <1>4, <1>5 DEF CompareAct, worldVars

LEMMA ActOrder ==
    ASSUME TypeOK, OrderOK, NEW k \in Check, CompareAct(k) PROVE OrderOK'
<1>1. ChkOK /\ RestOK
  BY Parts
<1>2. PICK n \in Service, d \in Nat :
        /\ n = chk[k].name /\ d = chk[k].dig /\ told[n] <= d /\ d <= reg[n]
        /\ told' = [told EXCEPT ![n] = d] /\ UNCHANGED reg
  BY ActTells
<1>3. Running(k) /\ UNCHANGED since /\ chk' = [chk EXCEPT ![k] = NoCheck]
  BY DEF CompareAct, Running
<1>4. /\ chk'[k] = NoCheck /\ NoCheck.pc = "none"
      /\ \A j \in Check \ {k} : chk'[j] = chk[j]
  BY <1>1, <1>3 DEF ChkOK, NoCheck
<1>5. told'[n] = d /\ \A m \in Service \ {n} : told'[m] = told[m]
  BY <1>1, <1>2 DEF RestOK
<1>6. \A m \in Service : told'[m] <= reg'[m]
  BY <1>2, <1>5 DEF OrderOK
<1>7. ASSUME NEW j \in Check, Running(j)'
      PROVE  /\ chk'[j] = chk[j] /\ Running(j) /\ j # k
             /\ chk[j].name \in Service \ {n}
  <2>1. j # k /\ chk'[j] = chk[j] /\ Running(j)
    BY <1>4, <1>7 DEF Running
  <2>2. chk[j].name \in Service
    BY <1>1, <2>1, ChkOf DEF Running
  <2> QED BY <1>2, <1>3, <2>1, <2>2 DEF OrderOK
<1>8. ASSUME NEW j \in Check, Running(j)' PROVE Timely(j)'
  BY <1>3, <1>7, <1>8 DEF OrderOK, Timely
<1>9. ASSUME NEW i \in Check, NEW j \in Check, Running(i)', Running(j)',
             chk'[i].name = chk'[j].name
      PROVE  i = j
  BY <1>7, <1>9 DEF OrderOK
<1>10. ASSUME NEW j \in Check, Knows(j)'
       PROVE  (told[chk[j].name] <= chk[j].dig /\ chk[j].dig <= reg[chk[j].name])'
  <2>1. Running(j)'
    BY <1>10 DEF Knows, Running, CheckPc
  <2>2. chk'[j] = chk[j] /\ chk[j].name \in Service \ {n} /\ Knows(j)
    BY <1>7, <1>10, <2>1 DEF Knows
  <2> QED BY <1>2, <1>5, <2>2 DEF OrderOK
<1> QED BY <1>6, <1>8, <1>9, <1>10 DEF OrderOK

LEMMA TickOrder == ASSUME TypeOK, OrderOK, Tick PROVE OrderOK'
<1>1. ChkOK /\ RestOK
  BY Parts
<1>2. UNCHANGED <<told, reg>>
  BY DEF Tick, worldVars
<1>3. ASSUME NEW k \in Check
      PROVE  /\ Running(k)' <=> Running(k)
             /\ Running(k) => chk'[k] = [chk[k] EXCEPT !.wait = chk[k].wait + 1]
  BY DEF Tick, Running, NoCheck
<1>4. ASSUME NEW k \in Check, Running(k)
      PROVE  /\ chk'[k].name = chk[k].name /\ chk'[k].left = chk[k].left
             /\ chk'[k].wait = chk[k].wait + 1 /\ chk'[k].dig = chk[k].dig
             /\ chk'[k].pc = chk[k].pc
  <2>1. chk[k] \in Chk
    BY <1>1, ChkOf
  <2> QED BY <1>3, <1>4, <2>1 DEF Chk
<1>5. ASSUME NEW k \in Check, Running(k)' PROVE Timely(k)'
  <2>1. Running(k)
    BY <1>3, <1>5
  <2>2. PICK n \in Service, w \in Nat, t \in Nat, a \in Nat :
          /\ n = chk[k].name /\ w = chk[k].wait
          /\ t = Times(Requests - chk[k].left) /\ a = since[n] /\ a <= t + w
    <3>1. /\ chk[k].name \in Service /\ chk[k].wait \in 0..Timeout
          /\ chk[k].left \in 1..Requests /\ since[chk[k].name] \in Nat
          /\ since[chk[k].name] <= Times(Requests - chk[k].left) + chk[k].wait
      BY <1>1, <2>1, RunningType
    <3>2. Times(Requests - chk[k].left) \in Nat /\ Timeout \in Nat
      BY <3>1, TimesFit, TimesStep
    <3>3. chk[k].wait \in Nat
      BY <3>1, <3>2
    <3> QED BY <3>1, <3>2, <3>3
  <2>3. since'[n] = a \/ since'[n] = a + 1
    <3>1. since'[n] = a + 1 \/ (since'[n] = Longest /\ ~(a < Longest))
      <4>1. since' = [m \in Service |-> IF since[m] < Longest THEN since[m] + 1
                                        ELSE Longest]
        BY DEF Tick
      <4>2. since'[n] = IF a < Longest THEN a + 1 ELSE Longest
        BY <2>2, <4>1
      <4> QED BY <4>2
    <3>2. a <= Longest /\ Longest \in Nat
      <4>1. since[n] \in 0..Longest /\ Longest \in Nat
        BY <1>1, <2>2, PollingAssumption, ServicesAssumption DEF RestOK
      <4> QED BY <2>2, <4>1
    <3> QED BY <2>2, <3>1, <3>2
  <2>4. since'[n] <= t + (w + 1)
    BY <2>2, <2>3
  <2>5. chk'[k].left \in 1..Requests
    BY <1>1, <1>4, <2>1, RunningType
  <2> QED BY <1>4, <2>1, <2>2, <2>4, <2>5 DEF Timely
<1>6. ASSUME NEW j \in Check, NEW k \in Check, Running(j)', Running(k)',
             chk'[j].name = chk'[k].name
      PROVE  j = k
  <2>1. Running(j) /\ Running(k)
    BY <1>3, <1>6
  <2>2. chk[j].name = chk[k].name
    BY <1>4, <1>6, <2>1
  <2> QED BY <2>1, <2>2 DEF OrderOK
<1>7. ASSUME NEW k \in Check, Knows(k)'
      PROVE  (told[chk[k].name] <= chk[k].dig /\ chk[k].dig <= reg[chk[k].name])'
  <2>1. Running(k)
    BY <1>3, <1>7 DEF Knows, Running, CheckPc
  <2>2. Knows(k)
    BY <1>4, <1>7, <2>1 DEF Knows
  <2> QED BY <1>2, <1>4, <2>1, <2>2 DEF OrderOK
<1> QED BY <1>2, <1>5, <1>6, <1>7 DEF OrderOK

LEMMA ReleaseGrows ==
    ASSUME TypeOK, NEW n \in Service, Release(n)
    PROVE  /\ reg' \in [Service -> Nat] /\ \A m \in Service : reg[m] <= reg'[m]
           /\ UNCHANGED <<chk, since, told>>
<1>1. RestOK
  BY Parts
<1>2. reg \in [Service -> Nat] /\ reg[n] + 1 \in Nat
  BY <1>1 DEF RestOK
<1>3. reg' = [reg EXCEPT ![n] = reg[n] + 1]
  BY DEF Release
<1> QED BY <1>2, <1>3 DEF Release, pollVars

LEMMA ReleaseOrder ==
    ASSUME TypeOK, OrderOK, NEW n \in Service, Release(n) PROVE OrderOK'
<1>1. ChkOK /\ RestOK
  BY Parts
<1>2. /\ reg' \in [Service -> Nat] /\ \A m \in Service : reg[m] <= reg'[m]
      /\ UNCHANGED <<chk, since, told>>
  BY ReleaseGrows
<1>3. \A m \in Service : told'[m] <= reg'[m]
  BY <1>1, <1>2 DEF OrderOK, RestOK
<1>4. ASSUME NEW k \in Check, Knows(k)
      PROVE  told[chk[k].name] <= chk[k].dig /\ chk[k].dig <= reg'[chk[k].name]
  <2>1. Running(k)
    BY <1>4 DEF Knows, Running, CheckPc
  <2>2. chk[k].name \in Service /\ chk[k].dig \in Nat /\ reg[chk[k].name] \in Nat
    BY <1>1, <2>1, RunningType
  <2>3. told[chk[k].name] <= chk[k].dig /\ chk[k].dig <= reg[chk[k].name]
    BY <1>4 DEF OrderOK
  <2> QED BY <1>2, <2>2, <2>3
<1> QED BY <1>2, <1>3, <1>4 DEF OrderOK, Running, Knows, Timely

LEMMA OrderInit == Init => OrderOK
BY DEF Init, OrderOK, Running, Knows, NoCheck, CheckPc

\* The steps that leave the order alone, those that end checks included.
LEMMA OtherSteps ==
    ASSUME TypeOK,
           \/ Applied \/ NotApplied \/ UNCHANGED vars \/ Restart
           \/ \E k \in Check : RequestFails(k)
           \/ \E n \in Service : Stop(n) \/ Start(n)
           \/ \E s \in Slot : Handler(s)
           \/ \E s \in Slot, n \in Service : Request(s, n)
    PROVE  /\ UNCHANGED <<told, reg>>
           /\ \A k \in Check : chk'[k] = chk[k] \/ chk'[k] = NoCheck
           /\ UNCHANGED since \/ \A k \in Check : chk'[k] = NoCheck
<1>1. chk \in [Check -> Chk]
  BY DEF TypeOK
<1>2. CASE Restart
  BY <1>2 DEF Restart
<1>3. ASSUME NEW k \in Check, RequestFails(k)
      PROVE  /\ UNCHANGED <<told, reg, since>>
             /\ \A j \in Check : chk'[j] = chk[j] \/ chk'[j] = NoCheck
  BY <1>1, <1>3 DEF RequestFails
<1>4. CASE Applied \/ NotApplied \/ UNCHANGED vars
  BY <1>4 DEF Applied, NotApplied, vars, pollVars, worldVars
<1>5. ASSUME NEW n \in Service, Stop(n) \/ Start(n)
      PROVE  UNCHANGED <<told, reg, since, chk>>
  BY <1>5 DEF Stop, Start, pollVars
<1>6. ASSUME NEW s \in Slot, Handler(s) PROVE UNCHANGED <<told, reg, since, chk>>
  BY <1>6 DEF Handler, pollVars, worldVars
<1>7. ASSUME NEW s \in Slot, NEW n \in Service, Request(s, n)
      PROVE  UNCHANGED <<told, reg, since, chk>>
  BY <1>7 DEF Request, pollVars
<1> QED BY <1>2, <1>3, <1>4, <1>5, <1>6, <1>7

LEMMA OtherOrder ==
    ASSUME OrderOK, UNCHANGED <<told, reg>>,
           \A k \in Check : chk'[k] = chk[k] \/ chk'[k] = NoCheck,
           UNCHANGED since \/ \A k \in Check : chk'[k] = NoCheck
    PROVE  OrderOK'
<1>1. CASE UNCHANGED since
  BY <1>1, OtherChecks
<1>2. CASE \A k \in Check : chk'[k] = NoCheck
  BY <1>2 DEF OrderOK, Running, Knows, NoCheck, CheckPc
<1> QED BY <1>1, <1>2

\* Every step is one of the above; besides a release and an announcement
\* none changes what is told or released.
LEMMA Steps ==
    ASSUME TypeOK, OrderOK, Prompt, [Next]_vars
    PROVE  /\ OrderOK'
           /\ \/ \E n \in Service : Release(n)
              \/ \E k \in Check : CompareAct(k)
              \/ UNCHANGED <<told, reg>>
<1>1. ASSUME NEW n \in Service, NEW k \in Check, Dispatch(n, k)
      PROVE  OrderOK' /\ UNCHANGED <<told, reg>>
  BY <1>1, DispatchOrder DEF Dispatch, worldVars
<1>2. ASSUME NEW k \in Check, NextRequest(k) \/ Served(k)
      PROVE  OrderOK' /\ UNCHANGED <<told, reg>>
  BY <1>2, RequestOrder DEF NextRequest, Served, worldVars
<1>3. ASSUME NEW k \in Check,
             \/ Arrives(k) \/ SaveDigest(k) \/ ChkQuery(k) \/ ChkSwap(k)
             \/ SaveFails(k) \/ CompareRead(k)
      PROVE  OrderOK' /\ UNCHANGED <<told, reg>>
  <2>1. OrderOK'
    BY <1>3, StepOrder
  <2>2. UNCHANGED <<told, reg>>
    BY <1>3 DEF Arrives, SaveDigest, ChkQuery, ChkSwap, SaveFails, CompareRead, worldVars
  <2> QED BY <2>1, <2>2
<1>4. ASSUME NEW k \in Check, CompareAct(k) PROVE OrderOK'
  BY <1>4, ActOrder
<1>5. CASE Tick
  BY <1>5, TickOrder DEF Tick, worldVars
<1>6. ASSUME NEW n \in Service, Release(n) PROVE OrderOK'
  BY <1>6, ReleaseOrder
<1>7. CASE \/ Applied \/ NotApplied \/ UNCHANGED vars \/ Restart
           \/ \E k \in Check : RequestFails(k)
           \/ \E n \in Service : Stop(n) \/ Start(n)
           \/ \E s \in Slot : Handler(s)
           \/ \E s \in Slot, n \in Service : Request(s, n)
  BY <1>7, OtherSteps, OtherOrder
<1>8. ASSUME NEW k \in Check, CheckStep(k)
      PROVE  OrderOK' /\ (CompareAct(k) \/ UNCHANGED <<told, reg>>)
  BY <1>2, <1>3, <1>4, <1>8 DEF CheckStep
<1>9. CASE Environment
  BY <1>3, <1>6, <1>7, <1>9 DEF Environment
<1> QED BY <1>1, <1>5, <1>7, <1>8, <1>9 DEF Next

LEMMA Refines ==
    ASSUME TypeOK, OrderOK, Prompt, [Next]_vars
    PROVE  [F!Next]_<<reg, told>>
<1>1. CASE UNCHANGED <<told, reg>>
  BY <1>1
<1>2. ASSUME NEW n \in Service, Release(n) PROVE F!Released
  <2>1. /\ reg' \in [Service -> Nat] /\ \A m \in Service : reg[m] <= reg'[m]
        /\ UNCHANGED told
    BY <1>2, ReleaseGrows
  <2>2. reg \in [Service -> Nat]
    BY DEF TypeOK
  <2> QED BY <2>1, <2>2 DEF F!Released
<1>3. ASSUME NEW k \in Check, CompareAct(k)
      PROVE  UNCHANGED <<told, reg>> \/ \E n \in Service : F!Tell(n)
  <2>1. PICK n \in Service, d \in Nat :
          /\ told[n] <= d /\ d <= reg[n]
          /\ told' = [told EXCEPT ![n] = d] /\ UNCHANGED reg
    BY <1>3, ActTells
  <2>2. told \in [Service -> Nat] /\ told[n] \in Nat /\ reg[n] \in Nat
    BY DEF TypeOK
  <2>3. CASE d = told[n]
    BY <2>1, <2>2, <2>3
  <2>4. CASE d # told[n]
    <3>1. told[n] < reg[n] /\ d \in told[n] + 1..reg[n]
      BY <2>1, <2>2, <2>4
    <3> QED BY <2>1, <3>1 DEF F!Tell
  <2> QED BY <2>3, <2>4
<1> QED BY <1>1, <1>2, <1>3, Steps DEF F!Next

\* If the requests of a check, each as slow as its timeout allows, fit into
\* the shortest interval, no announcement of the poller names an older digest
\* than one before it: its safety part is Follow's, whatever the registry
\* releases, requests or saves fail, and the process is started again.
THEOREM NoReturn ==
    ASSUME Prompt PROVE Spec => F!Init /\ [][F!Next]_<<reg, told>>
<1>1. Init => TypeOK /\ OrderOK
  BY TypeInit, OrderInit
<1>2. TypeOK /\ OrderOK /\ [Next]_vars =>
        TypeOK' /\ OrderOK' /\ [F!Next]_<<reg, told>>
  BY TypeNext, Steps, Refines
<1>3. Init => F!Init
  BY DEF Init, F!Init
<1> QED BY <1>1, <1>2, <1>3, PTL DEF Spec
-----------------------------------------------------------------------------
(* What is saved is accounted for.                                         *)

LastOf(t, n) == IF t[n] = NoRow THEN 0 ELSE t[n].last

\* A copy of the services table may be older than the table, not newer.
Older(t) ==
    \A n \in Service :
        /\ t[n] # NoRow => rows[n] # NoRow
        /\ LastOf(t, n) <= LastOf(rows, n)

TablesOld ==
    /\ Older(cache)
    /\ \A s \in Slot : req[s].pc = "swap" => Older(req[s].snap)
    /\ \A k \in Check : chk[k].pc = "swap" => Older(chk[k].snap)

\* What a service's row, ring and container hold is no newer than the
\* registry's digest; the ring came from the container or from the row.
ServiceOrdered(n) ==
    /\ 1 <= reg[n] /\ runs[n] <= reg[n] /\ LastOf(rows, n) <= reg[n]
    /\ n \notin composed => runs[n] <= told[n] \/ runs[n] <= 1
    /\ ring[n] <= runs[n] \/ ring[n] <= LastOf(rows, n)

\* A check starts from an older row than its answer will be.
CheckOrdered(k) ==
    LET c == chk[k]
        n == c.name
    IN  /\ Running(k) => rows[n] # NoRow /\ c.last <= LastOf(rows, n)
        /\ Knows(k) => 1 <= c.dig /\ LastOf(rows, n) <= c.dig
        /\ In(k, "act") => c.cur <= runs[n] \/ c.cur <= LastOf(rows, n)

\* The updates of a service are queued in the order of their digests.
QueueOrdered ==
    \A i \in 1..Len(queue) :
        LET n == queue[i].name
        IN  /\ rows[n] # NoRow /\ queue[i].dig <= told[n]
            /\ n \notin composed => runs[n] <= queue[i].dig
            /\ \A j \in 1..Len(queue) :
                  i < j /\ queue[j].name = n => queue[i].dig <= queue[j].dig

OrdersOK ==
    /\ TablesOld
    /\ \A n \in Service : ServiceOrdered(n)
    /\ \A k \in Check : CheckOrdered(k)
    /\ QueueOrdered

InQueue(n, v) ==
    \E i \in 1..Len(queue) : queue[i].name = n /\ v <= queue[i].dig

\* A digest is run by the container, or an update to it or to a newer one is
\* queued, or the service is owed one.
Due(n, v) == n \in owed \/ v <= runs[n] \/ InQueue(n, v)

\* Or a check that has saved it will announce it.
Pending(n, v) ==
    \/ Due(n, v)
    \/ \E k \in Check : Saved(k) /\ chk[k].name = n /\ v <= chk[k].dig

\* What a check compares with is due already: its own digest is no excuse.
Accounted ==
    /\ \A n \in Service : Due(n, ring[n]) /\ Pending(n, LastOf(rows, n))
    /\ \A k \in Check :
         /\ Running(k) => Due(chk[k].name, chk[k].last)
         /\ In(k, "act") => Due(chk[k].name, chk[k].cur)

DigestInv == OrdersOK /\ Accounted

LEMMA LastType ==
    ASSUME NEW t \in Table, NEW n \in Service PROVE LastOf(t, n) \in Nat
BY DEF LastOf, Table, Row

LEMMA NthType ==
    ASSUME NEW S, NEW q \in Seq(S), NEW i \in 1..Len(q) PROVE q[i] \in S
OBVIOUS

\* The types that the lemmas below need.
LEMMA DigestTypes ==
    ASSUME TypeOK
    PROVE  /\ \A n \in Service :
                /\ reg[n] \in Nat /\ runs[n] \in Nat /\ told[n] \in Nat
                /\ ring[n] \in Nat /\ LastOf(rows, n) \in Nat
                /\ LastOf(cache, n) \in Nat
           /\ \A k \in Check :
                /\ chk[k].last \in Nat /\ chk[k].dig \in Nat /\ chk[k].cur \in Nat
                /\ Running(k) => chk[k].name \in Service
                /\ chk[k].pc = "swap" => chk[k].snap \in Table
           /\ \A i \in 1..Len(queue) :
                queue[i].name \in Service /\ queue[i].dig \in Nat
           /\ Len(queue) \in Nat
<1>1. rows \in Table /\ cache \in Table
  BY DEF TypeOK, ServicesTypeOK
<1>2. \A k \in Check : chk[k] \in Chk
  BY DEF TypeOK
<1>3. \A k \in Check :
        /\ chk[k].last \in Nat /\ chk[k].dig \in Nat /\ chk[k].cur \in Nat
  BY <1>2 DEF Chk
<1>4. PICK q \in Seq([name: Service, dig: Nat]) : q = queue
  BY DEF TypeOK
<1>5. \A n \in Service : LastOf(rows, n) \in Nat /\ LastOf(cache, n) \in Nat
  BY <1>1, LastType
<1>6. \A i \in 1..Len(queue) :
         queue[i].name \in Service /\ queue[i].dig \in Nat
  <2>1. \A i \in 1..Len(q) : q[i] \in [name: Service, dig: Nat]
    BY <1>4, NthType
  <2> QED BY <1>4, <2>1
<1>7. Len(queue) \in Nat
  BY <1>4
<1> QED BY <1>3, <1>5, <1>6, <1>7 DEF TypeOK, Running

\* A digest below one that is due is due.
LEMMA DueBelow ==
    ASSUME TypeOK, NEW n \in Service, NEW v \in Nat, NEW w \in Nat, v <= w,
           Due(n, w)
    PROVE  Due(n, v)
<1>1. /\ runs[n] \in Nat
      /\ \A i \in 1..Len(queue) : queue[i].dig \in Nat
  BY DigestTypes
<1> QED BY <1>1 DEF Due, InQueue

\* How a step may change a check without a word to anybody.
MovesOn(j) ==
    \/ chk'[j].pc = "none" /\ (Saved(j) => chk[j].name \in owed')
    \/ /\ Running(j) /\ chk'[j].pc # "none"
       /\ chk'[j].name = chk[j].name /\ chk'[j].last = chk[j].last
       /\ Knows(j)' => \/ Knows(j) /\ chk'[j].dig = chk[j].dig
                       \/ chk'[j].dig = reg[chk[j].name]
       /\ chk'[j].pc = "act" => \/ chk[j].pc = "act" /\ chk'[j].cur = chk[j].cur
                                \/ chk'[j].cur = ring[chk[j].name]
                                \/ chk'[j].cur = chk[j].last
       /\ chk'[j].pc = "swap" => \/ chk'[j].snap = rows
                                 \/ chk[j].pc = "swap" /\ chk'[j].snap = chk[j].snap
       /\ Saved(j) => Saved(j)' /\ chk'[j].dig = chk[j].dig

LEMMA Unmoved ==
    ASSUME NEW j, chk'[j] = chk[j], owed \subseteq owed'
    PROVE  MovesOn(j)
BY DEF MovesOn, Running, Knows, Saved

\* Nothing is due less when more is owed.
LEMMA DueStays ==
    ASSUME UNCHANGED <<runs, queue>>, owed \subseteq owed', NEW n, NEW v, Due(n, v)
    PROVE  Due(n, v)'
BY DEF Due, InQueue

LEMMA ChecksMove ==
    ASSUME TypeOK, DigestInv, \A j \in Check : MovesOn(j),
           UNCHANGED <<rows, req, reg, runs, composed, told, ring, queue>>,
           owed \subseteq owed', Older(cache)'
    PROVE  DigestInv'
<1>1. TablesOld'
  <2>1. ASSUME NEW k \in Check, chk'[k].pc = "swap" PROVE Older(chk[k].snap)'
    <3>1. \/ chk'[k].snap = rows
          \/ chk[k].pc = "swap" /\ chk'[k].snap = chk[k].snap
      BY <2>1 DEF MovesOn
    <3>2. CASE chk'[k].snap = rows
      BY <3>2, DigestTypes DEF Older, LastOf
    <3>3. CASE chk[k].pc = "swap" /\ chk'[k].snap = chk[k].snap
      BY <3>3 DEF DigestInv, OrdersOK, TablesOld, Older, LastOf
    <3> QED BY <3>1, <3>2, <3>3
  <2>2. ASSUME NEW s \in Slot, req'[s].pc = "swap" PROVE Older(req[s].snap)'
    BY <2>2 DEF DigestInv, OrdersOK, TablesOld, Older, LastOf
  <2> QED BY <2>1, <2>2 DEF TablesOld
<1>2. ASSUME NEW n \in Service PROVE ServiceOrdered(n)'
  BY DEF DigestInv, OrdersOK, ServiceOrdered, LastOf
<1>3. ASSUME NEW k \in Check, chk'[k].pc # "none"
      PROVE  /\ Running(k) /\ chk[k].name \in Service
             /\ chk'[k].name = chk[k].name /\ chk'[k].last = chk[k].last
             /\ CheckOrdered(k) /\ ServiceOrdered(chk[k].name)
             /\ \A i : rows'[i] = rows[i] /\ runs'[i] = runs[i]
             /\ LastOf(rows, chk[k].name)' = LastOf(rows, chk[k].name)
  <2>1. Running(k) /\ chk'[k].name = chk[k].name /\ chk'[k].last = chk[k].last
    BY <1>3 DEF MovesOn
  <2>2. chk[k].name \in Service
    BY <2>1, DigestTypes
  <2>3. LastOf(rows, chk[k].name)' = LastOf(rows, chk[k].name)
    BY <2>1 DEF LastOf
  <2> QED BY <2>1, <2>2, <2>3 DEF DigestInv, OrdersOK
<1>4. ASSUME NEW k \in Check PROVE CheckOrdered(k)'
  <2> SUFFICES ASSUME chk'[k].pc # "none" PROVE CheckOrdered(k)'
    BY DEF CheckOrdered, Running, Knows, CheckPc
  <2> DEFINE n == chk[k].name
  <2>1. rows'[n] # NoRow /\ chk'[k].last <= LastOf(rows, n)'
    BY <1>3 DEF CheckOrdered
  <2>2. Knows(k)' => 1 <= chk'[k].dig /\ LastOf(rows, n)' <= chk'[k].dig
    <3> SUFFICES ASSUME Knows(k)'
                 PROVE  1 <= chk'[k].dig /\ LastOf(rows, n)' <= chk'[k].dig
      OBVIOUS
    <3>1. \/ Knows(k) /\ chk'[k].dig = chk[k].dig
          \/ chk'[k].dig = reg[n]
      BY DEF MovesOn
    <3> QED BY <1>3, <3>1 DEF CheckOrdered, ServiceOrdered
  <2>3. chk'[k].pc = "act" =>
           chk'[k].cur <= runs'[n] \/ chk'[k].cur <= LastOf(rows, n)'
    <3> SUFFICES ASSUME chk'[k].pc = "act"
                 PROVE  chk'[k].cur <= runs'[n] \/ chk'[k].cur <= LastOf(rows, n)'
      OBVIOUS
    <3>1. \/ chk[k].pc = "act" /\ chk'[k].cur = chk[k].cur
          \/ chk'[k].cur = ring[n]
          \/ chk'[k].cur = chk[k].last
      BY DEF MovesOn
    <3> QED BY <1>3, <3>1 DEF CheckOrdered, ServiceOrdered
  <2>4. chk'[k].name = n
    BY <1>3
  <2> QED BY <2>1, <2>2, <2>3, <2>4 DEF CheckOrdered
<1>5. QueueOrdered'
  BY DEF DigestInv, OrdersOK, QueueOrdered
<1>6. Accounted'
  <2>1. ASSUME NEW n \in Service PROVE Due(n, ring[n])'
    BY DueStays DEF DigestInv, Accounted
  <2>2. ASSUME NEW n \in Service PROVE Pending(n, LastOf(rows, n))'
    <3>1. PICK v : v = LastOf(rows, n) /\ v = LastOf(rows, n)'
      BY DEF LastOf
    <3>2. Pending(n, v)
      BY <3>1 DEF DigestInv, Accounted
    <3>3. CASE Due(n, v)
      BY <3>1, <3>3, DueStays DEF Pending
    <3>4. ASSUME NEW k \in Check, Saved(k), chk[k].name = n, v <= chk[k].dig
          PROVE  Pending(n, v)'
      <4>1. CASE chk'[k].pc = "none"
        BY <3>4, <4>1 DEF MovesOn, Pending, Due, Saved
      <4>2. CASE chk'[k].pc # "none"
        BY <3>4, <4>2 DEF MovesOn, Pending, Saved
      <4> QED BY <4>1, <4>2
    <3> QED BY <3>1, <3>2, <3>3, <3>4 DEF Pending
  <2>3. ASSUME NEW k \in Check, Running(k)' PROVE Due(chk[k].name, chk[k].last)'
    <3>1. Due(chk[k].name, chk[k].last)
      BY <1>3, <2>3 DEF Running, DigestInv, Accounted
    <3> QED BY <1>3, <2>3, <3>1, DueStays DEF Running
  <2>4. ASSUME NEW k \in Check, chk'[k].pc = "act"
        PROVE  Due(chk[k].name, chk[k].cur)'
    <3>1. /\ Running(k) /\ chk[k].name \in Service /\ chk'[k].name = chk[k].name
      BY <1>3, <2>4
    <3>2. \/ chk[k].pc = "act" /\ chk'[k].cur = chk[k].cur
          \/ chk'[k].cur = ring[chk[k].name]
          \/ chk'[k].cur = chk[k].last
      BY <2>4 DEF MovesOn
    <3>3. Due(chk[k].name, chk'[k].cur)
      BY <3>1, <3>2 DEF DigestInv, Accounted
    <3> QED BY <3>1, <3>3, DueStays
  <2> QED BY <2>1, <2>2, <2>3, <2>4 DEF Accounted
<1> QED BY <1>1, <1>2, <1>4, <1>5, <1>6 DEF DigestInv, OrdersOK

\* The steps of a check up to its comparison, but for its saving.
LEMMA CheckDigests ==
    ASSUME TypeOK, DigestInv, NEW k \in Check,
           \/ NextRequest(k) \/ Served(k) \/ Arrives(k) \/ ChkQuery(k)
           \/ ChkSwap(k) \/ CompareRead(k) \/ SaveFails(k) \/ RequestFails(k)
    PROVE  DigestInv'
<1> USE DEF CheckPc
<1>1. chk[k] \in Chk /\ chk \in [Check -> Chk]
  BY DEF TypeOK
<1>2. /\ UNCHANGED <<rows, req, reg, runs, composed, told, ring, queue>>
      /\ owed \subseteq owed'
  BY DEF NextRequest, Served, Arrives, ChkQuery, ChkSwap, CompareRead,
         SaveFails, RequestFails, serviceVars, worldVars
<1>3. Older(cache)'
  <2>1. Older(cache)
    BY DEF DigestInv, OrdersOK, TablesOld
  <2>2. CASE cache' = cache
    BY <1>2, <2>1, <2>2 DEF Older, LastOf
  <2>3. CASE ChkSwap(k)
    <3>1. Older(chk[k].snap) /\ cache' = chk[k].snap
      BY <2>3 DEF DigestInv, OrdersOK, TablesOld, ChkSwap, Reloaded
    <3> QED BY <1>2, <3>1 DEF Older, LastOf
  <2> QED BY <2>2, <2>3 DEF NextRequest, Served, Arrives, ChkQuery, CompareRead,
          SaveFails, RequestFails, serviceVars
<1>4. \A j \in Check \ {k} : chk'[j] = chk[j]
  BY <1>1 DEF NextRequest, Served, Arrives, ChkQuery, ChkSwap, CompareRead,
     SaveFails, RequestFails
<1>5. MovesOn(k)
  <2> USE DEF MovesOn, Running, Knows, Saved
  <2>1. CASE NextRequest(k)
    <3>1. PICK c : c = [chk[k] EXCEPT !.left = @ - 1, !.wait = 0]
      OBVIOUS
    <3>2. chk'[k] = c
      BY <1>1, <2>1, <3>1 DEF NextRequest
    <3>3. c.pc = "asking" /\ c.name = chk[k].name /\ c.last = chk[k].last
      BY <1>1, <2>1, <3>1 DEF NextRequest, Chk
    <3> QED BY <2>1, <3>2, <3>3 DEF NextRequest
  <2>2. CASE Served(k)
    <3>1. PICK c : c = [chk[k] EXCEPT !.pc = "answered", !.dig = reg[chk[k].name]]
      OBVIOUS
    <3>2. chk'[k] = c
      BY <1>1, <2>2, <3>1 DEF Served
    <3>3. /\ c.pc = "answered" /\ c.name = chk[k].name /\ c.last = chk[k].last
          /\ c.dig = reg[chk[k].name]
      BY <1>1, <3>1 DEF Chk
    <3> QED BY <2>2, <3>2, <3>3 DEF Served
  <2>3. CASE Arrives(k) \/ SaveFails(k)
    <3>1. PICK l \in {"save", "read"} : chk'[k] = [chk[k] EXCEPT !.pc = l]
      BY <1>1, <2>3 DEF Arrives, SaveFails
    <3>2. PICK c : c = [chk[k] EXCEPT !.pc = l]
      OBVIOUS
    <3>3. /\ c.pc = l /\ c.name = chk[k].name /\ c.last = chk[k].last
          /\ c.dig = chk[k].dig
      BY <1>1, <3>2 DEF Chk
    <3>4. chk[k].pc \in {"answered", "save"}
      BY <2>3 DEF Arrives, SaveFails
    <3> QED BY <3>1, <3>2, <3>3, <3>4
  <2>4. CASE ChkQuery(k) \/ ChkSwap(k)
    <3>1. PICK l \in {"swap", "read"}, t \in Table \cup {NoRow} :
             /\ chk'[k] = [chk[k] EXCEPT !.pc = l, !.snap = t]
             /\ l = "swap" => t = rows
      BY <1>1, <2>4 DEF ChkQuery, ChkSwap, TypeOK, ServicesTypeOK
    <3>2. PICK c : c = [chk[k] EXCEPT !.pc = l, !.snap = t]
      OBVIOUS
    <3>3. /\ c.pc = l /\ c.name = chk[k].name /\ c.last = chk[k].last
          /\ c.dig = chk[k].dig /\ c.snap = t
      BY <1>1, <3>2 DEF Chk
    <3>4. chk[k].pc \in {"query", "swap"}
      BY <2>4 DEF ChkQuery, ChkSwap
    <3> QED BY <3>1, <3>2, <3>3, <3>4
  <2>5. CASE CompareRead(k)
    <3>1. CASE SetChk(k, NoCheck) /\ owed' = owed \cup {chk[k].name}
      BY <1>1, <3>1 DEF NoCheck
    <3>2. ASSUME NEW d, d = ring[chk[k].name] \/ d = chk[k].last,
                 SetChk(k, [chk[k] EXCEPT !.pc = "act", !.cur = d])
          PROVE  MovesOn(k)
      <4>1. PICK c : c = [chk[k] EXCEPT !.pc = "act", !.cur = d]
        OBVIOUS
      <4>2. chk'[k] = c
        BY <1>1, <3>2, <4>1
      <4>3. /\ c.pc = "act" /\ c.name = chk[k].name /\ c.last = chk[k].last
            /\ c.dig = chk[k].dig /\ c.cur = d
        BY <1>1, <4>1 DEF Chk
      <4> QED BY <2>5, <3>2, <4>2, <4>3 DEF CompareRead
    <3> QED BY <2>5, <3>1, <3>2 DEF CompareRead
  <2>6. CASE RequestFails(k)
    BY <1>1, <2>6 DEF RequestFails, NoCheck
  <2> QED BY <2>1, <2>2, <2>3, <2>4, <2>5, <2>6
<1>6. \A j \in Check : MovesOn(j)
  BY <1>2, <1>4, <1>5, Unmoved
<1> QED BY <1>2, <1>3, <1>6, ChecksMove

\* Time, and what a check does not see.
LEMMA FrameDigests ==
    ASSUME TypeOK, DigestInv,
           Tick \/ UNCHANGED vars \/ \E n \in Service : Stop(n)
    PROVE  DigestInv'
<1>1. chk \in [Check -> Chk]
  BY DEF TypeOK
<1>2. UNCHANGED <<rows, req, reg, runs, composed, told, ring, queue, owed, cache>>
  BY DEF Tick, Stop, vars, serviceVars, pollVars, worldVars
<1>3. ASSUME NEW j \in Check PROVE MovesOn(j)
  <2>1. CASE UNCHANGED vars \/ \E n \in Service : Stop(n)
    BY <2>1, Unmoved DEF Stop, vars, pollVars
  <2>2. CASE Tick
    <3>1. CASE chk[j].pc = "none"
      BY <2>2, <3>1 DEF Tick, MovesOn, NoCheck, Saved
    <3>2. CASE chk[j].pc # "none"
      <4>1. PICK c : c = [chk[j] EXCEPT !.wait = @ + 1]
        OBVIOUS
      <4>2. chk'[j] = c
        BY <2>2, <3>2, <4>1 DEF Tick
      <4>3. /\ c.pc = chk[j].pc /\ c.name = chk[j].name /\ c.last = chk[j].last
            /\ c.dig = chk[j].dig /\ c.cur = chk[j].cur /\ c.snap = chk[j].snap
        BY <1>1, <4>1 DEF Chk
      <4> QED BY <3>2, <4>2, <4>3 DEF MovesOn, Running, Knows, Saved
    <3> QED BY <3>1, <3>2
  <2> QED BY <2>1, <2>2
<1>4. Older(cache)'
  BY <1>2 DEF DigestInv, OrdersOK, TablesOld, Older, LastOf
<1> QED BY <1>2, <1>3, <1>4, ChecksMove

\* The requests of the API leave every row's digest as it is.
LEMMA RowsKept ==
    ASSUME TypeOK, DigestInv, TablesOld',
           UNCHANGED <<reg, runs, composed, told, ring, queue, owed, chk>>,
           \A n \in Service : /\ LastOf(rows, n)' = LastOf(rows, n)
                              /\ rows[n] # NoRow => rows'[n] # NoRow
    PROVE  DigestInv'
<1>1. ASSUME NEW n \in Service PROVE ServiceOrdered(n)'
  BY DEF DigestInv, OrdersOK, ServiceOrdered
<1>2. ASSUME NEW k \in Check PROVE CheckOrdered(k)'
  <2>1. CASE Running(k)
    <3>1. chk[k].name \in Service /\ CheckOrdered(k)
      BY <2>1, DigestTypes DEF DigestInv, OrdersOK
    <3> QED BY <3>1 DEF CheckOrdered, Running, Knows
  <2>2. CASE ~Running(k)
    BY <2>2 DEF CheckOrdered, Running, Knows, CheckPc
  <2> QED BY <2>1, <2>2
<1>3. QueueOrdered'
  <2>1. \A i \in 1..Len(queue) : queue[i].name \in Service
    BY DigestTypes
  <2> QED BY <2>1 DEF DigestInv, OrdersOK, QueueOrdered
<1>4. Accounted'
  BY DEF DigestInv, Accounted, Pending, Due, InQueue, Running, Saved
<1> QED BY <1>1, <1>2, <1>3, <1>4 DEF DigestInv, OrdersOK

LEMMA RowSaved ==
    ASSUME TypeOK, NEW n \in Service, NEW d \in Nat, DigestSaved(n, d),
           rows[n] # NoRow
    PROVE  /\ rows'[n] # NoRow /\ LastOf(rows, n)' = d
           /\ \A m \in Service \ {n} : rows'[m] = rows[m]
<1>1. rows \in [Service -> Row \cup {NoRow}] /\ rows[n] \in Row
  BY DEF TypeOK, ServicesTypeOK, Table
<1>2. PICK r : r = [rows[n] EXCEPT !.last = d]
  OBVIOUS
<1>3. r \in Row /\ r.last = d
  BY <1>1, <1>2 DEF Row
<1>4. r # NoRow
  BY <1>3, ServicesAssumption
<1>5. rows' = [rows EXCEPT ![n] = r]
  BY <1>2 DEF DigestSaved
<1>6. rows'[n] = r /\ \A m \in Service \ {n} : rows'[m] = rows[m]
  BY <1>1, <1>5
<1> QED BY <1>3, <1>4, <1>6 DEF LastOf

\* The row's digest is that of the check, which will announce it.
LEMMA SaveDigests ==
    ASSUME TypeOK, OrderOK, DigestInv, NEW k \in Check, SaveDigest(k)
    PROVE  DigestInv'
<1>1. Running(k) /\ Knows(k) /\ chk \in [Check -> Chk]
  BY DEF SaveDigest, Running, Knows, CheckPc, TypeOK
<1>2. PICK n \in Service, d \in Nat :
        /\ n = chk[k].name /\ d = chk[k].dig /\ rows[n] # NoRow
        /\ 1 <= d /\ LastOf(rows, n) <= d /\ d <= reg[n]
  BY <1>1, DigestTypes DEF DigestInv, OrdersOK, CheckOrdered, OrderOK
<1>3. /\ rows'[n] # NoRow /\ LastOf(rows, n)' = d
      /\ \A m \in Service \ {n} : rows'[m] = rows[m]
  BY <1>2, RowSaved DEF SaveDigest
<1>4. ASSUME NEW m \in Service
      PROVE  /\ rows[m] # NoRow => rows'[m] # NoRow
             /\ LastOf(rows, m) \in Nat /\ LastOf(rows, m)' \in Nat
             /\ LastOf(rows, m) <= LastOf(rows, m)'
  <2>1. LastOf(rows, m) \in Nat
    BY DigestTypes
  <2>2. CASE m = n
    <3>1. LastOf(rows, m)' = d /\ LastOf(rows, m) <= d
      BY <1>2, <1>3, <2>2 DEF LastOf
    <3> QED BY <1>2, <1>3, <2>1, <2>2, <3>1
  <2>3. CASE m # n
    <3>1. rows'[m] = rows[m] /\ LastOf(rows, m)' = LastOf(rows, m)
      BY <1>3, <2>3 DEF LastOf
    <3> QED BY <2>1, <3>1
  <2> QED BY <2>2, <2>3
<1>5. UNCHANGED <<cache, req, reg, runs, composed, told, ring, queue, owed>>
  BY DEF SaveDigest, worldVars
<1>6. /\ chk'[k].pc = "query" /\ chk'[k].name = n /\ chk'[k].dig = d
      /\ chk'[k].last = chk[k].last
      /\ \A j \in Check \ {k} : chk'[j] = chk[j]
  <2>1. PICK c : c = [chk[k] EXCEPT !.pc = "query"]
    OBVIOUS
  <2>2. /\ c.pc = "query" /\ c.name = n /\ c.dig = d /\ c.last = chk[k].last
    BY <1>1, <1>2, <2>1 DEF Chk
  <2> QED BY <1>1, <2>1, <2>2 DEF SaveDigest
<1>7. ASSUME NEW t \in Table, Older(t), t = t' PROVE Older(t)'
  <2>1. ASSUME NEW m \in Service PROVE LastOf(t, m)' <= LastOf(rows, m)'
    <3>1. LastOf(t, m) <= LastOf(rows, m) /\ LastOf(t, m) \in Nat
      BY <1>7, LastType DEF Older
    <3>2. LastOf(t, m)' = LastOf(t, m)
      BY <1>7 DEF LastOf
    <3> QED BY <1>4, <3>1, <3>2
  <2> QED BY <1>4, <1>7, <2>1 DEF Older
<1>8. TablesOld'
  <2>1. Older(cache)'
    BY <1>5, <1>7 DEF DigestInv, OrdersOK, TablesOld, TypeOK, ServicesTypeOK
  <2>2. ASSUME NEW s \in Slot, req'[s].pc = "swap" PROVE Older(req[s].snap)'
    BY <1>5, <1>7, <2>2 DEF DigestInv, OrdersOK, TablesOld, TypeOK, ServicesTypeOK
  <2>3. ASSUME NEW j \in Check, chk'[j].pc = "swap" PROVE Older(chk[j].snap)'
    BY <1>6, <1>7, <2>3 DEF DigestInv, OrdersOK, TablesOld, TypeOK
  <2> QED BY <2>1, <2>2, <2>3 DEF TablesOld
<1>9. ASSUME NEW m \in Service PROVE ServiceOrdered(m)'
  <2>1. ServiceOrdered(m) /\ ring[m] \in Nat /\ runs[m] \in Nat
    BY DigestTypes DEF DigestInv, OrdersOK
  <2>2. LastOf(rows, m)' <= reg[m]
    <3>1. CASE m = n
      BY <1>2, <1>3, <3>1 DEF LastOf
    <3>2. CASE m # n
      <4>1. LastOf(rows, m)' = LastOf(rows, m)
        BY <1>3, <3>2 DEF LastOf
      <4> QED BY <2>1, <4>1 DEF ServiceOrdered
    <3> QED BY <3>1, <3>2
  <2> QED BY <1>4, <1>5, <2>1, <2>2 DEF ServiceOrdered
<1>10. ASSUME NEW j \in Check, Running(j)'
       PROVE  /\ Running(j) /\ chk[j].name \in Service
              /\ chk'[j].name = chk[j].name /\ chk'[j].last = chk[j].last
              /\ chk[j].last \in Nat /\ chk[j].cur \in Nat
  <2>1. Running(j) /\ chk'[j].name = chk[j].name /\ chk'[j].last = chk[j].last
    BY <1>1, <1>2, <1>6, <1>10 DEF Running
  <2> QED BY <2>1, DigestTypes
<1>11. ASSUME NEW j \in Check PROVE CheckOrdered(j)'
  <2>1. CASE ~Running(j)'
    BY <2>1 DEF CheckOrdered, Running, Knows, CheckPc
  <2>2. CASE Running(j)'
    <3> DEFINE m == chk[j].name
    <3>1. CheckOrdered(j) /\ m \in Service /\ runs[m] \in Nat
      BY <1>10, <2>2, DigestTypes DEF DigestInv, OrdersOK
    <3>2. Running(j) /\ chk'[j].name = m /\ chk'[j].last = chk[j].last
      BY <1>10, <2>2
    <3>3. rows'[m] # NoRow /\ chk'[j].last <= LastOf(rows, m)'
      BY <1>4, <1>10, <2>2, <3>1, <3>2 DEF CheckOrdered
    <3>4. CASE j = k
      BY <1>2, <1>3, <1>6, <3>2, <3>3, <3>4 DEF CheckOrdered, LastOf
    <3>5. CASE j # k
      <4>1. m # n /\ chk'[j] = chk[j]
        BY <1>1, <1>2, <1>6, <3>2, <3>5 DEF OrderOK
      <4>2. LastOf(rows, m)' = LastOf(rows, m)
        BY <1>3, <3>1, <4>1 DEF LastOf
      <4>3. Knows(j)' => Knows(j)
        BY <4>1 DEF Knows
      <4> QED BY <1>5, <3>1, <3>3, <4>1, <4>2, <4>3 DEF CheckOrdered
    <3> QED BY <3>4, <3>5
  <2> QED BY <2>1, <2>2
<1>12. QueueOrdered'
  <2>1. \A i \in 1..Len(queue) : queue[i].name \in Service
    BY DigestTypes
  <2> QED BY <1>4, <1>5, <2>1 DEF DigestInv, OrdersOK, QueueOrdered
<1>13. \A m, v : Due(m, v) => Due(m, v)'
  BY <1>5, DueStays
<1>14. ASSUME NEW m \in Service PROVE Pending(m, LastOf(rows, m))'
  <2>1. CASE m = n
    <3>1. chk'[k].pc = "query" /\ chk'[k].name = m /\ LastOf(rows, m)' <= chk'[k].dig
      BY <1>2, <1>3, <1>6, <2>1
    <3> QED BY <3>1 DEF Pending, Saved
  <2>2. CASE m # n
    <3>1. PICK v : v = LastOf(rows, m) /\ v = LastOf(rows, m)'
      BY <1>3, <2>2 DEF LastOf
    <3>2. Pending(m, v)
      BY <3>1 DEF DigestInv, Accounted
    <3>3. ASSUME NEW j \in Check, Saved(j), chk[j].name = m, v <= chk[j].dig
          PROVE  Pending(m, v)'
      <4>1. chk'[j] = chk[j]
        BY <1>2, <1>6, <2>2, <3>3 DEF SaveDigest, Saved
      <4> QED BY <3>3, <4>1 DEF Pending, Saved
    <3> QED BY <1>13, <3>1, <3>2, <3>3 DEF Pending
  <2> QED BY <2>1, <2>2
<1>15. Accounted'
  <2>1. \A m \in Service : Due(m, ring[m])'
    BY <1>5, <1>13 DEF DigestInv, Accounted
  <2>2. ASSUME NEW j \in Check, Running(j)' PROVE Due(chk[j].name, chk[j].last)'
    BY <1>10, <1>13, <2>2 DEF DigestInv, Accounted
  <2>3. ASSUME NEW j \in Check, chk'[j].pc = "act" PROVE Due(chk[j].name, chk[j].cur)'
    BY <1>6, <1>13, <2>3 DEF DigestInv, Accounted
  <2> QED BY <1>14, <2>1, <2>2, <2>3 DEF Accounted
<1> QED BY <1>8, <1>9, <1>11, <1>12, <1>15 DEF DigestInv, OrdersOK

\* The row a check is started with was saved by one that is over: what it
\* names is due.
LEMMA DispatchDigests ==
    ASSUME TypeOK, OrderOK, Prompt, DigestInv,
           NEW n \in Service, NEW k \in Check, Dispatch(n, k)
    PROVE  DigestInv'
<1>1. /\ chk \in [Check -> Chk] /\ cache \in Table /\ cache[n] # NoRow
      /\ cache[n] \in Row /\ rows[n] # NoRow
  BY DEF Dispatch, Polled, TypeOK, ServicesTypeOK, Table, DigestInv, OrdersOK,
         TablesOld, Older
<1>2. PICK c : /\ c = [NoCheck EXCEPT !.pc = "asking", !.name = n,
                                      !.last = cache[n].last, !.left = Requests]
               /\ chk' = [chk EXCEPT ![k] = c]
  BY DEF Dispatch
<1>3. c.pc = "asking" /\ c.name = n /\ c.last = LastOf(cache, n)
  BY <1>1, <1>2 DEF NoCheck, LastOf
<1>4. chk'[k] = c /\ \A j \in Check \ {k} : chk'[j] = chk[j]
  BY <1>1, <1>2
<1>5. UNCHANGED <<rows, cache, req, reg, runs, composed, told, ring, queue, owed>>
  BY DEF Dispatch, serviceVars, worldVars
<1>6. c.last \in Nat /\ LastOf(rows, n) \in Nat /\ c.last <= LastOf(rows, n)
  BY <1>3, DigestTypes DEF DigestInv, OrdersOK, TablesOld, Older
<1>7. Due(n, c.last)
  <2>1. Pending(n, LastOf(rows, n))
    BY DEF DigestInv, Accounted
  <2>2. ~ \E j \in Check : Saved(j) /\ chk[j].name = n
    BY NoneRuns DEF Saved, Running
  <2>3. Due(n, LastOf(rows, n))
    BY <2>1, <2>2 DEF Pending
  <2> QED BY <1>6, <2>3, DueBelow
<1>8. TablesOld'
  BY <1>3, <1>4, <1>5 DEF DigestInv, OrdersOK, TablesOld, Older, LastOf
<1>9. ASSUME NEW m \in Service PROVE ServiceOrdered(m)'
  BY <1>5 DEF DigestInv, OrdersOK, ServiceOrdered, LastOf
<1>10. ASSUME NEW j \in Check PROVE CheckOrdered(j)'
  <2>1. CASE j = k
    <3>1. rows'[n] # NoRow /\ c.last <= LastOf(rows, n)' /\ ~Knows(k)'
      BY <1>1, <1>3, <1>4, <1>5, <1>6 DEF Knows, LastOf
    <3> QED BY <1>3, <1>4, <2>1, <3>1 DEF CheckOrdered, Knows
  <2>2. CASE j # k
    BY <1>4, <1>5, <2>2 DEF DigestInv, OrdersOK, CheckOrdered, Running, Knows, LastOf
  <2> QED BY <2>1, <2>2
<1>11. QueueOrdered'
  BY <1>5 DEF DigestInv, OrdersOK, QueueOrdered
<1>12. \A m, v : Due(m, v) => Due(m, v)'
  BY <1>5, DueStays
<1>13. Accounted'
  <2>1. \A m \in Service : Due(m, ring[m])'
    BY <1>5, <1>12 DEF DigestInv, Accounted
  <2>2. ASSUME NEW m \in Service PROVE Pending(m, LastOf(rows, m))'
    <3>1. PICK v : v = LastOf(rows, m) /\ v = LastOf(rows, m)'
      BY <1>5 DEF LastOf
    <3>2. Pending(m, v)
      BY <3>1 DEF DigestInv, Accounted
    <3>3. ASSUME NEW j \in Check, Saved(j), chk[j].name = m, v <= chk[j].dig
          PROVE  Pending(m, v)'
      <4>1. chk'[j] = chk[j]
        BY <1>4, <3>3 DEF Dispatch, Saved
      <4> QED BY <3>3, <4>1 DEF Pending, Saved
    <3> QED BY <1>12, <3>1, <3>2, <3>3 DEF Pending
  <2>3. ASSUME NEW j \in Check, Running(j)' PROVE Due(chk[j].name, chk[j].last)'
    <3>1. CASE j = k
      BY <1>3, <1>4, <1>7, <1>12, <3>1
    <3>2. CASE j # k
      BY <1>4, <1>12, <2>3, <3>2 DEF DigestInv, Accounted, Running
    <3> QED BY <3>1, <3>2
  <2>4. ASSUME NEW j \in Check, chk'[j].pc = "act" PROVE Due(chk[j].name, chk[j].cur)'
    <3>1. chk'[j] = chk[j]
      BY <1>3, <1>4, <2>4
    <3> QED BY <1>12, <2>4, <3>1 DEF DigestInv, Accounted
  <2> QED BY <2>1, <2>2, <2>3, <2>4 DEF Accounted
<1> QED BY <1>8, <1>9, <1>10, <1>11, <1>13 DEF DigestInv, OrdersOK

LEMMA Appended ==
    ASSUME NEW S, NEW q \in Seq(S), NEW e \in S
    PROVE  /\ Len(Append(q, e)) = Len(q) + 1 /\ Len(q) \in Nat
           /\ \A i \in 1..Len(q) : Append(q, e)[i] = q[i]
           /\ Append(q, e)[Len(q) + 1] = e
OBVIOUS

\* What CompareAct does with the queue.
LEMMA ActQueues ==
    ASSUME TypeOK, OrderOK, NEW k \in Check, CompareAct(k),
           NEW n \in Service, NEW d \in Nat, n = chk[k].name, d = chk[k].dig
    PROVE  /\ owed \subseteq owed'
           /\ \/ queue' = queue /\ (d = chk[k].cur \/ n \in owed')
              \/ /\ Len(queue') = Len(queue) + 1 /\ Len(queue) \in Nat
                 /\ \A i \in 1..Len(queue) : queue'[i] = queue[i]
                 /\ queue'[Len(queue) + 1] = [name |-> n, dig |-> d]
<1>1. PICK q \in Seq([name: Service, dig: Nat]) : q = queue
  BY DEF TypeOK
<1>2. PICK e \in [name: Service, dig: Nat] : e = [name |-> n, dig |-> d]
  OBVIOUS
<1>3. /\ Len(Append(q, e)) = Len(q) + 1 /\ Len(q) \in Nat
      /\ \A i \in 1..Len(q) : Append(q, e)[i] = q[i]
      /\ Append(q, e)[Len(q) + 1] = e
  BY Appended
<1>4. \/ d = chk[k].cur /\ UNCHANGED <<queue, owed>>
      \/ /\ d # chk[k].cur
         /\ queue' = queue \/ queue' = Append(q, e)
         /\ owed' = IF queue' = queue THEN owed \cup {n} ELSE owed
  BY <1>1, <1>2 DEF CompareAct, Announced
<1> QED BY <1>1, <1>2, <1>3, <1>4

\* A check compares with what is due, so that what it saved is due in the end.
LEMMA ActDigests ==
    ASSUME TypeOK, OrderOK, DigestInv, NEW k \in Check, CompareAct(k)
    PROVE  DigestInv'
<1>1. Running(k) /\ Knows(k) /\ In(k, "act") /\ chk \in [Check -> Chk]
  BY DEF CompareAct, Running, Knows, CheckPc, TypeOK
<1>2. PICK n \in Service, d \in Nat :
        /\ n = chk[k].name /\ d = chk[k].dig /\ told[n] <= d /\ d <= reg[n]
        /\ told' = [told EXCEPT ![n] = d]
  BY ActTells
<1>3. /\ rows[n] # NoRow /\ 1 <= d /\ LastOf(rows, n) <= d
      /\ chk[k].cur <= runs[n] \/ chk[k].cur <= LastOf(rows, n)
      /\ Due(n, chk[k].cur) /\ chk[k].cur \in Nat
  BY <1>1, <1>2, DigestTypes DEF DigestInv, OrdersOK, CheckOrdered, Accounted
<1>4. /\ UNCHANGED <<rows, cache, req, reg, runs, composed>>
      /\ chk'[k].pc = "none" /\ \A j \in Check \ {k} : chk'[j] = chk[j]
  BY <1>1 DEF CompareAct, serviceVars, worldVars, NoCheck
<1>5. /\ owed \subseteq owed'
      /\ \/ queue' = queue /\ (d = chk[k].cur \/ n \in owed')
         \/ /\ Len(queue') = Len(queue) + 1 /\ Len(queue) \in Nat
            /\ \A i \in 1..Len(queue) : queue'[i] = queue[i]
            /\ queue'[Len(queue) + 1] = [name |-> n, dig |-> d]
  BY <1>2, ActQueues
<1>6. ASSUME NEW m \in Service
      PROVE  /\ told[m] \in Nat /\ told'[m] \in Nat /\ told[m] <= told'[m]
             /\ ring'[m] = ring[m] \/ (m = n /\ ring'[m] = chk[k].cur)
             /\ runs[m] \in Nat /\ ring[m] \in Nat
  <2>1. told \in [Service -> Nat] /\ ring \in [Service -> Nat]
    BY DEF TypeOK
  <2>2. ring' = ring \/ ring' = [ring EXCEPT ![n] = chk[k].cur]
    BY <1>2 DEF CompareAct
  <2>3. told[m] \in Nat /\ told'[m] \in Nat /\ told[m] <= told'[m]
    BY <1>2, <2>1
  <2>4. ring'[m] = ring[m] \/ (m = n /\ ring'[m] = chk[k].cur)
    BY <2>1, <2>2
  <2> QED BY <2>3, <2>4, DigestTypes
<1>7. told'[n] = d
  BY <1>2 DEF TypeOK
<1>8. ASSUME NEW j \in Check, Running(j)' PROVE chk'[j] = chk[j] /\ Running(j)
  BY <1>4, <1>8 DEF Running
<1>9. TablesOld'
  BY <1>4 DEF DigestInv, OrdersOK, TablesOld, Older, LastOf
<1>10. ASSUME NEW m \in Service PROVE ServiceOrdered(m)'
  <2>1. ServiceOrdered(m) /\ LastOf(rows, m)' = LastOf(rows, m)
    BY <1>4 DEF DigestInv, OrdersOK, LastOf
  <2>2. ring'[m] <= runs[m] \/ ring'[m] <= LastOf(rows, m)
    BY <1>3, <1>6, <2>1 DEF ServiceOrdered
  <2> QED BY <1>4, <1>6, <2>1, <2>2 DEF ServiceOrdered
<1>11. ASSUME NEW j \in Check PROVE CheckOrdered(j)'
  <2>1. CASE Running(j)'
    BY <1>4, <1>8, <2>1 DEF DigestInv, OrdersOK, CheckOrdered, Knows, LastOf
  <2>2. CASE ~Running(j)'
    BY <2>2 DEF CheckOrdered, Running, Knows, CheckPc
  <2> QED BY <2>1, <2>2
<1>12. \A i \in 1..Len(queue) :
          /\ queue[i].name \in Service /\ queue[i].dig \in Nat
          /\ rows[queue[i].name] # NoRow
          /\ queue[i].dig <= told[queue[i].name]
  BY DigestTypes DEF DigestInv, OrdersOK, QueueOrdered
<1>13. QueueOrdered'
  <2>1. CASE queue' = queue
    BY <1>4, <1>6, <1>12, <2>1 DEF DigestInv, OrdersOK, QueueOrdered
  <2>2. CASE /\ Len(queue') = Len(queue) + 1 /\ Len(queue) \in Nat
             /\ \A i \in 1..Len(queue) : queue'[i] = queue[i]
             /\ queue'[Len(queue) + 1] = [name |-> n, dig |-> d]
    <3>1. ASSUME NEW i \in 1..Len(queue')
          PROVE  \/ i \in 1..Len(queue) /\ queue'[i] = queue[i]
                 \/ i = Len(queue) + 1 /\ queue'[i] = [name |-> n, dig |-> d]
      BY <2>2
    <3>2. ASSUME NEW i \in 1..Len(queue')
          PROVE  /\ rows'[queue'[i].name] # NoRow
                 /\ queue'[i].dig <= told'[queue'[i].name]
                 /\ queue'[i].name \notin composed' =>
                       runs'[queue'[i].name] <= queue'[i].dig
      <4>1. CASE i \in 1..Len(queue) /\ queue'[i] = queue[i]
        BY <1>4, <1>6, <1>12, <4>1 DEF DigestInv, OrdersOK, QueueOrdered
      <4>2. CASE queue'[i] = [name |-> n, dig |-> d]
        <5>1. n \notin composed => runs[n] <= d
          BY <1>2, <1>3, <1>6 DEF DigestInv, OrdersOK, ServiceOrdered
        <5> QED BY <1>3, <1>4, <1>7, <4>2, <5>1
      <4> QED BY <3>1, <4>1, <4>2
    <3>3. ASSUME NEW i \in 1..Len(queue'), NEW j \in 1..Len(queue'),
                 i < j, queue'[j].name = queue'[i].name
          PROVE  queue'[i].dig <= queue'[j].dig
      <4>1. i \in 1..Len(queue) /\ queue'[i] = queue[i]
        BY <2>2, <3>1, <3>3
      <4>2. CASE j \in 1..Len(queue) /\ queue'[j] = queue[j]
        BY <3>3, <4>1, <4>2 DEF DigestInv, OrdersOK, QueueOrdered
      <4>3. CASE queue'[j] = [name |-> n, dig |-> d]
        BY <1>2, <1>6, <1>12, <3>3, <4>1, <4>3
      <4> QED BY <3>1, <4>2, <4>3
    <3> QED BY <3>2, <3>3 DEF QueueOrdered
  <2> QED BY <1>5, <2>1, <2>2
<1>14. ASSUME NEW m, NEW v, Due(m, v) PROVE Due(m, v)'
  <2>1. CASE InQueue(m, v)
    <3>1. PICK i \in 1..Len(queue) : queue[i].name = m /\ v <= queue[i].dig
      BY <2>1 DEF InQueue
    <3>2. i \in 1..Len(queue') /\ queue'[i] = queue[i]
      BY <1>5
    <3> QED BY <3>1, <3>2 DEF Due, InQueue
  <2> QED BY <1>4, <1>5, <1>14, <2>1 DEF Due
<1>15. ASSUME NEW v \in Nat, v <= d PROVE Due(n, v)'
  <2>1. CASE d = chk[k].cur
    <3>1. Due(n, v)
      BY <1>3, <1>15, <2>1, DueBelow
    <3> QED BY <1>14, <3>1
  <2>2. CASE n \in owed'
    BY <2>2 DEF Due
  <2>3. CASE /\ Len(queue') = Len(queue) + 1 /\ Len(queue) \in Nat
             /\ queue'[Len(queue) + 1] = [name |-> n, dig |-> d]
    <3>1. Len(queue) + 1 \in 1..Len(queue')
      BY <2>3
    <3> QED BY <1>15, <2>3, <3>1 DEF Due, InQueue
  <2> QED BY <1>5, <2>1, <2>2, <2>3
<1>16. ASSUME NEW m \in Service PROVE Pending(m, LastOf(rows, m))'
  <2>1. PICK v \in Nat : v = LastOf(rows, m) /\ v = LastOf(rows, m)'
    BY <1>4, DigestTypes DEF LastOf
  <2>2. Pending(m, v)
    BY <2>1 DEF DigestInv, Accounted
  <2>3. ASSUME NEW j \in Check, Saved(j), chk[j].name = m, v <= chk[j].dig
        PROVE  Pending(m, v)'
    <3>1. CASE j = k
      BY <1>2, <1>15, <2>3, <3>1 DEF Pending
    <3>2. CASE j # k
      BY <1>4, <2>3, <3>2 DEF Pending, Saved
    <3> QED BY <3>1, <3>2
  <2> QED BY <1>14, <2>1, <2>2, <2>3 DEF Pending
<1>17. Accounted'
  <2>1. ASSUME NEW m \in Service PROVE Due(m, ring[m])'
    <3>1. Due(m, ring'[m])
      BY <1>3, <1>6 DEF DigestInv, Accounted
    <3> QED BY <1>14, <3>1
  <2>2. ASSUME NEW j \in Check, Running(j)' PROVE Due(chk[j].name, chk[j].last)'
    BY <1>8, <1>14, <2>2 DEF DigestInv, Accounted
  <2>3. ASSUME NEW j \in Check, chk'[j].pc = "act" PROVE Due(chk[j].name, chk[j].cur)'
    <3>1. chk'[j] = chk[j] /\ In(j, "act")
      BY <1>4, <2>3
    <3> QED BY <1>14, <3>1 DEF DigestInv, Accounted
  <2> QED BY <1>16, <2>1, <2>2, <2>3 DEF Accounted
<1> QED BY <1>9, <1>10, <1>11, <1>13, <1>17 DEF DigestInv, OrdersOK

\* The executor and the world, which leave the tables and the checks alone.
LEMMA WorldDigests ==
    ASSUME TypeOK, DigestInv, UNCHANGED <<serviceVars, chk, told>>,
           \A m \in Service : /\ runs'[m] \in Nat /\ runs[m] <= runs'[m]
                              /\ ServiceOrdered(m)' /\ Due(m, ring[m])',
           QueueOrdered',
           \A m \in Service, v \in Nat :
              (v <= LastOf(rows, m) \/ v <= runs[m]) /\ Due(m, v) => Due(m, v)'
    PROVE  DigestInv'
<1>1. UNCHANGED <<rows, cache, req>>
  BY DEF serviceVars
<1>2. TablesOld'
  BY <1>1 DEF DigestInv, OrdersOK, TablesOld, Older, LastOf
<1>3. ASSUME NEW j \in Check, Running(j)
      PROVE  LET n == chk[j].name
             IN  /\ n \in Service /\ chk[j].last \in Nat /\ chk[j].cur \in Nat
                 /\ runs[n] \in Nat /\ LastOf(rows, n) \in Nat
  BY <1>3, DigestTypes
<1>4. ASSUME NEW j \in Check PROVE CheckOrdered(j)'
  <2>1. CASE Running(j)
    <3>1. LET n == chk[j].name
          IN  /\ Running(j) => rows'[n] # NoRow /\ chk[j].last <= LastOf(rows, n)
              /\ Knows(j) => 1 <= chk[j].dig /\ LastOf(rows, n) <= chk[j].dig
              /\ In(j, "act") => chk[j].cur <= runs'[n] \/ chk[j].cur <= LastOf(rows, n)
      BY <1>1, <1>3, <2>1 DEF DigestInv, OrdersOK, CheckOrdered
    <3> QED BY <1>1, <3>1 DEF CheckOrdered, Running, Knows, LastOf
  <2>2. CASE ~Running(j)
    BY <2>2 DEF CheckOrdered, Running, Knows, CheckPc
  <2> QED BY <2>1, <2>2
<1>5. Accounted'
  <2>1. ASSUME NEW m \in Service PROVE Pending(m, LastOf(rows, m))'
    <3>1. PICK v \in Nat : v = LastOf(rows, m) /\ v = LastOf(rows, m)'
      BY <1>1, DigestTypes DEF LastOf
    <3>2. Pending(m, v) /\ v <= LastOf(rows, m)
      <4>1. Pending(m, LastOf(rows, m))
        BY DEF DigestInv, Accounted
      <4>2. v = LastOf(rows, m) /\ v <= v
        BY <3>1
      <4> QED BY <4>1, <4>2
    <3>3. Due(m, v) => Due(m, v)'
      BY <3>2
    <3> QED BY <3>1, <3>2, <3>3 DEF Pending, Saved
  <2>2. ASSUME NEW j \in Check, Running(j) PROVE Due(chk[j].name, chk[j].last)'
    <3>1. PICK n \in Service, v \in Nat : n = chk[j].name /\ v = chk[j].last
      BY <1>3, <2>2
    <3>2. Due(n, v) /\ v <= LastOf(rows, n)
      BY <2>2, <3>1 DEF DigestInv, Accounted, OrdersOK, CheckOrdered
    <3> QED BY <3>1, <3>2
  <2>3. ASSUME NEW j \in Check, In(j, "act") PROVE Due(chk[j].name, chk[j].cur)'
    <3>1. PICK n \in Service, v \in Nat : n = chk[j].name /\ v = chk[j].cur
      BY <1>3, <2>3 DEF Running
    <3>2. Due(n, v) /\ (v <= runs[n] \/ v <= LastOf(rows, n))
      BY <2>3, <3>1 DEF DigestInv, Accounted, OrdersOK, CheckOrdered
    <3> QED BY <3>1, <3>2
  <2> QED BY <2>1, <2>2, <2>3 DEF Accounted, Running
<1> QED BY <1>2, <1>4, <1>5 DEF DigestInv, OrdersOK

\* A queue without its head.
LEMMA Behind ==
    ASSUME NEW S, NEW q \in Seq(S), q # <<>>
    PROVE  /\ Head(q) = q[1] /\ 1 \in 1..Len(q)
           /\ \A i \in 1..Len(Tail(q)) : i + 1 \in 1..Len(q) /\ Tail(q)[i] = q[i + 1]
           /\ \A i \in 1..Len(q) :
                 i # 1 => i - 1 \in 1..Len(Tail(q)) /\ q[i] = Tail(q)[i - 1]
OBVIOUS

\* What the head of the queue says.
LEMMA HeadSays ==
    ASSUME TypeOK, OrderOK, DigestInv, queue # <<>>
    PROVE  LET n == Head(queue).name
               h == Head(queue).dig
           IN  /\ n \in Service /\ h \in Nat /\ n = queue[1].name /\ h = queue[1].dig
               /\ h <= told[n] /\ h <= reg[n] /\ rows[n] # NoRow
               /\ n \notin composed => runs[n] <= h
               /\ \A i \in 1..Len(queue) : queue[i].name = n => h <= queue[i].dig
<1>1. PICK q \in Seq([name: Service, dig: Nat]) : q = queue
  BY DEF TypeOK
<1>2. Head(queue) = queue[1] /\ 1 \in 1..Len(queue)
  BY <1>1, Behind
<1>3. PICK n \in Service, h \in Nat : n = queue[1].name /\ h = queue[1].dig
  BY <1>2, DigestTypes
<1>4. /\ h <= told[n] /\ rows[n] # NoRow /\ (n \notin composed => runs[n] <= h)
  BY <1>2, <1>3 DEF DigestInv, OrdersOK, QueueOrdered
<1>5. h <= reg[n]
  BY <1>3, <1>4, DigestTypes DEF OrderOK
<1>6. ASSUME NEW i \in 1..Len(queue), queue[i].name = n PROVE h <= queue[i].dig
  <2>1. CASE i = 1
    BY <1>3, <2>1
  <2>2. CASE i # 1
    <3>1. 1 < i
      BY <2>2, DigestTypes
    <3> QED BY <1>2, <1>3, <1>6, <3>1 DEF DigestInv, OrdersOK, QueueOrdered
  <2> QED BY <2>1, <2>2
<1> QED BY <1>2, <1>3, <1>4, <1>5, <1>6

\* The queue stays in order when its head is taken and that one's service
\* runs what the head names, or a service updated by compose anything.
LEMMA TakenOrdered ==
    ASSUME TypeOK, OrderOK, DigestInv, queue # <<>>, queue' = Tail(queue),
           UNCHANGED <<rows, told, composed>>,
           \A m \in Service : \/ runs'[m] = runs[m]
                              \/ m \in composed
                              \/ /\ m = Head(queue).name
                                 /\ runs'[m] = Head(queue).dig
    PROVE  QueueOrdered'
<1>1. PICK q \in Seq([name: Service, dig: Nat]) : q = queue
  BY DEF TypeOK
<1>2. \A i \in 1..Len(queue') :
          i + 1 \in 1..Len(queue) /\ queue'[i] = queue[i + 1]
  BY <1>1, Behind
<1>3. ASSUME NEW i \in 1..Len(queue')
      PROVE  /\ rows'[queue'[i].name] # NoRow
             /\ queue'[i].dig <= told'[queue'[i].name]
             /\ queue'[i].name \notin composed' =>
                   runs'[queue'[i].name] <= queue'[i].dig
  <2>1. PICK m \in Service, v \in Nat :
          m = queue[i + 1].name /\ v = queue[i + 1].dig
    BY <1>2, DigestTypes
  <2>2. rows[m] # NoRow /\ v <= told[m] /\ (m \notin composed => runs[m] <= v)
    BY <1>2, <2>1 DEF DigestInv, OrdersOK, QueueOrdered
  <2>3. m = Head(queue).name => Head(queue).dig <= v
    BY <1>2, <2>1, HeadSays
  <2> QED BY <1>2, <2>1, <2>2, <2>3
<1>4. ASSUME NEW i \in 1..Len(queue'), NEW j \in 1..Len(queue'),
             i < j, queue'[j].name = queue'[i].name
      PROVE  queue'[i].dig <= queue'[j].dig
  <2>1. i + 1 < j + 1
    BY <1>4, <1>2
  <2> QED BY <1>2, <1>4, <2>1 DEF DigestInv, OrdersOK, QueueOrdered
<1> QED BY <1>3, <1>4 DEF QueueOrdered

\* What is queued behind the head still is.
LEMMA StillQueued ==
    ASSUME TypeOK, queue # <<>>, queue' = Tail(queue), NEW m, NEW v, InQueue(m, v)
    PROVE  InQueue(m, v)' \/ (m = Head(queue).name /\ v <= Head(queue).dig)
<1>1. PICK q \in Seq([name: Service, dig: Nat]) : q = queue
  BY DEF TypeOK
<1>2. PICK i \in 1..Len(queue) : queue[i].name = m /\ v <= queue[i].dig
  BY DEF InQueue
<1>3. CASE i = 1
  BY <1>1, <1>2, <1>3, Behind
<1>4. CASE i # 1
  <2>1. i - 1 \in 1..Len(queue') /\ queue'[i - 1] = queue[i]
    BY <1>1, <1>4, Behind
  <2> QED BY <1>2, <2>1 DEF InQueue
<1> QED BY <1>3, <1>4

\* An update that was not applied is owed.
LEMMA NotAppliedDigests ==
    ASSUME TypeOK, OrderOK, DigestInv, NotApplied PROVE DigestInv'
<1>1. /\ UNCHANGED <<serviceVars, reg, runs, composed, chk, ring, told>>
      /\ queue # <<>> /\ queue' = Tail(queue)
      /\ owed' = owed \cup {Head(queue).name}
  BY DEF NotApplied, worldVars
<1>2. QueueOrdered'
  BY <1>1, TakenOrdered DEF serviceVars
<1>3. ASSUME NEW m, NEW v, Due(m, v) PROVE Due(m, v)'
  <2>1. CASE InQueue(m, v)
    BY <1>1, <2>1, StillQueued DEF Due
  <2> QED BY <1>1, <1>3, <2>1 DEF Due
<1>4. ASSUME NEW m \in Service
      PROVE  /\ runs'[m] \in Nat /\ runs[m] <= runs'[m]
             /\ ServiceOrdered(m)' /\ Due(m, ring[m])'
  <2>1. ServiceOrdered(m)'
    BY <1>1 DEF DigestInv, OrdersOK, ServiceOrdered, LastOf, serviceVars
  <2>2. Due(m, ring[m])'
    BY <1>1, <1>3 DEF DigestInv, Accounted
  <2> QED BY <1>1, <2>1, <2>2, DigestTypes
<1> QED BY <1>1, <1>2, <1>3, <1>4, WorldDigests

\* One that was: the container runs what the head names or a newer digest;
\* the service is owed no more if that is its row's.
LEMMA AppliedDigests ==
    ASSUME TypeOK, OrderOK, DigestInv, Applied PROVE DigestInv'
<1>1. /\ UNCHANGED <<serviceVars, reg, composed, chk, told>>
      /\ queue # <<>> /\ queue' = Tail(queue)
  BY DEF Applied
<1>2. PICK n \in Service, h \in Nat :
        /\ n = Head(queue).name /\ h = Head(queue).dig
        /\ h <= told[n] /\ h <= reg[n] /\ (n \notin composed => runs[n] <= h)
  BY <1>1, HeadSays
<1>3. PICK d \in Nat :
        /\ d = IF n \in composed THEN reg[n] ELSE h
        /\ runs' = [runs EXCEPT ![n] = d]
        /\ ring' = [ring EXCEPT ![n] = IF n \in composed THEN 0 ELSE d]
        /\ owed' = IF rows[n].last = d THEN owed \ {n} ELSE owed
  BY <1>2, DigestTypes DEF Applied
<1>4. /\ reg[n] \in Nat /\ runs[n] \in Nat /\ told[n] \in Nat
      /\ LastOf(rows, n) \in Nat /\ ServiceOrdered(n)
  BY DigestTypes DEF DigestInv, OrdersOK
<1>5. h <= d /\ d <= reg[n] /\ runs[n] <= d /\ (n \notin composed => d <= told[n])
  BY <1>2, <1>3, <1>4 DEF ServiceOrdered
<1>6. /\ runs'[n] = d /\ (ring'[n] = 0 \/ ring'[n] = d)
      /\ \A m \in Service \ {n} : runs'[m] = runs[m] /\ ring'[m] = ring[m]
  BY <1>3 DEF TypeOK
<1>7. QueueOrdered'
  <2>1. \A m \in Service : runs'[m] = runs[m] \/ m \in composed
                           \/ (m = Head(queue).name /\ runs'[m] = Head(queue).dig)
    BY <1>2, <1>3, <1>6
  <2> QED BY <1>1, <2>1, TakenOrdered DEF serviceVars
<1>8. ASSUME NEW m \in Service, NEW v \in Nat,
             v <= LastOf(rows, m) \/ v <= runs[m], Due(m, v)
      PROVE  Due(m, v)'
  <2>1. CASE InQueue(m, v)
    <3>1. InQueue(m, v)' \/ (m = n /\ v <= h)
      BY <1>1, <1>2, <2>1, StillQueued
    <3>2. m = n /\ v <= h => v <= runs'[m]
      BY <1>5, <1>6
    <3> QED BY <3>1, <3>2 DEF Due
  <2>2. CASE v <= runs[m]
    <3>1. v <= runs'[m]
      BY <1>4, <1>5, <1>6, <2>2
    <3> QED BY <3>1 DEF Due
  <2>3. CASE m \in owed
    <3>1. CASE m \in owed'
      BY <3>1 DEF Due
    <3>2. CASE m \notin owed'
      <4>1. m = n /\ rows[n].last = d
        BY <1>3, <2>3, <3>2
      <4>2. rows[n] # NoRow
        BY <1>1, <1>2, HeadSays
      <4>3. v <= d \/ v <= runs[m]
        BY <1>8, <4>1, <4>2 DEF LastOf
      <4>4. v <= runs'[m]
        BY <1>4, <1>5, <1>6, <4>1, <4>3
      <4> QED BY <4>4 DEF Due
    <3> QED BY <3>1, <3>2
  <2> QED BY <1>8, <2>1, <2>2, <2>3 DEF Due
<1>9. ASSUME NEW m \in Service
      PROVE  /\ runs'[m] \in Nat /\ runs[m] <= runs'[m]
             /\ ServiceOrdered(m)' /\ Due(m, ring[m])'
  <2>1. CASE m = n
    <3>1. /\ runs'[m] = d /\ ring'[m] <= runs'[m] /\ d \in Nat
          /\ runs[m] <= runs'[m]
      BY <1>5, <1>6, <2>1
    <3>2. ServiceOrdered(m)'
      BY <1>1, <1>4, <1>5, <2>1, <3>1 DEF ServiceOrdered, LastOf, serviceVars
    <3> QED BY <3>1, <3>2 DEF Due
  <2>2. CASE m # n
    <3>1. /\ runs'[m] = runs[m] /\ ring'[m] = ring[m] /\ runs[m] \in Nat
          /\ ring[m] \in Nat /\ ServiceOrdered(m) /\ Due(m, ring[m])
      BY <1>6, <2>2, DigestTypes DEF DigestInv, OrdersOK, Accounted
    <3>2. ServiceOrdered(m)'
      BY <1>1, <3>1 DEF ServiceOrdered, LastOf, serviceVars
    <3>3. PICK v \in Nat : v = ring[m] /\ v = ring'[m]
      BY <3>1
    <3>4. Due(m, v)'
      <4>1. v <= LastOf(rows, m) \/ v <= runs[m]
        BY <3>1, <3>3 DEF ServiceOrdered
      <4> QED BY <1>8, <3>1, <3>3, <4>1
    <3> QED BY <3>1, <3>2, <3>3, <3>4
  <2> QED BY <2>1, <2>2
<1> QED BY <1>1, <1>7, <1>8, <1>9, WorldDigests

\* A release makes nothing due; an entry of the store that starts has an
\* empty ring.
LEMMA OutsideDigests ==
    ASSUME TypeOK, DigestInv, NEW n \in Service, Release(n) \/ Start(n)
    PROVE  DigestInv'
<1>1. UNCHANGED <<serviceVars, runs, composed, chk, queue, told, owed>>
  BY DEF Release, Start, pollVars
<1>2. QueueOrdered'
  BY <1>1 DEF DigestInv, OrdersOK, QueueOrdered, serviceVars
<1>3. \A m, v : Due(m, v) => Due(m, v)'
  BY <1>1, DueStays
<1>4. ASSUME NEW m \in Service
      PROVE  /\ runs'[m] \in Nat /\ runs[m] <= runs'[m]
             /\ ServiceOrdered(m)' /\ Due(m, ring[m])'
  <2>1. /\ ServiceOrdered(m) /\ reg[m] \in Nat /\ runs[m] \in Nat
        /\ ring[m] \in Nat /\ LastOf(rows, m) \in Nat /\ Due(m, ring[m])
    BY DigestTypes DEF DigestInv, OrdersOK, Accounted
  <2>2. CASE Release(n)
    <3>1. reg'[m] \in Nat /\ reg[m] <= reg'[m] /\ ring'[m] = ring[m]
      BY <2>2, ReleaseGrows DEF Release, pollVars
    <3>2. ServiceOrdered(m)'
      BY <1>1, <2>1, <3>1 DEF ServiceOrdered, LastOf, serviceVars
    <3> QED BY <1>1, <1>3, <2>1, <3>1, <3>2
  <2>3. CASE Start(n)
    <3>1. reg'[m] = reg[m] /\ (ring'[m] = ring[m] \/ ring'[m] = 0)
      BY <2>3 DEF Start, TypeOK
    <3>2. ServiceOrdered(m)'
      BY <1>1, <2>1, <3>1 DEF ServiceOrdered, LastOf, serviceVars
    <3>3. CASE ring'[m] = 0
      BY <1>1, <2>1, <3>2, <3>3 DEF Due
    <3>4. CASE ring'[m] = ring[m]
      BY <1>1, <1>3, <2>1, <3>2, <3>4
    <3> QED BY <3>1, <3>3, <3>4
  <2> QED BY <2>2, <2>3
<1> QED BY <1>1, <1>2, <1>3, <1>4, WorldDigests

\* What a process that ends leaves behind is the table; what was queued or
\* saved and not announced is owed.
LEMMA RestartDigests ==
    ASSUME TypeOK, DigestInv, Restart PROVE DigestInv'
<1>1. /\ UNCHANGED <<rows, told, reg, up, runs, composed>> /\ cache' = rows
      /\ \A s \in Slot : req'[s].pc = "idle"
      /\ \A k \in Check : chk'[k] = NoCheck
      /\ \A n \in Service : ring'[n] = 0
      /\ queue' = <<>>
  BY DEF Restart, LoadServices, NoReq
<1>2. NoCheck.pc = "none"
  BY DEF NoCheck
<1>3. ASSUME NEW m \in Service PROVE LastOf(rows, m) \in Nat /\ runs[m] \in Nat
  BY DigestTypes
<1>4. TablesOld'
  BY <1>1, <1>2, <1>3 DEF TablesOld, Older, LastOf
<1>5. ASSUME NEW m \in Service PROVE ServiceOrdered(m)'
  <2>1. 0 <= runs[m] /\ ServiceOrdered(m)
    BY <1>3 DEF DigestInv, OrdersOK
  <2> QED BY <1>1, <2>1 DEF ServiceOrdered, LastOf
<1>6. \A k \in Check : CheckOrdered(k)'
  BY <1>1, <1>2 DEF CheckOrdered, Running, Knows, CheckPc
<1>7. QueueOrdered' 
  BY <1>1 DEF QueueOrdered
<1>8. Accounted'
  <2>1. ASSUME NEW m \in Service PROVE Due(m, ring[m])'
    BY <1>1, <1>3 DEF Due
  <2>2. ASSUME NEW m \in Service PROVE Pending(m, LastOf(rows, m))'
    <3>1. PICK v : v = LastOf(rows, m) /\ v = LastOf(rows, m)'
      BY <1>1 DEF LastOf
    <3>2. Pending(m, v)
      BY <3>1 DEF DigestInv, Accounted
    <3>3. CASE v <= runs[m]
      BY <1>1, <3>1, <3>3 DEF Pending, Due
    <3>4. CASE m \in owed \/ InQueue(m, v)
      <4>1. PICK q \in Seq([name: Service, dig: Nat]) : q = queue
        BY DEF TypeOK
      <4>2. DOMAIN queue = 1..Len(queue)
        BY <4>1
      <4>3. m \in owed'
        BY <3>4, <4>2 DEF Restart, InQueue
      <4> QED BY <3>1, <4>3 DEF Pending, Due
    <3>5. CASE \E k \in Check : Saved(k) /\ chk[k].name = m
      <4>1. m \in owed'
        BY <3>5 DEF Restart
      <4> QED BY <3>1, <4>1 DEF Pending, Due
    <3> QED BY <3>2, <3>3, <3>4, <3>5 DEF Pending, Due
  <2> QED BY <1>1, <1>2, <2>1, <2>2 DEF Accounted, Running
<1> QED BY <1>4, <1>5, <1>6, <1>7, <1>8 DEF DigestInv, OrdersOK

\* The API: a new row has no digest, an edited one keeps its own, and a map
\* is replaced by what the table was.
LEMMA RequestDigests ==
    ASSUME TypeOK, DigestInv, NEW s \in Slot,
           Handler(s) \/ \E n \in Service : Request(s, n)
    PROVE  DigestInv'
<1>1. /\ UNCHANGED <<reg, runs, composed, told, ring, queue, owed, chk>>
      /\ ServicesStep(s) \/ \E n \in Service : Ask(s, n)
  BY DEF Handler, Request, pollVars, worldVars
<1>2. /\ rows \in Table /\ cache \in Table /\ req \in [Slot -> Req]
      /\ req[s].pc \in {"insert", "update"} => req[s].name \in Service
  BY DEF TypeOK, ServicesTypeOK
<1>3. ASSUME NEW n \in Service
      PROVE  /\ LastOf(rows, n)' = LastOf(rows, n)
             /\ rows[n] # NoRow => rows'[n] # NoRow
  <2>1. CASE rows' = rows
    BY <2>1 DEF LastOf
  <2>2. CASE Insert(s)
    <3>0. PICK r : r = [mode |-> req[s].mode, every |-> req[s].every, last |-> 0]
      OBVIOUS
    <3>1. PICK m \in Service :
            rows' = rows \/ (rows[m] = NoRow /\ rows' = [rows EXCEPT ![m] = r])
      BY <1>2, <2>2, <3>0 DEF Insert
    <3>2. r.last = 0
      BY <3>0
    <3>3. CASE rows[m] = NoRow /\ rows' = [rows EXCEPT ![m] = r] /\ n = m
      BY <1>2, <3>2, <3>3 DEF LastOf, Table
    <3>4. CASE rows' = [rows EXCEPT ![m] = r] /\ n # m
      BY <1>2, <3>4 DEF LastOf, Table
    <3> QED BY <2>1, <3>1, <3>3, <3>4
  <2>3. CASE Update(s)
    <3>1. PICK m \in Service : m = req[s].name
      BY <1>2, <2>3 DEF Update
    <3>2. PICK r : r = [rows[m] EXCEPT !.mode = req[s].mode, !.every = req[s].every]
      OBVIOUS
    <3>3. rows' = IF rows[m] = NoRow THEN rows ELSE [rows EXCEPT ![m] = r]
      BY <2>3, <3>1, <3>2 DEF Update
    <3>4. CASE rows[m] # NoRow /\ n = m
      <4>1. rows[m] \in Row
        BY <1>2, <3>4 DEF Table
      <4>2. r.last = rows[m].last /\ r # NoRow
        <5>1. req[s] \in Req /\ req[s].every \in Every
          BY <2>3 DEF Update, TypeOK, ServicesTypeOK
        <5>2. r \in Row /\ r.last = rows[m].last
          BY <3>2, <4>1, <5>1 DEF Row, Req
        <5> QED BY <5>2, ServicesAssumption
      <4> QED BY <1>2, <3>3, <3>4, <4>2 DEF LastOf, Table
    <3>5. CASE rows[m] # NoRow /\ n # m
      BY <1>2, <3>3, <3>5 DEF LastOf, Table
    <3> QED BY <2>1, <3>3, <3>4, <3>5
  <2> QED BY <1>1, <2>1, <2>2, <2>3 DEF ServicesStep, Ask, CreateBegin,
          PatchBegin, ReqQuery, ReqSwap
<1>4. ASSUME NEW t \in Table, Older(t), NEW n \in Service
      PROVE  /\ t[n] # NoRow => rows'[n] # NoRow
             /\ LastOf(t, n) <= LastOf(rows, n)'
  BY <1>3, <1>4 DEF Older
<1>5. Older(rows)
  <2>1. ASSUME NEW n \in Service PROVE LastOf(rows, n) <= LastOf(rows, n)
    <3>1. LastOf(rows, n) \in Nat
      BY DigestTypes
    <3> QED BY <3>1
  <2> QED BY <2>1 DEF Older
<1>6. UNCHANGED <<rows, cache>> \/ (ReqSwap(s) /\ UNCHANGED rows)
        \/ ((Insert(s) \/ Update(s)) /\ UNCHANGED cache)
  BY <1>1 DEF ServicesStep, Ask, CreateBegin, PatchBegin, ReqQuery, ReqSwap,
     Insert, Update
<1>7. /\ \A j \in Slot \ {s} : req'[j] = req[j]
      /\ req'[s].pc = "swap" => req'[s].snap = rows
  <2>1. CASE ReqQuery(s)
    BY <1>2, <2>1 DEF ReqQuery
  <2>2. CASE Insert(s) \/ Update(s) \/ ReqSwap(s)
    <3>1. req' = [req EXCEPT ![s] = [req[s] EXCEPT !.pc = "query"]]
            \/ req' = [req EXCEPT ![s] = NoReq]
      BY <2>2 DEF Insert, Update, ReqSwap
    <3>2. NoReq.pc = "idle" /\ [req[s] EXCEPT !.pc = "query"].pc = "query"
      BY <1>2 DEF NoReq, Req
    <3> QED BY <1>2, <3>1, <3>2
  <2>3. CASE \E n \in Service : Ask(s, n)
    <3>r. ASSUME NEW l \in {"insert", "update"}, NEW n, NEW mode, NEW every,
                 req' = [req EXCEPT ![s] = [NoReq EXCEPT !.pc = l, !.name = n,
                                            !.mode = mode, !.every = every]]
          PROVE  /\ \A j \in Slot \ {s} : req'[j] = req[j]
                 /\ req'[s].pc # "swap"
      <4>1. PICK r : r = [NoReq EXCEPT !.pc = l, !.name = n, !.mode = mode,
                                       !.every = every]
        OBVIOUS
      <4>2. r.pc = l
        BY <4>1 DEF NoReq
      <4> QED BY <1>2, <3>r, <4>1, <4>2
    <3>1. ASSUME NEW n, NEW mode, NEW every, CreateBegin(s, n, mode, every)
          PROVE  /\ \A j \in Slot \ {s} : req'[j] = req[j]
                 /\ req'[s].pc # "swap"
      BY <3>1, <3>r DEF CreateBegin
    <3>2. ASSUME NEW n, NEW ms, NEW es, PatchBegin(s, n, ms, es)
          PROVE  /\ \A j \in Slot \ {s} : req'[j] = req[j]
                 /\ req'[s].pc # "swap"
      <4>1. PICK mode \in IF ms = {} THEN {cache[n].mode} ELSE ms,
                 every \in IF es = {} THEN {cache[n].every} ELSE es :
              req' = [req EXCEPT ![s] = [NoReq EXCEPT !.pc = "update", !.name = n,
                                         !.mode = mode, !.every = every]]
        BY <3>2 DEF PatchBegin
      <4> QED BY <3>r, <4>1
    <3> QED BY <2>3, <3>1, <3>2 DEF Ask
  <2> QED BY <1>1, <2>1, <2>2, <2>3 DEF ServicesStep
<1>8. TablesOld'
  <2>1. Older(cache)'
    <3>1. PICK t \in Table : t = cache' /\ Older(t)
      BY <1>2, <1>6 DEF DigestInv, OrdersOK, TablesOld, ReqSwap, Reloaded, TypeOK,
         ServicesTypeOK
    <3> QED BY <1>4, <3>1 DEF Older, LastOf
  <2>2. ASSUME NEW j \in Slot, req'[j].pc = "swap" PROVE Older(req[j].snap)'
    <3>1. PICK t \in Table : t = req'[j].snap /\ Older(t)
      <4>1. CASE j = s
        BY <1>2, <1>5, <1>7, <2>2, <4>1
      <4>2. CASE j # s
        BY <1>7, <2>2, <4>2 DEF DigestInv, OrdersOK, TablesOld, TypeOK, ServicesTypeOK
      <4> QED BY <4>1, <4>2
    <3> QED BY <1>4, <3>1 DEF Older, LastOf
  <2>3. ASSUME NEW k \in Check, chk'[k].pc = "swap" PROVE Older(chk[k].snap)'
    <3>1. PICK t \in Table : t = chk'[k].snap /\ Older(t)
      BY <1>1, <2>3 DEF DigestInv, OrdersOK, TablesOld, TypeOK
    <3> QED BY <1>4, <3>1 DEF Older, LastOf
  <2> QED BY <2>1, <2>2, <2>3 DEF TablesOld
<1> QED BY <1>1, <1>3, <1>8, RowsKept

LEMMA DigestInit == Init => DigestInv
<1> SUFFICES ASSUME Init PROVE DigestInv
  OBVIOUS
<1>1. /\ cache = rows /\ queue = <<>> /\ owed = {}
      /\ \A s \in Slot : req[s].pc = "idle"
      /\ \A k \in Check : chk[k].pc = "none"
      /\ \A n \in Service :
            reg[n] = 1 /\ runs[n] = 1 /\ ring[n] = 0 /\ told[n] = 0
  BY DEF Init, NoReq, NoCheck
<1>2. ASSUME NEW n \in Service
      PROVE  LastOf(rows, n) \in Nat /\ LastOf(rows, n) <= 1
  <2>1. CASE rows[n] = NoRow
    BY <2>1 DEF LastOf
  <2>2. CASE rows[n] # NoRow
    <3>1. rows[n].last \in {0, 1}
      BY <2>2 DEF Init
    <3> QED BY <2>2, <3>1 DEF LastOf
  <2> QED BY <2>1, <2>2
<1>3. TablesOld
  BY <1>1, <1>2 DEF TablesOld, Older
<1>4. ASSUME NEW n \in Service PROVE ServiceOrdered(n)
  <2>1. /\ reg[n] = 1 /\ runs[n] = 1 /\ ring[n] = 0 /\ told[n] = 0
        /\ LastOf(rows, n) \in Nat /\ LastOf(rows, n) <= 1
    BY <1>1, <1>2
  <2> QED BY <2>1 DEF ServiceOrdered
<1>5. \A k \in Check : CheckOrdered(k)
  BY <1>1 DEF CheckOrdered, Running, Knows, CheckPc
<1>6. QueueOrdered
  BY <1>1 DEF QueueOrdered
<1>7. Accounted
  BY <1>1, <1>2 DEF Accounted, Pending, Due, Running
<1> QED BY <1>3, <1>4, <1>5, <1>6, <1>7 DEF DigestInv, OrdersOK

LEMMA DigestNext ==
    ASSUME TypeOK, OrderOK, Prompt, DigestInv, [Next]_vars PROVE DigestInv'
<1>1. ASSUME NEW n \in Service, NEW k \in Check, Dispatch(n, k) PROVE DigestInv'
  BY <1>1, DispatchDigests
<1>2. ASSUME NEW k \in Check, CheckStep(k) PROVE DigestInv'
  BY <1>2, CheckDigests, SaveDigests, ActDigests DEF CheckStep
<1>3. ASSUME NEW s \in Slot, Handler(s) PROVE DigestInv'
  BY <1>3, RequestDigests
<1>4. CASE Applied
  BY <1>4, AppliedDigests
<1>5. CASE NotApplied
  BY <1>5, NotAppliedDigests
<1>6. CASE Tick \/ UNCHANGED vars
  BY <1>6, FrameDigests
<1>7. CASE Environment
  <2>1. ASSUME NEW n \in Service, Release(n) \/ Stop(n) \/ Start(n) PROVE DigestInv'
    BY <2>1, OutsideDigests, FrameDigests
  <2>2. ASSUME NEW k \in Check, RequestFails(k) \/ SaveFails(k) PROVE DigestInv'
    BY <2>2, CheckDigests
  <2>3. ASSUME NEW s \in Slot, NEW n \in Service, Request(s, n) PROVE DigestInv'
    BY <2>3, RequestDigests
  <2>4. CASE Restart
    BY <2>4, RestartDigests
  <2> QED BY <1>7, <2>1, <2>2, <2>3, <2>4 DEF Environment
<1> QED BY <1>1, <1>2, <1>3, <1>4, <1>5, <1>6, <1>7 DEF Next

\* With checks that end before their service is due again, a check that finds
\* its own digest in use, with nothing queued, is right, or an earlier update
\* of the service was lost or failed: compareAndPublish never takes what the
\* same check has saved for what the container runs.
THEOREM QuietUnlessOwedHolds ==
    ASSUME Prompt PROVE Spec => []QuietUnlessOwed
<1>1. Init => TypeOK /\ OrderOK /\ DigestInv
  BY TypeInit, OrderInit, DigestInit
<1>2. TypeOK /\ OrderOK /\ DigestInv /\ [Next]_vars =>
        TypeOK' /\ OrderOK' /\ DigestInv'
  BY TypeNext, Steps, DigestNext
<1>3. TypeOK /\ DigestInv => QuietUnlessOwed
  <2> SUFFICES ASSUME TypeOK, DigestInv, NEW k \in Check, Quiet(k)
               PROVE  runs[chk[k].name] >= chk[k].dig \/ chk[k].name \in owed
    BY DEF QuietUnlessOwed
  <2>1. In(k, "act") /\ chk[k].dig = chk[k].cur /\ queue = <<>>
    BY DEF Quiet
  <2>2. Due(chk[k].name, chk[k].cur) /\ 1..Len(queue) = {}
    BY <2>1 DEF DigestInv, Accounted
  <2>3. runs[chk[k].name] \in Nat /\ chk[k].dig \in Nat
    BY <2>1, DigestTypes DEF Running
  <2> QED BY <2>1, <2>2, <2>3 DEF Due, InQueue
<1> QED BY <1>1, <1>2, <1>3, PTL DEF Spec
=============================================================================
