------------------------------- MODULE Polling -------------------------------
(***************************************************************************)
(* The per-service half of internal/poller over internal/serviceconfig and *)
(* internal/registry: a goroutine per due service asks the registry, saves *)
(* the answer, reloads the services and announces the digest if it is not  *)
(* the container's.  Time is in units of what one HTTP request may take,   *)
(* divided by Timeout; DB calls are counted to the last request.           *)
(***************************************************************************)
EXTENDS Services, Sequences

CONSTANTS
    Check,      \* bound: checkService goroutines at a time
    Registry,   \* "open", "hub", "basic" or "bearer": how it authenticates
    Timeout,    \* http.Client's timeout, 15 s
    QueueCap,   \* the executor's buffer, 64 in the code
    Outside,    \* which outside events a run allows
    Limit       \* bound: how many of them

VARIABLES
    chk,      \* the checkService goroutines
    since,    \* time since Poller.lastCheck, up to Longest
    reg,      \* the registry's digest of each service, numbered by release
    up,       \* whether the service's container is in the store
    runs,     \* the digest the container runs
    composed, \* services whose label hands the update to docker compose
    ring,     \* CurrentDigest of its entry in the store, 0 for ""
    queue,    \* image.updated events for the executor
    told,     \* ghost: the digest last announced, or found in use
    owed,     \* ghost: services with a digest saved, its update not applied
    spent     \* outside events so far

pollVars == <<chk, since, ring, queue, told, owed>>
worldVars == <<reg, up, runs, composed, spent>>
vars == <<serviceVars, pollVars, worldVars>>

Longest == CHOOSE e \in Every : \A f \in Every : f <= e

ASSUME PollingAssumption ==
    /\ Timeout \in Nat \ {0} /\ QueueCap \in Nat \ {0} /\ Limit \in Nat
    /\ Registry \in {"open", "hub", "basic", "bearer"}
    /\ Longest \in Every /\ \A e \in Every : e <= Longest

\* HTTP requests of one HeadDigest: Docker Hub's token and the HEAD, or a
\* HEAD, a token if the challenge wants one, and the HEAD again.
Requests == CASE Registry = "open" -> 1
              [] Registry = "hub" -> 2
              [] Registry = "basic" -> 2
              [] Registry = "bearer" -> 3

NoCheck == [pc |-> "none", name |-> NoRow, last |-> 0, left |-> 0, wait |-> 0,
            dig |-> 0, cur |-> 0, snap |-> NoRow]

CheckPc == {"asking", "answered", "save", "query", "swap", "read", "act"}

Chk == [pc: CheckPc \cup {"none"}, name: Service \cup {NoRow}, last: Nat,
        left: Nat, wait: 0..Timeout, dig: Nat, cur: Nat,
        snap: Table \cup {NoRow}]

TypeOK ==
    /\ ServicesTypeOK
    /\ chk \in [Check -> Chk]
    /\ \A k \in Check :
         /\ chk[k].pc # "none" => chk[k].name \in Service
         /\ chk[k].pc = "swap" => chk[k].snap \in Table
    /\ since \in [Service -> 0..Longest]
    /\ reg \in [Service -> Nat] /\ up \in [Service -> BOOLEAN]
    /\ composed \subseteq Service
    /\ runs \in [Service -> Nat] /\ ring \in [Service -> Nat]
    /\ queue \in Seq([name: Service, dig: Nat]) /\ Len(queue) <= QueueCap
    /\ told \in [Service -> Nat] /\ owed \subseteq Service
    /\ spent \in 0..Limit

\* The process starts with containers that run the registry's digest; a
\* service was registered before and polled, or not polled, or is not known.
Init ==
    /\ rows \in [Service -> {NoRow} \cup
                   [mode: Mode, every: Every, last: {0, 1}]]
    /\ cache = rows /\ req = [s \in Slot |-> NoReq]
    /\ chk = [k \in Check |-> NoCheck]
    /\ since = [n \in Service |-> Longest]
    /\ reg = [n \in Service |-> 1] /\ runs = reg
    /\ composed \in SUBSET Service
    /\ up = [n \in Service |-> TRUE] /\ ring = [n \in Service |-> 0]
    /\ queue = <<>> /\ told = [n \in Service |-> 0]
    /\ owed = {} /\ spent = 0

-----------------------------------------------------------------------------
(* The poller.                                                             *)

SetChk(k, c) == chk' = [chk EXCEPT ![k] = c]
In(k, l) == chk[k].pc = l
Polled(n) == cache[n] # NoRow /\ cache[n].mode = "poll"

\* Variant with a bug: lastCheck is not set.
DispatchForgets(n, k) ==
    /\ Polled(n) /\ since[n] >= cache[n].every
    /\ In(k, "none")
    /\ SetChk(k, [NoCheck EXCEPT !.pc = "asking", !.name = n,
                                 !.last = cache[n].last, !.left = Requests])
    /\ UNCHANGED <<serviceVars, worldVars, since, ring, queue, told, owed>>

\* One service of dispatch.  The 10-second ticker may make it later, never
\* earlier; the goroutine keeps the row as the map has it now.
Dispatch(n, k) ==
    /\ Polled(n) /\ since[n] >= cache[n].every
    /\ In(k, "none")
    /\ since' = [since EXCEPT ![n] = 0]
    /\ SetChk(k, [NoCheck EXCEPT !.pc = "asking", !.name = n,
                                 !.last = cache[n].last, !.left = Requests])
    /\ UNCHANGED <<serviceVars, worldVars, ring, queue, told, owed>>

\* A token, or a challenge, came: the next request has its own timeout.
NextRequest(k) ==
    /\ In(k, "asking") /\ chk[k].left > 1
    /\ SetChk(k, [chk[k] EXCEPT !.left = @ - 1, !.wait = 0])
    /\ UNCHANGED <<serviceVars, worldVars, since, ring, queue, told, owed>>

\* The registry looks the tag up for the last HEAD; its answer is on its way.
Served(k) ==
    /\ In(k, "asking") /\ chk[k].left = 1
    /\ SetChk(k, [chk[k] EXCEPT !.pc = "answered", !.dig = reg[chk[k].name]])
    /\ UNCHANGED <<serviceVars, worldVars, since, ring, queue, told, owed>>

Arrives(k) ==
    /\ In(k, "answered")
    /\ SetChk(k, [chk[k] EXCEPT !.pc = "save"])
    /\ UNCHANGED <<serviceVars, worldVars, since, ring, queue, told, owed>>

\* UpdateDigest: the statement, the query and the swap of the reload.
SaveDigest(k) ==
    /\ In(k, "save")
    /\ DigestSaved(chk[k].name, chk[k].dig)
    /\ SetChk(k, [chk[k] EXCEPT !.pc = "query"])
    /\ UNCHANGED <<cache, req, worldVars, since, ring, queue, told, owed>>

ChkQuery(k) ==
    /\ In(k, "query")
    /\ SetChk(k, [chk[k] EXCEPT !.pc = "swap", !.snap = rows])
    /\ UNCHANGED <<serviceVars, worldVars, since, ring, queue, told, owed>>

ChkSwap(k) ==
    /\ In(k, "swap")
    /\ cache' = Reloaded(chk[k].snap)
    /\ SetChk(k, [chk[k] EXCEPT !.pc = "read", !.snap = NoRow])
    /\ UNCHANGED <<rows, req, worldVars, since, ring, queue, told, owed>>

\* Variant with a bug: the row is read again after it has been saved.
CompareReadAfresh(k) ==
    /\ In(k, "read")
    /\ LET c == chk[k]
       IN  IF ~up[c.name] THEN SetChk(k, NoCheck) /\ owed' = owed \cup {c.name}
           ELSE /\ SetChk(k, [c EXCEPT !.pc = "act",
                                       !.cur = IF ring[c.name] # 0
                                               THEN ring[c.name]
                                               ELSE cache[c.name].last])
                /\ UNCHANGED owed
    /\ UNCHANGED <<serviceVars, worldVars, since, ring, queue, told>>

\* GetByName; CurrentDigest, or the digest of the row the goroutine was
\* started with when the ring is empty.
CompareRead(k) ==
    /\ In(k, "read")
    /\ LET c == chk[k]
       IN  \/ /\ ~up[c.name] /\ SetChk(k, NoCheck)
              /\ owed' = owed \cup {c.name}
           \/ /\ up[c.name] /\ ring[c.name] # 0
              /\ SetChk(k, [c EXCEPT !.pc = "act", !.cur = ring[c.name]])
              /\ UNCHANGED owed
           \/ /\ up[c.name] /\ ring[c.name] = 0
              /\ SetChk(k, [c EXCEPT !.pc = "act", !.cur = c.last])
              /\ UNCHANGED owed
    /\ UNCHANGED <<serviceVars, worldVars, since, ring, queue, told>>

\* Variant with a bug: the buffer has no end.
AnnouncedUnbounded(n, d) == Append(queue, [name |-> n, dig |-> d])

Announced(n, d) ==
    IF Len(queue) < QueueCap THEN Append(queue, [name |-> n, dig |-> d])
    ELSE queue

\* Seeds an empty ring with the row's digest, then publishes what differs.
CompareAct(k) ==
    /\ In(k, "act")
    /\ LET c == chk[k]
           n == c.name
       IN  /\ ring' = IF ring[n] = 0 THEN [ring EXCEPT ![n] = c.cur] ELSE ring
           /\ IF c.dig = c.cur
              THEN /\ told' = IF c.dig > told[n] THEN [told EXCEPT ![n] = c.dig]
                              ELSE told
                   /\ UNCHANGED <<queue, owed>>
              ELSE /\ queue' = Announced(n, c.dig)
                   /\ told' = [told EXCEPT ![n] = c.dig]
                   /\ owed' = IF queue' = queue THEN owed \cup {n} ELSE owed
    /\ SetChk(k, NoCheck)
    /\ UNCHANGED <<serviceVars, worldVars, since>>

-----------------------------------------------------------------------------
(* The executor, as far as the poller sees it.                             *)

\* An update is applied: directly, to the digest it names, under the same
\* entry of the store; or by compose, to the tag's newest, as a new entry.
Applied ==
    /\ queue # <<>>
    /\ LET n == Head(queue).name
           d == IF n \in composed THEN reg[n] ELSE Head(queue).dig
       IN  /\ up[n]
           /\ runs' = [runs EXCEPT ![n] = d]
           /\ ring' = [ring EXCEPT ![n] = IF n \in composed THEN 0 ELSE d]
           /\ owed' = IF rows[n].last = d THEN owed \ {n} ELSE owed
    /\ queue' = Tail(queue)
    /\ UNCHANGED <<serviceVars, chk, since, told, reg, up, composed, spent>>

\* Held back by its label, refused, or failed.
NotApplied ==
    /\ queue # <<>>
    /\ owed' = owed \cup {Head(queue).name}
    /\ queue' = Tail(queue)
    /\ UNCHANGED <<serviceVars, worldVars, chk, since, ring, told>>

-----------------------------------------------------------------------------
(* The world.                                                              *)

\* No request is older than its timeout.
Tick ==
    /\ \A k \in Check : ~In(k, "none") => chk[k].wait < Timeout
    /\ since' = [n \in Service |-> IF since[n] < Longest THEN since[n] + 1
                                   ELSE Longest]
    /\ chk' = [k \in Check |-> IF In(k, "none") THEN NoCheck
                               ELSE [chk[k] EXCEPT !.wait = @ + 1]]
    /\ UNCHANGED <<serviceVars, worldVars, ring, queue, told, owed>>

Allowed(e) == e \in Outside /\ spent < Limit /\ spent' = spent + 1

Release(n) ==
    /\ Allowed("release")
    /\ reg' = [reg EXCEPT ![n] = @ + 1]
    /\ UNCHANGED <<serviceVars, pollVars, up, runs, composed>>

\* A request fails or times out, with it the check.
RequestFails(k) ==
    /\ Allowed("outage") /\ chk[k].pc \in {"asking", "answered"}
    /\ SetChk(k, NoCheck)
    /\ UNCHANGED <<serviceVars, since, ring, queue, told, owed, reg, up,
                   runs, composed>>

\* The database is busy: checkService ignores the error.
SaveFails(k) ==
    /\ Allowed("busy") /\ In(k, "save")
    /\ SetChk(k, [chk[k] EXCEPT !.pc = "read"])
    /\ UNCHANGED <<serviceVars, since, ring, queue, told, owed, reg, up,
                   runs, composed>>

\* The container goes; when it is started again its entry is a new one.
Stop(n) ==
    /\ Allowed("stop") /\ up[n]
    /\ up' = [up EXCEPT ![n] = FALSE]
    /\ UNCHANGED <<serviceVars, pollVars, reg, runs, composed>>

Start(n) ==
    /\ ~up[n]
    /\ up' = [up EXCEPT ![n] = TRUE] /\ ring' = [ring EXCEPT ![n] = 0]
    /\ UNCHANGED <<serviceVars, chk, since, queue, told, owed, reg, runs, composed,
                   spent>>

Saved(k) == chk[k].pc \in {"query", "swap", "read", "act"}

\* The process ends and starts again: its memory is the table's.
Restart ==
    /\ Allowed("restart")
    /\ LoadServices /\ UNCHANGED rows
    /\ chk' = [k \in Check |-> NoCheck]
    /\ since' = [n \in Service |-> Longest]
    /\ ring' = [n \in Service |-> 0] /\ queue' = <<>>
    /\ owed' = owed \cup {queue[i].name : i \in DOMAIN queue}
                    \cup {chk[k].name : k \in {j \in Check : Saved(j)}}
    /\ UNCHANGED <<told, reg, up, runs, composed>>

Request(s, n) ==
    /\ Allowed("edit") /\ Ask(s, n)
    /\ UNCHANGED <<pollVars, reg, up, runs, composed>>

Handler(s) == ServicesStep(s) /\ UNCHANGED <<pollVars, worldVars>>

CheckStep(k) ==
    \/ NextRequest(k) \/ Served(k) \/ Arrives(k) \/ SaveDigest(k)
    \/ ChkQuery(k) \/ ChkSwap(k) \/ CompareRead(k) \/ CompareAct(k)

Environment ==
    \/ \E n \in Service : Release(n) \/ Stop(n) \/ Start(n)
    \/ \E k \in Check : RequestFails(k) \/ SaveFails(k)
    \/ \E s \in Slot, n \in Service : Request(s, n)
    \/ Restart

Next ==
    \/ \E n \in Service, k \in Check : Dispatch(n, k)
    \/ \E k \in Check : CheckStep(k)
    \/ \E s \in Slot : Handler(s)
    \/ Applied \/ NotApplied \/ Tick \/ Environment

Spec == Init /\ [][Next]_vars

-----------------------------------------------------------------------------
\* The ticker ticks, goroutines run, a request ends within its timeout; the
\* executor takes what is queued.  Outages and edits are finite.
Fairness ==
    /\ WF_vars(Tick) /\ WF_vars(Applied \/ NotApplied)
    /\ \A n \in Service : WF_vars(\E k \in Check : Dispatch(n, k))
    /\ \A k \in Check : WF_vars(CheckStep(k))
    /\ \A s \in Slot : WF_vars(Handler(s))

FairSpec == Spec /\ Fairness

-----------------------------------------------------------------------------
\* Polling follows the registry: no announcement names an older digest than
\* one before it, and a service polled for good is told of the newest.
F == INSTANCE Follow WITH latest <- reg, told <- told,
                          on <- {n \in Service : Polled(n) /\ up[n]}
Follows == F!Spec

\* A service switched to webhooks for good is no longer asked about in the
\* end, although the map may have been reloaded by others in any order.
WebhookObeyed ==
    \A n \in Service :
        <>[](rows[n] # NoRow /\ rows[n].mode = "webhook")
            => <>[](\A k \in Check : chk[k].name # n)

Quiet(k) == In(k, "act") /\ chk[k].dig = chk[k].cur /\ queue = <<>>

\* A check that finds nothing to do, with no update on its way, has found
\* the container on the digest it was told or a later one (compose takes the
\* tag as it is by then), unless an earlier update of it was lost or failed
\* after its digest had been saved (checkService saves the digest first, and
\* the row stands in for an empty ring).
QuietUnlessOwed ==
    \A k \in Check :
        Quiet(k) /\ up[chk[k].name] =>
            runs[chk[k].name] >= chk[k].dig \/ chk[k].name \in owed

\* compareAndPublish: the fallback on the row "prevents dockwatch from
\* triggering a redundant update"; it stops no other.
QuietIsCurrent ==
    \A k \in Check :
        Quiet(k) /\ up[chk[k].name] => runs[chk[k].name] >= chk[k].dig
=============================================================================
