------------------------------ MODULE Services ------------------------------
(***************************************************************************)
(* internal/serviceconfig and the API handlers that edit it: the services  *)
(* table in the database, the map of it that the process reads, and the    *)
(* requests that change the table and reload the map.  A reload is a query *)
(* and, later, a swap of the whole map: nothing orders two of them.        *)
(***************************************************************************)
EXTENDS Integers

CONSTANTS
    Service,    \* service names
    Slot,       \* bound: request goroutines at a time
    Every,      \* poll intervals the schema accepts, in the clock's units
    NoRow       \* no row of that name

Mode == {"poll", "webhook"}
Row == [mode: Mode, every: Every, last: Nat]      \* last = 0: never polled

ASSUME ServicesAssumption ==
    /\ Every \subseteq Nat \ {0} /\ Every # {}
    /\ NoRow \notin Row

Table == [Service -> Row \cup {NoRow}]

VARIABLES
    rows,    \* the services table
    cache,   \* Manager.services
    req      \* the request goroutines

serviceVars == <<rows, cache, req>>

NoReq == [pc |-> "idle", name |-> NoRow, mode |-> "poll", every |-> 0,
          snap |-> NoRow]

Req == [pc: {"idle", "insert", "update", "query", "swap"},
        name: Service \cup {NoRow}, mode: Mode, every: Every \cup {0},
        snap: Table \cup {NoRow}]

ServicesTypeOK ==
    /\ rows \in Table /\ cache \in Table
    /\ req \in [Slot -> Req]
    /\ \A s \in Slot :
         /\ req[s].pc \in {"insert", "update"} =>
              req[s].name \in Service /\ req[s].every \in Every
         /\ req[s].pc = "swap" => req[s].snap \in Table

Set(s, r) == req' = [req EXCEPT ![s] = r]

-----------------------------------------------------------------------------
(* Manager.                                                                *)

\* Variant with a bug: the map is read but not replaced.
ReloadKeeps(t) == cache

\* Reload's second half: the map is replaced by what the query returned.
Reloaded(t) == t

\* UpdateDigest's statement; an UPDATE of no row changes nothing.
DigestSaved(n, d) ==
    rows' = IF rows[n] = NoRow THEN rows
            ELSE [rows EXCEPT ![n] = [@ EXCEPT !.last = d]]

\* NewManager loads the table before anybody else runs.
LoadServices == cache' = rows /\ req' = [s \in Slot |-> NoReq]

-----------------------------------------------------------------------------
(* The handlers.  What they refuse (an interval below the least, another   *)
(* mode, no name) changes nothing and is left out of the inputs.           *)

\* handleCreateService asks the table, not the map.
CreateBegin(s, n, mode, every) ==
    /\ req[s].pc = "idle"
    /\ Set(s, [NoReq EXCEPT !.pc = "insert", !.name = n, !.mode = mode,
                            !.every = every])
    /\ UNCHANGED <<rows, cache>>

\* CreateConfig: a name that is taken ends in an error without a reload.
Insert(s) ==
    /\ req[s].pc = "insert"
    /\ LET n == req[s].name
       IN  \/ /\ rows[n] = NoRow
              /\ rows' = [rows EXCEPT ![n] = [mode |-> req[s].mode,
                                              every |-> req[s].every,
                                              last |-> 0]]
              /\ Set(s, [req[s] EXCEPT !.pc = "query"])
           \/ rows[n] # NoRow /\ Set(s, NoReq) /\ UNCHANGED rows
    /\ UNCHANGED cache

\* handlePatchServiceConfig: what the request leaves out comes from the map.
PatchBegin(s, n, modes, everys) ==
    /\ req[s].pc = "idle" /\ cache[n] # NoRow
    /\ \E mode \in IF modes = {} THEN {cache[n].mode} ELSE modes,
          every \in IF everys = {} THEN {cache[n].every} ELSE everys :
         Set(s, [NoReq EXCEPT !.pc = "update", !.name = n, !.mode = mode,
                              !.every = every])
    /\ UNCHANGED <<rows, cache>>

\* UpdateConfig's statement.
Update(s) ==
    /\ req[s].pc = "update"
    /\ LET n == req[s].name
       IN  rows' = IF rows[n] = NoRow THEN rows
                   ELSE [rows EXCEPT ![n] = [@ EXCEPT !.mode = req[s].mode,
                                                      !.every = req[s].every]]
    /\ Set(s, [req[s] EXCEPT !.pc = "query"])
    /\ UNCHANGED cache

ReqQuery(s) ==
    /\ req[s].pc = "query"
    /\ Set(s, [req[s] EXCEPT !.pc = "swap", !.snap = rows])
    /\ UNCHANGED <<rows, cache>>

\* The answer, 201 or 204, follows.
ReqSwap(s) ==
    /\ req[s].pc = "swap"
    /\ cache' = Reloaded(req[s].snap)
    /\ Set(s, NoReq)
    /\ UNCHANGED rows

ServicesStep(s) ==
    Insert(s) \/ Update(s) \/ ReqQuery(s) \/ ReqSwap(s)

Ask(s, n) ==
    \/ \E mode \in Mode, every \in Every :
         \/ CreateBegin(s, n, mode, every)
         \/ PatchBegin(s, n, {mode}, {every})
    \/ \E mode \in Mode : PatchBegin(s, n, {mode}, {})
    \/ \E every \in Every : PatchBegin(s, n, {}, {every})
=============================================================================
