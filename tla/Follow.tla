------------------------------- MODULE Follow -------------------------------
(***************************************************************************)
(* What polling promises: of every service it follows it tells the rest of *)
(* the system which digest the registry has, never an older one than it    *)
(* told before, and in the end the newest.                                 *)
(***************************************************************************)
EXTENDS Integers

CONSTANT Service

VARIABLES
    latest,   \* the newest digest of each service, numbered by release
    told,     \* the digest last announced, or found to be in use already
    on        \* the services that are polled

Released ==
    /\ latest' \in [Service -> Nat]
    /\ \A n \in Service : latest'[n] >= latest[n]
    /\ UNCHANGED told

\* Telling may lag behind, never lead or return.
Tell(n) ==
    /\ told[n] < latest[n]
    /\ \E d \in told[n] + 1..latest[n] : told' = [told EXCEPT ![n] = d]
    /\ UNCHANGED latest

Init ==
    /\ latest \in [Service -> Nat] /\ told \in [Service -> Nat]
    /\ \A n \in Service : told[n] <= latest[n]

Next == Released \/ \E n \in Service : Tell(n)

Spec ==
    /\ Init /\ [][Next]_<<latest, told>>
    /\ \A n \in Service : WF_<<latest, told>>(n \in on /\ Tell(n))
=============================================================================
