----------------------------- MODULE Lifecycle ------------------------------
(***************************************************************************)
(* What the pipeline promises of the services on a host, whatever happens  *)
(* inside it: it lets alone what is not its to watch, brings up what was   *)
(* offered for that very service and nothing else, never two versions at   *)
(* a time, and what it has taken down comes up again or is known as lost.  *)
(***************************************************************************)
CONSTANTS
    Name,      \* the services
    Digest,    \* versions of their images
    Down,      \* what a service runs that does not run
    Watched    \* services whose labels let the pipeline act

VARIABLES
    offered,   \* the versions that were ever released or reported for each
    serving,   \* the version that each service runs
    lost       \* services that are down and that nobody will bring back

lifeVars == <<offered, serving, lost>>

\* Somebody releases versions, or reports one.
Offer ==
    /\ offered' \in [Name -> SUBSET Digest]
    /\ \A n \in Name : offered[n] \subseteq offered'[n]
    /\ UNCHANGED <<serving, lost>>

\* The pipeline takes a service down to bring it up again.
Stop(n) ==
    /\ n \in Watched /\ serving[n] # Down
    /\ serving' = [serving EXCEPT ![n] = Down]
    /\ UNCHANGED <<offered, lost>>

\* The pipeline, or a person, brings it up, and only when it is down.
Up(n, d) ==
    /\ serving[n] = Down /\ d \in offered[n]
    /\ serving' = [serving EXCEPT ![n] = d]
    /\ lost' = lost \ {n}
    /\ UNCHANGED offered

\* A failure, or the end of the process, while services are down.
Lose(N) ==
    /\ \A n \in N : serving[n] = Down
    /\ lost' = lost \cup N
    /\ UNCHANGED <<offered, serving>>

\* A person takes a service down.
Take(n) ==
    /\ serving' = [serving EXCEPT ![n] = Down]
    /\ lost' = lost \cup {n}
    /\ UNCHANGED offered

Init ==
    /\ offered \in [Name -> SUBSET Digest]
    /\ serving \in [Name -> Digest] /\ \A n \in Name : serving[n] \in offered[n]
    /\ lost = {}

Next ==
    \/ Offer
    \/ \E n \in Name : Stop(n) \/ Take(n) \/ \E d \in Digest : Up(n, d)
    \/ \E N \in SUBSET Name : Lose(N)

\* What is down and not given up is brought up, unless it is lost on the way.
Resolve(n) ==
    /\ serving[n] = Down /\ n \notin lost
    /\ Take(n) \/ \E d \in Digest : Up(n, d)

Spec ==
    /\ Init /\ [][Next]_lifeVars
    /\ \A n \in Name : WF_lifeVars(Resolve(n))
=============================================================================
