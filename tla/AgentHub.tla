------------------------------ MODULE AgentHub ------------------------------
(***************************************************************************)
(* internal/agentserver and the loop of cmd/agent: agents keep one         *)
(* WebSocket session to the controller, which knows them by hostname and   *)
(* hands them commands through a buffered channel per session.  The two    *)
(* sides of a connection learn of its end at different times.              *)
(***************************************************************************)
EXTENDS Integers, Sequences

CONSTANTS
    Host,       \* agents, one per hostname
    Trusted,    \* those that have the controller's token
    SendCap,    \* AgentConn.send's buffer, 32 in the code
    MaxSess,    \* bound: sessions ever opened
    MaxCmd      \* bound: commands ever dispatched

ASSUME AgentHubAssumption ==
    /\ Trusted \subseteq Host
    /\ SendCap \in Nat \ {0} /\ MaxSess \in Nat \ {0} /\ MaxCmd \in Nat \ {0}

Sess == 1..MaxSess
Cmd == 1..MaxCmd
None == 0                         \* no session, a nil *AgentConn

VARIABLES
    phase,   \* ServeHTTP of each session
    host,    \* the hostname a session registers
    net,     \* "up", or "cut" at a time neither side chose
    writer,  \* whether the session's writeLoop runs
    send,    \* the session's channel
    wire,    \* commands written and not read yet
    agents,  \* Server.agents
    at,      \* the session each agent is in, None while it backs off
    call,    \* the Dispatch calls
    ran      \* how often a command was started, by host

sessVars == <<phase, host, net, writer, send, wire>>
vars == <<sessVars, agents, at, call, ran>>

NewCall == [pc |-> "new", host |-> None, to |-> None]

Phase == {"unused", "accepted", "live", "ended", "over"}

TypeOK ==
    /\ phase \in [Sess -> Phase]
    /\ host \in [Sess -> Host \cup {None}]
    /\ \A s \in Sess : phase[s] # "unused" => host[s] \in Host
    /\ net \in [Sess -> {"up", "cut"}]
    /\ writer \in [Sess -> BOOLEAN]
    /\ send \in [Sess -> Seq(Cmd)] /\ wire \in [Sess -> Seq(Cmd)]
    /\ \A s \in Sess : Len(send[s]) <= SendCap
    /\ agents \in [Host -> Sess \cup {None}]
    /\ at \in [Host -> Sess \cup {None}]
    /\ call \in [Cmd -> [pc: {"new", "found", "sent", "refused"},
                         host: Host \cup {None}, to: Sess \cup {None}]]
    /\ ran \in [Cmd -> [Host -> Nat]]

Init ==
    /\ phase = [s \in Sess |-> "unused"] /\ host = [s \in Sess |-> None]
    /\ net = [s \in Sess |-> "up"] /\ writer = [s \in Sess |-> FALSE]
    /\ send = [s \in Sess |-> <<>>] /\ wire = [s \in Sess |-> <<>>]
    /\ agents = [h \in Host |-> None] /\ at = [h \in Host |-> None]
    /\ call = [c \in Cmd |-> NewCall]
    /\ ran = [c \in Cmd |-> [h \in Host |-> 0]]

-----------------------------------------------------------------------------
(* The connection and the agent.                                           *)

NextSess(s) == phase[s] = "unused" /\ \A t \in Sess : t < s => phase[t] # "unused"

\* runSession dials and writes its register message; Accept upgrades.
Dial(h, s) ==
    /\ at[h] = None /\ NextSess(s)
    /\ phase' = [phase EXCEPT ![s] = "accepted"]
    /\ host' = [host EXCEPT ![s] = h]
    /\ at' = [at EXCEPT ![h] = s]
    /\ UNCHANGED <<net, writer, send, wire, agents, call, ran>>

\* The network fails under a session.
Cut(s) ==
    /\ phase[s] # "unused" /\ net[s] = "up"
    /\ net' = [net EXCEPT ![s] = "cut"]
    /\ UNCHANGED <<phase, host, writer, send, wire, agents, at, call, ran>>

\* The agent's read fails, or the controller closed: reconnect after a wait.
AgentLeaves(h) ==
    /\ at[h] # None /\ net[at[h]] = "cut"
    /\ at' = [at EXCEPT ![h] = None]
    /\ UNCHANGED <<sessVars, agents, call, ran>>

\* The agent reads a command and runs it in a goroutine of its own.
Receive(h) ==
    /\ at[h] # None /\ wire[at[h]] # <<>>
    /\ LET c == Head(wire[at[h]])
       IN  ran' = [ran EXCEPT ![c][h] = @ + 1]
    /\ wire' = [wire EXCEPT ![at[h]] = Tail(@)]
    /\ UNCHANGED <<phase, host, net, writer, send, agents, at, call>>

-----------------------------------------------------------------------------
(* ServeHTTP.                                                              *)

\* No register message, or the wrong token: the session ends unregistered.
Refuse(s) ==
    /\ phase[s] = "accepted"
    /\ net[s] = "cut" \/ host[s] \notin Trusted
    /\ phase' = [phase EXCEPT ![s] = "over"]
    /\ net' = [net EXCEPT ![s] = "cut"]
    /\ UNCHANGED <<host, writer, send, wire, agents, at, call, ran>>

\* Variant with a bug: nobody starts writeLoop.
RegisterNoWriter(s) ==
    /\ phase[s] = "accepted" /\ host[s] \in Trusted
    /\ phase' = [phase EXCEPT ![s] = "live"]
    /\ agents' = [agents EXCEPT ![host[s]] = s]
    /\ UNCHANGED <<host, net, writer, send, wire, at, call, ran>>

\* register, go writeLoop, readLoop.  The message may be read off a
\* connection that is cut already.
Register(s) ==
    /\ phase[s] = "accepted" /\ host[s] \in Trusted
    /\ phase' = [phase EXCEPT ![s] = "live"]
    /\ agents' = [agents EXCEPT ![host[s]] = s]
    /\ writer' = [writer EXCEPT ![s] = TRUE]
    /\ UNCHANGED <<host, net, send, wire, at, call, ran>>

\* readLoop returns on an error.
ReadFails(s) ==
    /\ phase[s] = "live" /\ net[s] = "cut"
    /\ phase' = [phase EXCEPT ![s] = "ended"]
    /\ UNCHANGED <<host, net, writer, send, wire, agents, at, call, ran>>

\* Variant with a bug: nobody takes the entry out.
UnregisterForgotten(s) ==
    /\ phase[s] = "ended"
    /\ phase' = [phase EXCEPT ![s] = "over"]
    /\ UNCHANGED <<host, net, writer, send, wire, agents, at, call, ran>>

\* The deferred unregister, by hostname; then the request's context ends.
Unregister(s) ==
    /\ phase[s] = "ended"
    /\ phase' = [phase EXCEPT ![s] = "over"]
    /\ agents' = [agents EXCEPT ![host[s]] = None]
    /\ UNCHANGED <<host, net, writer, send, wire, at, call, ran>>

\* writeLoop takes a command; on a cut connection the write is lost, and the
\* loop ends when the write says so.
Write(s) ==
    /\ writer[s] /\ send[s] # <<>>
    /\ IF net[s] = "up"
       THEN wire' = [wire EXCEPT ![s] = Append(@, Head(send[s]))] /\ UNCHANGED writer
       ELSE writer' \in {writer, [writer EXCEPT ![s] = FALSE]} /\ UNCHANGED wire
    /\ send' = [send EXCEPT ![s] = Tail(@)]
    /\ UNCHANGED <<phase, host, net, agents, at, call, ran>>

\* writeLoop ends with the context.
WriterStops(s) ==
    /\ writer[s] /\ phase[s] = "over"
    /\ writer' = [writer EXCEPT ![s] = FALSE]
    /\ UNCHANGED <<phase, host, net, send, wire, agents, at, call, ran>>

-----------------------------------------------------------------------------
(* Dispatch: the look-up under the lock, then the send without it.         *)

NextCmd(c) == call[c].pc = "new" /\ \A d \in Cmd : d < c => call[d].pc # "new"

Lookup(c, h) ==
    /\ NextCmd(c)
    /\ call' = [call EXCEPT ![c] =
                  [pc |-> IF agents[h] = None THEN "refused" ELSE "found",
                   host |-> h, to |-> agents[h]]]
    /\ UNCHANGED <<sessVars, agents, at, ran>>

\* Variant with a bug: the buffer's room is not looked at.
PutAnyway(c) ==
    /\ call[c].pc = "found"
    /\ send' = [send EXCEPT ![call[c].to] = Append(@, c)]
    /\ call' = [call EXCEPT ![c].pc = "sent"]
    /\ UNCHANGED <<phase, host, net, writer, wire, agents, at, ran>>

\* Variant with a bug: the agent is looked up again after the send.
PutThenCheck(c) ==
    /\ call[c].pc = "found"
    /\ Len(send[call[c].to]) < SendCap
    /\ send' = [send EXCEPT ![call[c].to] = Append(@, c)]
    /\ call' = [call EXCEPT ![c].pc = IF agents[call[c].host] = None
                                     THEN "refused" ELSE "sent"]
    /\ UNCHANGED <<phase, host, net, writer, wire, agents, at, ran>>

\* A full buffer is answered as an agent that is not there.
Put(c) ==
    /\ call[c].pc = "found"
    /\ LET s == call[c].to
       IN  IF Len(send[s]) < SendCap
           THEN /\ send' = [send EXCEPT ![s] = Append(@, c)]
                /\ call' = [call EXCEPT ![c].pc = "sent"]
           ELSE /\ UNCHANGED send
                /\ call' = [call EXCEPT ![c].pc = "refused"]
    /\ UNCHANGED <<phase, host, net, writer, wire, agents, at, ran>>

Agent(h) == AgentLeaves(h) \/ Receive(h) \/ \E s \in Sess : Dial(h, s)
Serve(s) == Refuse(s) \/ Register(s) \/ ReadFails(s) \/ Unregister(s)
WriteLoop(s) == Write(s) \/ WriterStops(s)

\* Nothing to do: the bounds are used up and every session is settled.
Rest ==
    /\ \A c \in Cmd : call[c].pc \in {"sent", "refused"}
    /\ \A s \in Sess : phase[s] = "over" /\ ~writer[s]
    /\ UNCHANGED vars

Next ==
    \/ \E h \in Host : Agent(h)
    \/ \E s \in Sess : Serve(s) \/ WriteLoop(s) \/ Cut(s)
    \/ \E c \in Cmd : Put(c) \/ \E h \in Host : Lookup(c, h)
    \/ Rest

Spec == Init /\ [][Next]_vars

\* Both programs run; a cut is noticed by either side in the end.
Fairness ==
    /\ \A h \in Host : WF_vars(Agent(h))
    /\ \A s \in Sess : WF_vars(Serve(s)) /\ WF_vars(WriteLoop(s))
    /\ \A c \in Cmd : WF_vars(Put(c))

FairSpec == Spec /\ Fairness
-----------------------------------------------------------------------------
(* Properties.                                                             *)

\* An entry of Server.agents is a session of that host whose readLoop has
\* not been left behind: Dispatch never finds a session that is over.
NoGhost ==
    \A h \in Host : agents[h] # None =>
        phase[agents[h]] \in {"live", "ended"} /\ host[agents[h]] = h

Holding(c) == {s \in Sess : \E k \in DOMAIN send[s] : send[s][k] = c}
OnWire(c) == {s \in Sess : \E k \in DOMAIN wire[s] : wire[s][k] = c}

\* A command runs at most once and only on the host it was for, however
\* often that agent reconnects, and one that Dispatch refused never runs.
RunsOnce ==
    \A c \in Cmd, h \in Host :
        /\ ran[c][h] <= 1
        /\ ran[c][h] = 1 => call[c].pc = "sent" /\ call[c].host = h
                            /\ Holding(c) = {} /\ OnWire(c) = {}

Settled(c) ==
    /\ call[c].pc = "sent"
    /\ ran[c][call[c].host] = 1 \/ phase[call[c].to] = "over"

\* A command that Dispatch accepted is run, or its session ends: none is
\* left waiting in the buffer of a session that nobody serves.
Settles == \A c \in Cmd : call[c].pc = "sent" ~> Settled(c)
=============================================================================
