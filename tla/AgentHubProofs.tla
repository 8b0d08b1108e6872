--------------------------- MODULE AgentHubProofs ---------------------------
(***************************************************************************)
(* Theorems about AgentHub, for any number of hosts, sessions, commands    *)
(* and any buffer size.                                                    *)
(***************************************************************************)
EXTENDS AgentHub, TLAPS

\* A Dispatch that found a session holds one of the host it was for.
CallsKnown ==
    \A c \in Cmd :
        call[c].pc \in {"found", "sent"} =>
            /\ call[c].host \in Host /\ call[c].to \in Sess
            /\ phase[call[c].to] # "unused"
            /\ host[call[c].to] = call[c].host

HubInv == TypeOK /\ CallsKnown /\ NoGhost

\* At first there are no sessions and no calls.
LEMMA HubInit == Init => HubInv
BY AgentHubAssumption DEF Init, HubInv, TypeOK, CallsKnown, NoGhost, Phase,
   NewCall, None, Sess, Cmd, AgentHubAssumption

\* None is no session.
LEMMA NoneFree == None \notin Sess
BY AgentHubAssumption DEF None, Sess, AgentHubAssumption

\* A channel that loses its head, or gains a command, still holds commands.
LEMMA Channels ==
    ASSUME NEW q \in Seq(Cmd)
    PROVE  /\ q # <<>> => /\ Head(q) \in Cmd /\ Tail(q) \in Seq(Cmd)
                          /\ Len(Tail(q)) <= Len(q)
           /\ \A c \in Cmd : Append(q, c) \in Seq(Cmd)
                             /\ Len(Append(q, c)) = Len(q) + 1
           /\ Len(q) \in Nat
OBVIOUS

\* An action that moves neither a call nor a session's place, nor the table.
LEMMA HubFrame ==
    ASSUME HubInv, TypeOK', UNCHANGED <<phase, host, agents, call>>
    PROVE  HubInv'
BY DEF HubInv, CallsKnown, NoGhost

\* The agent's and the network's steps.
LEMMA AgentSide ==
    ASSUME HubInv,
           \/ \E h \in Host : Agent(h)
           \/ \E s \in Sess : Cut(s)
    PROVE  HubInv'
<1>1. ASSUME NEW h \in Host, NEW s \in Sess, Dial(h, s) PROVE HubInv'
  <2>1. TypeOK'
    BY <1>1 DEF Dial, NextSess, HubInv, TypeOK, Phase
  <2>2. CallsKnown'
    BY <1>1 DEF Dial, NextSess, HubInv, TypeOK, CallsKnown
  <2>3. NoGhost'
    BY <1>1, NoneFree DEF Dial, NextSess, HubInv, TypeOK, NoGhost
  <2> QED BY <2>1, <2>2, <2>3 DEF HubInv
<1>2. ASSUME NEW h \in Host, AgentLeaves(h) PROVE HubInv'
  BY <1>2, HubFrame DEF AgentLeaves, HubInv, TypeOK, sessVars
<1>3. ASSUME NEW h \in Host, Receive(h) PROVE HubInv'
  <2>1. PICK s \in Sess : s = at[h] /\ wire[s] \in Seq(Cmd) /\ wire[s] # <<>>
    BY <1>3 DEF Receive, HubInv, TypeOK
  <2>2. PICK c \in Cmd : c = Head(wire[s])
    BY <2>1, Channels
  <2>3. /\ ran' = [ran EXCEPT ![c] = [ran[c] EXCEPT ![h] = ran[c][h] + 1]]
        /\ wire' = [wire EXCEPT ![s] = Tail(wire[s])]
    BY <1>3, <2>1, <2>2 DEF Receive
  <2>4. Tail(wire[s]) \in Seq(Cmd)
    BY <2>1, Channels
  <2>5. wire' \in [Sess -> Seq(Cmd)] /\ ran' \in [Cmd -> [Host -> Nat]]
    <3>1. PICK m : m = [ran[c] EXCEPT ![h] = ran[c][h] + 1]
      OBVIOUS
    <3>2. m \in [Host -> Nat]
      BY <3>1 DEF HubInv, TypeOK
    <3>3. ran' \in [Cmd -> [Host -> Nat]]
      BY <2>3, <3>1, <3>2 DEF HubInv, TypeOK
    <3>4. wire' \in [Sess -> Seq(Cmd)]
      BY <2>3, <2>4 DEF HubInv, TypeOK
    <3> QED BY <3>3, <3>4
  <2>6. TypeOK'
    BY <1>3, <2>5 DEF Receive, HubInv, TypeOK
  <2> QED BY <1>3, <2>6, HubFrame DEF Receive
<1>4. ASSUME NEW s \in Sess, Cut(s) PROVE HubInv'
  BY <1>4, HubFrame DEF Cut, HubInv, TypeOK
<1> QED BY <1>1, <1>2, <1>3, <1>4 DEF Agent

\* Registering, and the end of a session: unregister takes out whatever the
\* hostname has, hence at any rate the session that ends.
LEMMA HubSide ==
    ASSUME HubInv, NEW s \in Sess, Serve(s) \/ WriteLoop(s)
    PROVE  HubInv'
<1>1. CASE Refuse(s)
  <2>1. TypeOK' /\ CallsKnown'
    BY <1>1 DEF Refuse, HubInv, TypeOK, CallsKnown, Phase
  <2>2. NoGhost'
    BY <1>1 DEF Refuse, HubInv, TypeOK, NoGhost
  <2> QED BY <2>1, <2>2 DEF HubInv
<1>2. CASE Register(s)
  <2>1. TypeOK' /\ CallsKnown'
    BY <1>2 DEF Register, HubInv, TypeOK, CallsKnown, Phase
  <2>2. NoGhost'
    BY <1>2 DEF Register, HubInv, TypeOK, NoGhost
  <2> QED BY <2>1, <2>2 DEF HubInv
<1>3. CASE ReadFails(s)
  <2>1. TypeOK' /\ CallsKnown'
    BY <1>3 DEF ReadFails, HubInv, TypeOK, CallsKnown, Phase
  <2>2. NoGhost'
    BY <1>3 DEF ReadFails, HubInv, TypeOK, NoGhost
  <2> QED BY <2>1, <2>2 DEF HubInv
<1>4. CASE Unregister(s)
  <2>1. TypeOK' /\ CallsKnown'
    BY <1>4 DEF Unregister, HubInv, TypeOK, CallsKnown, Phase
  <2>2. NoGhost'
    BY <1>4 DEF Unregister, HubInv, TypeOK, NoGhost
  <2> QED BY <2>1, <2>2 DEF HubInv
<1>5. CASE Write(s)
  <2>1. PICK q, w \in Seq(Cmd) : q = send[s] /\ w = wire[s]
    BY DEF HubInv, TypeOK
  <2>2. PICK c \in Cmd : c = Head(q) /\ Tail(q) \in Seq(Cmd) /\ Len(Tail(q)) <= Len(q)
    BY <1>5, <2>1, Channels DEF Write
  <2>3. /\ send' = [send EXCEPT ![s] = Tail(q)]
        /\ wire' = [wire EXCEPT ![s] = Append(w, c)] \/ wire' = wire
        /\ writer' \in [Sess -> BOOLEAN]
    BY <1>5, <2>1, <2>2 DEF Write, HubInv, TypeOK
  <2>4. Append(w, c) \in Seq(Cmd) /\ Len(q) \in Nat /\ Len(Tail(q)) \in Nat
    BY <2>1, <2>2, Channels
  <2>5. /\ wire' \in [Sess -> Seq(Cmd)] /\ send' \in [Sess -> Seq(Cmd)]
        /\ \A t \in Sess : Len(send'[t]) <= SendCap
    <3>1. Len(q) <= SendCap /\ SendCap \in Nat
      BY <2>1, AgentHubAssumption DEF HubInv, TypeOK, AgentHubAssumption
    <3>2. Len(Tail(q)) <= SendCap
      BY <2>2, <2>4, <3>1
    <3>3. wire \in [Sess -> Seq(Cmd)] /\ send \in [Sess -> Seq(Cmd)]
      BY DEF HubInv, TypeOK
    <3>6. send' \in [Sess -> Seq(Cmd)]
      BY <2>2, <2>3, <3>3
    <3>7. wire' \in [Sess -> Seq(Cmd)]
      <4>1. [wire EXCEPT ![s] = Append(w, c)] \in [Sess -> Seq(Cmd)]
        BY <2>4, <3>3
      <4> QED BY <2>3, <3>3, <4>1
    <3>4. send'[s] = Tail(q) /\ \A t \in Sess : t # s => send'[t] = send[t]
      BY <2>3, <3>3
    <3>5. \A t \in Sess : Len(send[t]) <= SendCap
      BY DEF HubInv, TypeOK
    <3> QED BY <3>2, <3>4, <3>5, <3>6, <3>7
  <2>6. TypeOK'
    BY <1>5, <2>3, <2>5 DEF Write, HubInv, TypeOK
  <2> QED BY <1>5, <2>6, HubFrame DEF Write
<1>6. CASE WriterStops(s)
  BY <1>6, HubFrame DEF WriterStops, HubInv, TypeOK
<1> QED BY <1>1, <1>2, <1>3, <1>4, <1>5, <1>6 DEF Serve, WriteLoop

\* The two halves of Dispatch.
LEMMA DispatchSide ==
    ASSUME HubInv, NEW c \in Cmd, Put(c) \/ \E h \in Host : Lookup(c, h)
    PROVE  HubInv'
<1>1. ASSUME NEW h \in Host, Lookup(c, h) PROVE HubInv'
  <2>1. PICK r : r = [pc |-> IF agents[h] = None THEN "refused" ELSE "found",
                      host |-> h, to |-> agents[h]]
    OBVIOUS
  <2>2. call' = [call EXCEPT ![c] = r]
    BY <1>1, <2>1 DEF Lookup
  <2>3. r \in [pc: {"new", "found", "sent", "refused"},
               host: Host \cup {None}, to: Sess \cup {None}]
    BY <2>1 DEF HubInv, TypeOK
  <2>4. TypeOK'
    BY <1>1, <2>2, <2>3 DEF Lookup, sessVars, HubInv, TypeOK
  <2>5. r.pc \in {"found", "sent"} =>
            r.host \in Host /\ r.to \in Sess /\ phase[r.to] # "unused"
            /\ host[r.to] = r.host
    <3>1. PICK a \in Sess \cup {None} : a = agents[h]
      BY DEF HubInv, TypeOK
    <3>2. r.host = h /\ r.to = a
      BY <2>1, <3>1
    <3>3. CASE a = None
      <4>1. r.pc = "refused"
        BY <2>1, <3>1, <3>3
      <4> QED BY <4>1
    <3>4. CASE a # None
      <4>1. a \in Sess
        BY <3>4
      <4>2. phase[a] \in {"live", "ended"} /\ host[a] = h
        BY <3>1, <3>4 DEF HubInv, NoGhost
      <4> QED BY <3>2, <4>1, <4>2
    <3> QED BY <3>3, <3>4
  <2>6. CallsKnown'
    BY <1>1, <2>2, <2>5 DEF Lookup, sessVars, HubInv, TypeOK, CallsKnown
  <2> QED BY <1>1, <2>4, <2>6 DEF Lookup, sessVars, HubInv, NoGhost
<1>2. CASE Put(c)
  <2>1. PICK s \in Sess, q \in Seq(Cmd) : s = call[c].to /\ q = send[s]
    BY <1>2 DEF Put, HubInv, CallsKnown, TypeOK
  <2>2. PICK r : \/ Len(q) < SendCap /\ r = [call[c] EXCEPT !.pc = "sent"]
                 \/ ~(Len(q) < SendCap) /\ r = [call[c] EXCEPT !.pc = "refused"]
    OBVIOUS
  <2>3. /\ call' = [call EXCEPT ![c] = r]
        /\ \/ Len(q) < SendCap /\ send' = [send EXCEPT ![s] = Append(q, c)]
           \/ send' = send
    BY <1>2, <2>1, <2>2 DEF Put
  <2>4. /\ Append(q, c) \in Seq(Cmd) /\ Len(Append(q, c)) = Len(q) + 1
        /\ Len(q) \in Nat /\ SendCap \in Nat
    BY <2>1, Channels, AgentHubAssumption DEF AgentHubAssumption
  <2>5. call[c] \in [pc: {"new", "found", "sent", "refused"},
                     host: Host \cup {None}, to: Sess \cup {None}]
    BY DEF HubInv, TypeOK
  <2>6. /\ r \in [pc: {"new", "found", "sent", "refused"},
                  host: Host \cup {None}, to: Sess \cup {None}]
        /\ r.host = call[c].host /\ r.to = call[c].to
    BY <2>2, <2>5
  <2>7. send' \in [Sess -> Seq(Cmd)]
    BY <2>3, <2>4 DEF HubInv, TypeOK
  <2>8. \A t \in Sess : Len(send'[t]) <= SendCap
    <3>1. \A t \in Sess : Len(send[t]) <= SendCap
      BY DEF HubInv, TypeOK
    <3>2. CASE Len(q) < SendCap /\ send' = [send EXCEPT ![s] = Append(q, c)]
      <4>1. Len(Append(q, c)) <= SendCap
        BY <2>4, <3>2
      <4>2. send'[s] = Append(q, c) /\ \A t \in Sess : t # s => send'[t] = send[t]
        BY <3>2 DEF HubInv, TypeOK
      <4> QED BY <3>1, <4>1, <4>2
    <3> QED BY <2>3, <3>1, <3>2
  <2>9. TypeOK'
    BY <1>2, <2>3, <2>6, <2>7, <2>8 DEF Put, HubInv, TypeOK
  <2>10. CallsKnown'
    <3>1. /\ call[c].host \in Host /\ call[c].to \in Sess
          /\ phase[call[c].to] # "unused" /\ host[call[c].to] = call[c].host
      BY <1>2 DEF Put, HubInv, CallsKnown
    <3>2. call'[c] = r /\ \A d \in Cmd : d # c => call'[d] = call[d]
      BY <2>3 DEF HubInv, TypeOK
    <3>3. phase' = phase /\ host' = host
      BY <1>2 DEF Put
    <3> QED BY <2>6, <3>1, <3>2, <3>3 DEF HubInv, CallsKnown
  <2> QED BY <1>2, <2>9, <2>10 DEF Put, HubInv, NoGhost
<1> QED BY <1>1, <1>2

\* Every step keeps the table right.
LEMMA HubNext == HubInv /\ [Next]_vars => HubInv'
<1> SUFFICES ASSUME HubInv, [Next]_vars PROVE HubInv'
  OBVIOUS
<1>1. CASE UNCHANGED vars
  BY <1>1, HubFrame DEF vars, sessVars, HubInv, TypeOK
<1> QED BY <1>1, AgentSide, HubSide, DispatchSide DEF Next, Rest

\* No buffer of AgentConn.send holds more than its capacity, and what the
\* hub's table and Dispatch's calls name are sessions and hosts.
THEOREM TypeCorrect == Spec => []TypeOK
<1>1. HubInv => TypeOK
  BY DEF HubInv
<1> QED BY <1>1, HubInit, HubNext, PTL DEF Spec

\* Server.agents never names a session that is over, nor another host's:
\* what Dispatch looks up is a session whose readLoop was entered and whose
\* unregister is still to come.
THEOREM NoGhostHolds == Spec => []NoGhost
<1>1. HubInv => NoGhost
  BY DEF HubInv
<1> QED BY <1>1, HubInit, HubNext, PTL DEF Spec

-----------------------------------------------------------------------------
(* A command runs once.                                                    *)

Elems(q) == {q[k] : k \in DOMAIN q}
Distinct(q) == \A k, l \in DOMAIN q : q[k] = q[l] => k = l

\* Taking the head of a channel takes that command out of it ...
LEMMA Taking ==
    ASSUME NEW q \in Seq(Cmd), q # <<>>, Distinct(q)
    PROVE  /\ Head(q) \in Elems(q) /\ Elems(Tail(q)) = Elems(q) \ {Head(q)}
           /\ Distinct(Tail(q))
<1>1. /\ DOMAIN q = 1..Len(q) /\ Len(q) \in Nat /\ Len(q) > 0
      /\ Head(q) = q[1] /\ 1 \in DOMAIN q
  OBVIOUS
<1>2. /\ DOMAIN Tail(q) = 1..Len(q) - 1
      /\ \A k \in 1..Len(q) - 1 : Tail(q)[k] = q[k + 1]
  OBVIOUS
<1>3. \A k \in 1..Len(q) - 1 : k + 1 \in DOMAIN q /\ k + 1 # 1
  BY <1>1
<1>4. Distinct(Tail(q))
  <2>1. SUFFICES ASSUME NEW k \in 1..Len(q) - 1, NEW l \in 1..Len(q) - 1,
                        Tail(q)[k] = Tail(q)[l]
                 PROVE  k = l
    BY <1>2 DEF Distinct
  <2>2. q[k + 1] = q[l + 1]
    BY <1>2, <2>1
  <2>3. k + 1 = l + 1
    BY <1>3, <2>2 DEF Distinct
  <2>4. k \in Int /\ l \in Int
    BY <1>1
  <2> QED BY <2>3, <2>4
<1>5. ASSUME NEW c \in Elems(Tail(q)) PROVE c \in Elems(q) \ {Head(q)}
  <2>1. PICK k \in 1..Len(q) - 1 : c = q[k + 1]
    BY <1>2, <1>5 DEF Elems
  <2>2. c # q[1]
    BY <1>1, <1>3, <2>1 DEF Distinct
  <2> QED BY <1>1, <1>3, <2>1, <2>2 DEF Elems
<1>6. ASSUME NEW c \in Elems(q) \ {Head(q)} PROVE c \in Elems(Tail(q))
  <2>1. PICK k \in 1..Len(q) : c = q[k] /\ k # 1
    BY <1>1 DEF Elems
  <2>2. k - 1 \in 1..Len(q) - 1 /\ (k - 1) + 1 = k
    BY <1>1, <2>1
  <2>3. Tail(q)[k - 1] = c
    BY <1>2, <2>1, <2>2
  <2> QED BY <1>2, <2>2, <2>3 DEF Elems
<1>7. Head(q) \in Elems(q)
  BY <1>1 DEF Elems
<1> QED BY <1>4, <1>5, <1>6, <1>7

\* ... and a send puts one in.
LEMMA Putting ==
    ASSUME NEW q \in Seq(Cmd), NEW c \in Cmd, c \notin Elems(q), Distinct(q)
    PROVE  Elems(Append(q, c)) = Elems(q) \cup {c} /\ Distinct(Append(q, c))
<1>1. DOMAIN q = 1..Len(q) /\ Len(q) \in Nat
  OBVIOUS
<1>2. /\ DOMAIN Append(q, c) = 1..Len(q) + 1
      /\ \A k \in 1..Len(q) : Append(q, c)[k] = q[k]
      /\ Append(q, c)[Len(q) + 1] = c
  OBVIOUS
<1>3. \A k \in 1..Len(q) + 1 : k \in 1..Len(q) \/ k = Len(q) + 1
  BY <1>1
<1>4. \A k \in 1..Len(q) : k \in 1..Len(q) + 1
  BY <1>1
<1>5. Len(q) + 1 \in 1..Len(q) + 1
  BY <1>1
<1>6. Elems(Append(q, c)) = Elems(q) \cup {c}
  BY <1>1, <1>2, <1>3, <1>4, <1>5 DEF Elems
<1>7. Distinct(Append(q, c))
  BY <1>1, <1>2, <1>3 DEF Elems, Distinct
<1> QED BY <1>6, <1>7

\* An agent is in a session of its own.
AtOwn ==
    \A h \in Host : at[h] # None =>
        phase[at[h]] # "unused" /\ host[at[h]] = h

\* A session's channel and its connection share no command and repeat none.
Apart(s) ==
    /\ Distinct(send[s]) /\ Distinct(wire[s])
    /\ Elems(send[s]) \cap Elems(wire[s]) = {}

\* A command on its way was accepted for this session, and has not run.
OnItsWay(c, s) ==
    call[c].pc = "sent" /\ call[c].to = s /\ \A h \in Host : ran[c][h] = 0

Once ==
    /\ AtOwn
    /\ \A s \in Sess : Apart(s)
    /\ \A s \in Sess : \A c \in Elems(send[s]) \cup Elems(wire[s]) : OnItsWay(c, s)
    /\ \A c \in Cmd, h \in Host :
         ran[c][h] # 0 => ran[c][h] = 1 /\ call[c].pc = "sent" /\ call[c].host = h

LEMMA OnceInit == Init => Once
<1> SUFFICES ASSUME Init PROVE Once
  OBVIOUS
<1>1. AtOwn
  BY DEF Init, AtOwn
<1>2. \A s \in Sess : Elems(send[s]) = {} /\ Elems(wire[s]) = {}
                      /\ Distinct(send[s]) /\ Distinct(wire[s])
  BY DEF Init, Elems, Distinct
<1>3. \A c \in Cmd, h \in Host : ran[c][h] = 0
  BY DEF Init
<1> QED BY <1>1, <1>2, <1>3 DEF Once, Apart

\* An action that moves no command.
LEMMA OnceFrame ==
    ASSUME Once, AtOwn', UNCHANGED <<send, wire, call, ran>> PROVE Once'
BY DEF Once, Apart, OnItsWay

LEMMA OnceSteps ==
    ASSUME HubInv, Once,
           \/ \E s \in Sess : Serve(s) \/ Cut(s) \/ WriterStops(s)
           \/ \E h \in Host : AgentLeaves(h) \/ \E s \in Sess : Dial(h, s)
           \/ UNCHANGED vars
    PROVE  Once'
<1>1. ASSUME NEW s \in Sess, Serve(s) \/ Cut(s) \/ WriterStops(s) PROVE Once'
  <2>1. /\ UNCHANGED <<host, send, wire, at, call, ran>>
        /\ phase' = phase \/ (phase[s] # "unused" /\ phase' = [phase EXCEPT ![s] = "live"])
           \/ (phase[s] # "unused" /\ phase' = [phase EXCEPT ![s] = "ended"])
           \/ (phase[s] # "unused" /\ phase' = [phase EXCEPT ![s] = "over"])
    BY <1>1 DEF Serve, Refuse, Register, ReadFails, Unregister, Cut, WriterStops
  <2>2. \A t \in Sess : phase[t] # "unused" => phase'[t] # "unused"
    BY <2>1 DEF HubInv, TypeOK
  <2>3. \A h \in Host : at[h] \in Sess \cup {None}
    BY DEF HubInv, TypeOK
  <2>4. AtOwn'
    BY <2>1, <2>2, <2>3 DEF Once, AtOwn
  <2> QED BY <2>1, <2>4, OnceFrame
<1>2. ASSUME NEW h \in Host, AgentLeaves(h) PROVE Once'
  <2>1. AtOwn'
    BY <1>2 DEF AgentLeaves, sessVars, Once, AtOwn, HubInv, TypeOK
  <2> QED BY <1>2, <2>1, OnceFrame DEF AgentLeaves, sessVars
<1>3. ASSUME NEW h \in Host, NEW s \in Sess, Dial(h, s) PROVE Once'
  <2>1. phase[s] = "unused" /\ s # None
    BY <1>3, NoneFree DEF Dial, NextSess
  <2>2. /\ phase' = [phase EXCEPT ![s] = "accepted"]
        /\ host' = [host EXCEPT ![s] = h] /\ at' = [at EXCEPT ![h] = s]
    BY <1>3 DEF Dial
  <2>3. ASSUME NEW g \in Host, at'[g] # None
        PROVE  phase'[at'[g]] # "unused" /\ host'[at'[g]] = g
    <3>1. CASE g = h
      <4>1. at'[g] = s /\ phase'[s] = "accepted" /\ host'[s] = h
        BY <2>2, <3>1 DEF HubInv, TypeOK
      <4> QED BY <3>1, <4>1
    <3>2. CASE g # h
      <4>1. at'[g] = at[g] /\ at[g] \in Sess \cup {None}
        BY <2>2, <3>2 DEF HubInv, TypeOK
      <4>2. at[g] \in Sess /\ phase[at[g]] # "unused" /\ host[at[g]] = g
        BY <2>3, <4>1 DEF Once, AtOwn
      <4>3. at[g] # s
        BY <2>1, <4>2
      <4>4. phase'[at[g]] = phase[at[g]] /\ host'[at[g]] = host[at[g]]
        BY <2>2, <4>2, <4>3 DEF HubInv, TypeOK
      <4> QED BY <4>1, <4>2, <4>4
    <3> QED BY <3>1, <3>2
  <2>4. AtOwn'
    BY <2>3 DEF AtOwn
  <2> QED BY <1>3, <2>4, OnceFrame DEF Dial
<1>4. CASE UNCHANGED vars
  <2>1. AtOwn'
    BY <1>4 DEF vars, sessVars, Once, AtOwn
  <2> QED BY <1>4, <2>1, OnceFrame DEF vars, sessVars
<1> QED BY <1>1, <1>2, <1>3, <1>4

\* writeLoop moves a command from the channel to the connection, or loses it.
LEMMA OnceWrite ==
    ASSUME HubInv, Once, NEW s \in Sess, Write(s) PROVE Once'
<1>1. PICK q \in Seq(Cmd), w \in Seq(Cmd) : q = send[s] /\ w = wire[s]
  BY DEF HubInv, TypeOK
<1>2. q # <<>> /\ Distinct(q) /\ Distinct(w) /\ Elems(q) \cap Elems(w) = {}
  BY <1>1 DEF Write, Once, Apart
<1>3. PICK c \in Cmd : c = Head(q)
  BY <1>1, <1>2, Channels
<1>4. /\ c \in Elems(q) /\ Elems(Tail(q)) = Elems(q) \ {c} /\ Distinct(Tail(q))
  BY <1>1, <1>2, <1>3, Taking
<1>5. /\ send' = [send EXCEPT ![s] = Tail(q)]
      /\ wire' = [wire EXCEPT ![s] = Append(w, c)] \/ wire' = wire
      /\ UNCHANGED <<phase, host, at, call, ran>>
  BY <1>1, <1>3 DEF Write
<1>6. c \notin Elems(w)
  BY <1>2, <1>4
<1>7. Elems(Append(w, c)) = Elems(w) \cup {c} /\ Distinct(Append(w, c))
  BY <1>2, <1>6, Putting
<1>8. send'[s] = Tail(q) /\ \A t \in Sess \ {s} : send'[t] = send[t]
  BY <1>5 DEF HubInv, TypeOK
<1>9. /\ wire'[s] = Append(w, c) \/ wire'[s] = w
      /\ \A t \in Sess \ {s} : wire'[t] = wire[t]
  BY <1>1, <1>5 DEF HubInv, TypeOK
<1>10. ASSUME NEW t \in Sess
       PROVE  /\ Apart(t)'
              /\ \A d \in Elems(send'[t]) \cup Elems(wire'[t]) : OnItsWay(d, t)
  <2>1. CASE t = s
    <3>1. /\ Elems(send'[s]) = Elems(q) \ {c} /\ Distinct(send'[s])
          /\ Distinct(wire'[s])
          /\ Elems(wire'[s]) = Elems(w) \cup {c} \/ Elems(wire'[s]) = Elems(w)
      BY <1>2, <1>4, <1>7, <1>8, <1>9
    <3>2. \A d \in Elems(q) \cup Elems(w) : OnItsWay(d, s)
      BY <1>1 DEF Once
    <3> QED BY <1>2, <1>4, <2>1, <3>1, <3>2 DEF Apart
  <2>2. CASE t # s
    BY <1>8, <1>9, <2>2 DEF Once, Apart
  <2> QED BY <2>1, <2>2
<1>11. AtOwn'
  BY <1>5 DEF Once, AtOwn
<1> QED BY <1>5, <1>10, <1>11 DEF Once, OnItsWay

\* The agent takes a command off its connection and runs it.
LEMMA OnceReceive ==
    ASSUME HubInv, Once, NEW h \in Host, Receive(h) PROVE Once'
<1>1. PICK s \in Sess, w \in Seq(Cmd) : s = at[h] /\ w = wire[s] /\ w # <<>>
  BY DEF Receive, HubInv, TypeOK
<1>2. Distinct(w) /\ Elems(send[s]) \cap Elems(w) = {}
  BY <1>1 DEF Once, Apart
<1>3. PICK c \in Cmd : c = Head(w)
  BY <1>1, Channels
<1>4. c \in Elems(w) /\ Elems(Tail(w)) = Elems(w) \ {c} /\ Distinct(Tail(w))
  BY <1>1, <1>2, <1>3, Taking
<1>5. OnItsWay(c, s)
  BY <1>1, <1>4 DEF Once
<1>6. call[c].host = h
  <2>1. host[s] = h
    BY <1>1, NoneFree DEF Once, AtOwn
  <2>2. host[call[c].to] = call[c].host
    BY <1>5 DEF OnItsWay, HubInv, CallsKnown
  <2> QED BY <1>5, <2>1, <2>2 DEF OnItsWay
<1>7. /\ wire' = [wire EXCEPT ![s] = Tail(w)]
      /\ ran' = [ran EXCEPT ![c] = [ran[c] EXCEPT ![h] = ran[c][h] + 1]]
      /\ UNCHANGED <<phase, host, send, at, call>>
  BY <1>1, <1>3 DEF Receive
<1>8. wire'[s] = Tail(w) /\ \A t \in Sess \ {s} : wire'[t] = wire[t]
  BY <1>7 DEF HubInv, TypeOK
<1>9. /\ ran'[c][h] = 1 /\ \A g \in Host \ {h} : ran'[c][g] = 0
      /\ \A d \in Cmd \ {c} : ran'[d] = ran[d]
  <2>1. ran[c] \in [Host -> Nat] /\ ran \in [Cmd -> [Host -> Nat]]
    BY DEF HubInv, TypeOK
  <2>2. \A g \in Host : ran[c][g] = 0
    BY <1>5 DEF OnItsWay
  <2> QED BY <1>7, <2>1, <2>2
<1>10. ASSUME NEW t \in Sess
       PROVE  /\ Apart(t)'
              /\ \A d \in Elems(send'[t]) \cup Elems(wire'[t]) : d # c /\ OnItsWay(d, t)
  <2>1. CASE t = s
    <3>1. \A d \in Elems(send[s]) \cup Elems(w) : OnItsWay(d, s)
      BY <1>1 DEF Once
    <3>2. Distinct(send[s])
      BY DEF Once, Apart
    <3>3. c \notin Elems(send[s])
      BY <1>2, <1>4
    <3>4. Elems(wire'[s]) = Elems(w) \ {c} /\ Distinct(wire'[s]) /\ send' = send
      BY <1>4, <1>7, <1>8
    <3> QED BY <1>2, <2>1, <3>1, <3>2, <3>3, <3>4 DEF Apart
  <2>2. CASE t # s
    <3>1. \A d \in Elems(send[t]) \cup Elems(wire[t]) : OnItsWay(d, t)
      BY DEF Once
    <3>2. \A d \in Elems(send[t]) \cup Elems(wire[t]) : d # c
      BY <1>5, <2>2, <3>1 DEF OnItsWay
    <3>3. send'[t] = send[t] /\ wire'[t] = wire[t]
      BY <1>7, <1>8, <2>2
    <3> QED BY <3>1, <3>2, <3>3 DEF Once, Apart
  <2> QED BY <2>1, <2>2
<1>11. \A t \in Sess : Elems(send'[t]) \cup Elems(wire'[t]) \subseteq Cmd
  BY HubNext DEF Next, Agent, HubInv, TypeOK, Elems
<1>12. \A t \in Sess : \A d \in Elems(send'[t]) \cup Elems(wire'[t]) : OnItsWay(d, t)'
  BY <1>7, <1>9, <1>10, <1>11 DEF OnItsWay
<1>13. AtOwn'
  BY <1>7 DEF Once, AtOwn
<1>14. \A d \in Cmd, g \in Host :
         ran'[d][g] # 0 => ran'[d][g] = 1 /\ call'[d].pc = "sent" /\ call'[d].host = g
  BY <1>5, <1>6, <1>7, <1>9 DEF Once, OnItsWay
<1> QED BY <1>10, <1>12, <1>13, <1>14 DEF Once

\* Dispatch accepts a command that is nowhere yet, or refuses it.
LEMMA OnceDispatch ==
    ASSUME HubInv, Once, NEW c \in Cmd, Put(c) \/ \E h \in Host : Lookup(c, h)
    PROVE  Once'
<1>1. call[c].pc # "sent" /\ UNCHANGED <<phase, host, wire, at, ran>>
  BY DEF Put, Lookup, NextCmd, sessVars
<1>2. \A t \in Sess : c \notin Elems(send[t]) \cup Elems(wire[t])
  BY <1>1 DEF Once, OnItsWay
<1>3. \A g \in Host : ran[c][g] = 0
  BY <1>1 DEF Once
<1>4. PICK r : call' = [call EXCEPT ![c] = r]
  BY DEF Put, Lookup
<1>5. call'[c] = r /\ \A d \in Cmd \ {c} : call'[d] = call[d]
  BY <1>4 DEF HubInv, TypeOK
<1>6. \A t \in Sess : Elems(send[t]) \cup Elems(wire[t]) \subseteq Cmd
  BY DEF HubInv, TypeOK, Elems
<1>7. \A t \in Sess : \A d \in Elems(send[t]) \cup Elems(wire[t]) : OnItsWay(d, t)'
  BY <1>1, <1>2, <1>5, <1>6 DEF Once, OnItsWay
<1>8. \A d \in Cmd, g \in Host :
        ran'[d][g] # 0 => ran'[d][g] = 1 /\ call'[d].pc = "sent" /\ call'[d].host = g
  BY <1>1, <1>3, <1>5 DEF Once
<1>9. AtOwn'
  BY <1>1 DEF Once, AtOwn
<1>10. CASE UNCHANGED send
  BY <1>1, <1>7, <1>8, <1>9, <1>10 DEF Once, Apart
<1>11. CASE send' # send
  <2>1. /\ Put(c) /\ call'[c].pc = "sent" /\ call'[c].to = call[c].to
        /\ send' = [send EXCEPT ![call[c].to] = Append(send[call[c].to], c)]
    BY <1>11 DEF Put, Lookup, sessVars, HubInv, TypeOK
  <2>2. PICK s \in Sess, q \in Seq(Cmd) : s = call[c].to /\ q = send[s]
    BY <2>1 DEF Put, HubInv, CallsKnown, TypeOK
  <2>3. Distinct(q) /\ Distinct(wire[s]) /\ Elems(q) \cap Elems(wire[s]) = {}
    BY <2>2 DEF Once, Apart
  <2>4. Elems(Append(q, c)) = Elems(q) \cup {c} /\ Distinct(Append(q, c))
    BY <1>2, <2>2, <2>3, Putting
  <2>5. send'[s] = Append(q, c) /\ \A t \in Sess \ {s} : send'[t] = send[t]
    BY <2>1, <2>2 DEF HubInv, TypeOK
  <2>6. OnItsWay(c, s)'
    BY <1>1, <1>3, <2>1, <2>2 DEF OnItsWay
  <2>7. ASSUME NEW t \in Sess
        PROVE  /\ Apart(t)'
               /\ \A d \in Elems(send'[t]) \cup Elems(wire'[t]) : OnItsWay(d, t)'
    <3>1. CASE t = s
      <4>1. wire' = wire /\ c \notin Elems(wire[s])
        BY <1>1, <1>2
      <4>2. Elems(send'[s]) = Elems(q) \cup {c} /\ Distinct(send'[s])
        BY <2>4, <2>5
      <4>3. Apart(s)'
        BY <2>3, <4>1, <4>2 DEF Apart
      <4>4. \A d \in Elems(q) \cup Elems(wire[s]) : OnItsWay(d, s)'
        BY <1>7, <2>2
      <4> QED BY <2>6, <3>1, <4>1, <4>2, <4>3, <4>4
    <3>2. CASE t # s
      BY <1>1, <1>7, <2>5, <3>2 DEF Once, Apart
    <3> QED BY <3>1, <3>2
  <2> QED BY <1>8, <1>9, <2>7 DEF Once
<1> QED BY <1>10, <1>11

LEMMA OnceNext == HubInv /\ Once /\ [Next]_vars => Once'
<1> SUFFICES ASSUME HubInv, Once, [Next]_vars PROVE Once'
  OBVIOUS
<1>1. CASE UNCHANGED vars \/ Rest
  BY <1>1, OnceSteps DEF Rest
<1>2. ASSUME NEW h \in Host, Agent(h) PROVE Once'
  BY <1>2, OnceSteps, OnceReceive DEF Agent
<1>3. ASSUME NEW s \in Sess, Serve(s) \/ WriteLoop(s) \/ Cut(s) PROVE Once'
  BY <1>3, OnceSteps, OnceWrite DEF WriteLoop
<1>4. ASSUME NEW c \in Cmd, Put(c) \/ \E h \in Host : Lookup(c, h) PROVE Once'
  BY <1>4, OnceDispatch
<1> QED BY <1>1, <1>2, <1>3, <1>4 DEF Next

\* However often agents lose their sessions and come back, a command runs at
\* most once and on the host it was for; what has run is in no channel and on
\* no connection, and what Dispatch refused does not run.
THEOREM RunsOnceHolds == Spec => []RunsOnce
<1>1. HubInv /\ Once => RunsOnce
  <2> SUFFICES ASSUME HubInv, Once, NEW c \in Cmd, NEW h \in Host
               PROVE  /\ ran[c][h] <= 1
                      /\ ran[c][h] = 1 =>
                           /\ call[c].pc = "sent" /\ call[c].host = h
                           /\ Holding(c) = {} /\ OnWire(c) = {}
    BY DEF RunsOnce
  <2>1. ran[c][h] \in Nat
    BY DEF HubInv, TypeOK
  <2>2. CASE ran[c][h] = 0
    BY <2>2
  <2>3. CASE ran[c][h] # 0
    <3>1. ran[c][h] = 1 /\ call[c].pc = "sent" /\ call[c].host = h
      BY <2>3 DEF Once
    <3>2. \A s \in Sess : c \notin Elems(send[s]) \cup Elems(wire[s])
      BY <2>3 DEF Once, OnItsWay
    <3>3. Holding(c) = {} /\ OnWire(c) = {}
      BY <3>2 DEF Holding, OnWire, Elems
    <3> QED BY <3>1, <3>3
  <2> QED BY <2>2, <2>3
<1>2. Init => HubInv /\ Once
  BY HubInit, OnceInit
<1>3. HubInv /\ Once /\ [Next]_vars => HubInv' /\ Once'
  BY HubNext, OnceNext
<1> QED BY <1>1, <1>2, <1>3, PTL DEF Spec
=============================================================================
