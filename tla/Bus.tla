-------------------------------- MODULE Bus --------------------------------
(***************************************************************************)
(* internal/bus with its subscribers, and the notifier that passes what it *)
(* receives on to the browsers.  Publish takes a topic's slice of          *)
(* subscribers under a lock and walks it without; unsubscribing moves the  *)
(* elements of the same array.                                             *)
(***************************************************************************)
EXTENDS Integers, Sequences

CONSTANTS
    Topic,
    Sub,        \* subscribers of every topic
    Notifier,   \* the one of them that serves browsers
    Client,     \* browsers
    BufCap,     \* buffer of a subscriber, 64 in the code
    ClientCap,  \* buffer of a browser, 32 in the code
    MaxEvent    \* bound: calls of Publish

ASSUME BusAssumption ==
    /\ Topic # {} /\ Notifier \in Sub
    /\ BufCap \in Nat \ {0} /\ ClientCap \in Nat \ {0} /\ MaxEvent \in Nat

Event == 1..MaxEvent

VARIABLES
    ctx,      \* "live" until the process is told to stop
    crashed,  \* a send on a closed channel ended the process
    slice,    \* Bus.subscribers: a slice by topic, as its array and length
    arrays,   \* the arrays that append made for a topic, oldest first
    chan,     \* subscriber.ch: by topic and subscriber
    run,      \* where each subscriber's goroutine is
    pub,      \* the Publish calls
    got,      \* ghost: copies of an event that a subscriber was sent
    clients,  \* Notifier.clients: "new", "open" or "closed" channels
    cbuf,     \* SSEClient.ch
    todo      \* a topic's dispatch, under RLock: the clients still to serve

busVars == <<slice, arrays, chan, run, pub, got>>
sseVars == <<clients, cbuf, todo>>
vars == <<ctx, crashed, busVars, sseVars>>

NewPub == [pc |-> "new", topic |-> CHOOSE t \in Topic : TRUE, arr |-> 0,
           len |-> 0, i |-> 1, due |-> {}, missed |-> {}]

Chan == [st: {"none", "open", "closed"}, buf: Seq(Event)]

Pub == [pc: {"new", "send", "done"}, topic: Topic, arr: Nat, len: Nat, i: Nat,
        due: SUBSET Sub, missed: SUBSET Sub]

TypeOK ==
    /\ ctx \in {"live", "done"} /\ crashed \in BOOLEAN
    /\ slice \in [Topic -> [arr: Nat, len: Nat]]
    /\ arrays \in [Topic -> Seq(Seq(Sub))]
    /\ \A t \in Topic :
        /\ slice[t].arr = Len(arrays[t])
        /\ slice[t].len > 0 => slice[t].arr > 0
                               /\ slice[t].len <= Len(arrays[t][slice[t].arr])
    /\ chan \in [Topic -> [Sub -> Chan]]
    /\ run \in [Topic -> [Sub -> {"new", "run", "dispatch", "closing", "over"}]]
    /\ pub \in [Event -> Pub] /\ got \in [Event -> [Sub -> Nat]]
    /\ clients \in [Client -> {"new", "open", "closed"}]
    /\ cbuf \in [Client -> Seq(Event)]
    /\ todo \in [Topic -> SUBSET Client]

Init ==
    /\ ctx = "live" /\ crashed = FALSE
    /\ slice = [t \in Topic |-> [arr |-> 0, len |-> 0]]
    /\ arrays = [t \in Topic |-> <<>>]
    /\ chan = [t \in Topic |-> [s \in Sub |-> [st |-> "none", buf |-> <<>>]]]
    /\ run = [t \in Topic |-> [s \in Sub |-> "new"]]
    /\ pub = [e \in Event |-> NewPub]
    /\ got = [e \in Event |-> [s \in Sub |-> 0]]
    /\ clients = [c \in Client |-> "new"]
    /\ cbuf = [c \in Client |-> <<>>]
    /\ todo = [t \in Topic |-> {}]

\* main: a signal cancels the context.
Stop ==
    /\ ctx = "live" /\ ctx' = "done"
    /\ UNCHANGED <<crashed, busVars, sseVars>>
-----------------------------------------------------------------------------
(* Subscribing and unsubscribing.                                          *)

\* Bus.mu is held by nobody: only an unsubscribe holds it for two steps.
Unlocked == \A t \in Topic, s \in Sub : run[t][s] # "closing"

\* The array of a topic's slice, and whether append finds room in it: each
\* array is twice as long as the one before.
Array(t) == IF slice[t].arr = 0 THEN <<>> ELSE arrays[t][slice[t].arr]

Room(t) == slice[t].arr > 0 /\ slice[t].len < 2^(slice[t].arr - 1)

\* An array with s written behind its first n elements.
Written(a, n, s) ==
    [j \in 1..(IF Len(a) > n THEN Len(a) ELSE n + 1) |->
        IF j = n + 1 THEN s ELSE a[j]]

\* Variant with a bug: the copy leaves the last subscriber behind.
AppendedShort(t, s) ==
    /\ slice' = [slice EXCEPT ![t] = [arr |-> slice[t].arr + 1,
                                     len |-> slice[t].len + 1]]
    /\ arrays' = [arrays EXCEPT ![t] =
            Append(@, Append(SubSeq(Array(t), 1, slice[t].len - 1), s))]

\* append: in place while there is room, else to a copy.
Appended(t, s) ==
    IF Room(t)
    THEN /\ slice' = [slice EXCEPT ![t] = [arr |-> slice[t].arr,
                                          len |-> slice[t].len + 1]]
         /\ arrays' = [arrays EXCEPT ![t] =
                [arrays[t] EXCEPT ![slice[t].arr] =
                    Written(Array(t), slice[t].len, s)]]
    ELSE /\ slice' = [slice EXCEPT ![t] = [arr |-> slice[t].arr + 1,
                                          len |-> slice[t].len + 1]]
         /\ arrays' = [arrays EXCEPT ![t] =
                Append(@, Append(SubSeq(Array(t), 1, slice[t].len), s))]

Subscribe(t, s) ==
    /\ run[t][s] = "new" /\ Unlocked
    /\ Appended(t, s)
    /\ chan' = [chan EXCEPT ![t][s] = [st |-> "open", buf |-> <<>>]]
    /\ run' = [run EXCEPT ![t][s] = "run"]
    /\ UNCHANGED <<ctx, crashed, pub, got, sseVars>>

\* The loop of a subscriber takes an event.
Receive(t, s) ==
    /\ s # Notifier
    /\ run[t][s] = "run" /\ chan[t][s].buf # <<>>
    /\ chan' = [chan EXCEPT ![t][s].buf = Tail(@)]
    /\ UNCHANGED <<ctx, crashed, slice, arrays, run, pub, got, sseVars>>

\* Its context is done: the deferred unsubscribe closes the channel ...
Close(t, s) ==
    /\ run[t][s] = "run" /\ ctx = "done" /\ Unlocked
    /\ chan' = [chan EXCEPT ![t][s].st = "closed"]
    /\ run' = [run EXCEPT ![t][s] = "closing"]
    /\ UNCHANGED <<ctx, crashed, slice, arrays, pub, got, sseVars>>

Place(t, s) ==
    CHOOSE i \in 1..slice[t].len : arrays[t][slice[t].arr][i] = s

\* ... and moves the subscribers behind it down, in the same array.
Remove(t, s) ==
    /\ run[t][s] = "closing"
    /\ arrays' = [arrays EXCEPT ![t][slice[t].arr] =
            [j \in DOMAIN @ |-> IF j >= Place(t, s) /\ j < slice[t].len
                                THEN @[j + 1] ELSE @[j]]]
    /\ slice' = [slice EXCEPT ![t].len = @ - 1]
    /\ run' = [run EXCEPT ![t][s] = "over"]
    /\ UNCHANGED <<ctx, crashed, chan, pub, got, sseVars>>
-----------------------------------------------------------------------------
(* Publish.                                                                *)

Subscribed(t) == {arrays[t][slice[t].arr][i] : i \in 1..slice[t].len}

\* The slice is read under the lock.  Calls are numbered as they begin.
PublishBegin(e, t) ==
    /\ pub[e].pc = "new" /\ \A d \in Event : d < e => pub[d].pc # "new"
    /\ Unlocked
    /\ pub' = [pub EXCEPT ![e] =
            [pc |-> IF slice[t].len = 0 THEN "done" ELSE "send", topic |-> t,
             arr |-> slice[t].arr, len |-> slice[t].len, i |-> 1,
             due |-> Subscribed(t), missed |-> {}]]
    /\ UNCHANGED <<ctx, crashed, slice, arrays, chan, run, got, sseVars>>

\* Variant with a bug: a full buffer ends the loop.
PublishOneStops(e) ==
    LET p == pub[e]
        s == arrays[p.topic][p.arr][p.i]
        ch == chan[p.topic][s]
        room == ch.st = "open" /\ Len(ch.buf) < BufCap
    IN  /\ p.pc = "send"
        /\ crashed' = (ch.st = "closed")
        /\ chan' = IF room
                   THEN [chan EXCEPT ![p.topic][s].buf = Append(@, e)] ELSE chan
        /\ got' = IF room THEN [got EXCEPT ![e][s] = @ + 1] ELSE got
        /\ pub' = [pub EXCEPT ![e] =
                [p EXCEPT !.pc = IF ~room \/ p.i = p.len THEN "done" ELSE "send",
                          !.i = p.i + 1,
                          !.missed = IF room THEN @ ELSE @ \cup {s}]]
        /\ UNCHANGED <<ctx, slice, arrays, run, sseVars>>

\* One turn of the loop over what the array holds by now; a send on a closed
\* channel panics.
PublishOne(e) ==
    LET p == pub[e]
        s == arrays[p.topic][p.arr][p.i]
        ch == chan[p.topic][s]
        room == ch.st = "open" /\ Len(ch.buf) < BufCap
    IN  /\ p.pc = "send"
        /\ crashed' = (ch.st = "closed")
        /\ chan' = IF room
                   THEN [chan EXCEPT ![p.topic][s].buf = Append(@, e)] ELSE chan
        /\ got' = IF room THEN [got EXCEPT ![e][s] = @ + 1] ELSE got
        /\ pub' = [pub EXCEPT ![e] =
                [p EXCEPT !.pc = IF p.i = p.len THEN "done" ELSE "send",
                          !.i = p.i + 1,
                          !.missed = IF room THEN @ ELSE @ \cup {s}]]
        /\ UNCHANGED <<ctx, slice, arrays, run, sseVars>>
-----------------------------------------------------------------------------
(* The notifier and the browsers.                                          *)

OpenClients == {c \in Client : clients[c] = "open"}

\* dispatch takes an event and the read lock on the clients.
DispatchBegin(t) ==
    /\ run[t][Notifier] = "run" /\ chan[t][Notifier].buf # <<>>
    /\ chan' = [chan EXCEPT ![t][Notifier].buf = Tail(@)]
    /\ todo' = [todo EXCEPT ![t] = OpenClients]
    /\ run' = [run EXCEPT ![t][Notifier] = IF OpenClients = {} THEN "run"
                                           ELSE "dispatch"]
    /\ UNCHANGED <<ctx, crashed, slice, arrays, pub, got, clients, cbuf>>

Served(t, c) ==
    /\ todo' = [todo EXCEPT ![t] = @ \ {c}]
    /\ run' = [run EXCEPT ![t][Notifier] = IF todo[t] = {c} THEN "run" ELSE @]

\* Variant with a bug: the send waits for a slow client.
DispatchOneWaits(t, c) ==
    /\ c \in todo[t]
    /\ Len(cbuf[c]) < ClientCap
    /\ crashed' = (clients[c] = "closed")
    /\ cbuf' = IF clients[c] = "open"
               THEN [cbuf EXCEPT ![c] = Append(@, 1)] ELSE cbuf
    /\ Served(t, c)
    /\ UNCHANGED <<ctx, slice, arrays, chan, pub, got, clients>>

\* A client is sent the event or, when it is slow, is not.  Which event it
\* is makes no difference to anything: 1 stands for it.
DispatchOne(t, c) ==
    /\ c \in todo[t]
    /\ crashed' = (clients[c] = "closed")
    /\ cbuf' = IF clients[c] = "open" /\ Len(cbuf[c]) < ClientCap
               THEN [cbuf EXCEPT ![c] = Append(@, 1)] ELSE cbuf
    /\ Served(t, c)
    /\ UNCHANGED <<ctx, slice, arrays, chan, pub, got, clients>>

\* Nobody holds the read lock of Notifier.mu.
NoReader == \A t \in Topic : todo[t] = {}

\* AddSSEClient, by handleSSE.
AddClient(c) ==
    /\ clients[c] = "new" /\ NoReader
    /\ clients' = [clients EXCEPT ![c] = "open"]
    /\ UNCHANGED <<ctx, crashed, busVars, cbuf, todo>>

\* Variant with a bug: the channel is closed before the lock is taken.
RemoveClientEarly(c) ==
    /\ clients[c] = "open"
    /\ clients' = [clients EXCEPT ![c] = "closed"]
    /\ cbuf' = [cbuf EXCEPT ![c] = <<>>]
    /\ UNCHANGED <<ctx, crashed, busVars, todo>>

\* The browser goes: remove deletes the client and closes its channel.
RemoveClient(c) ==
    /\ clients[c] = "open" /\ NoReader
    /\ clients' = [clients EXCEPT ![c] = "closed"]
    /\ cbuf' = [cbuf EXCEPT ![c] = <<>>]
    /\ UNCHANGED <<ctx, crashed, busVars, todo>>

\* handleSSE writes an event to the browser.
ClientRead(c) ==
    /\ clients[c] = "open" /\ cbuf[c] # <<>>
    /\ cbuf' = [cbuf EXCEPT ![c] = Tail(@)]
    /\ UNCHANGED <<ctx, crashed, busVars, clients, todo>>
-----------------------------------------------------------------------------
\* The goroutine of one subscriber.
Subscriber(t, s) ==
    \/ Subscribe(t, s) \/ Receive(t, s) \/ Close(t, s) \/ Remove(t, s)
    \/ /\ s = Notifier
       /\ DispatchBegin(t) \/ \E c \in Client : DispatchOne(t, c)

Publisher(e) == PublishOne(e) \/ \E t \in Topic : PublishBegin(e, t)

Browser(c) == AddClient(c) \/ RemoveClient(c) \/ ClientRead(c)

AllOver == \A t \in Topic, s \in Sub : run[t][s] = "over"

\* The process has ended, or everybody has returned.
Rest == (crashed \/ AllOver) /\ UNCHANGED vars

Next ==
    \/ /\ ~crashed
       /\ \/ Stop
          \/ \E t \in Topic, s \in Sub : Subscriber(t, s)
          \/ \E e \in Event : Publisher(e)
          \/ \E c \in Client : Browser(c)
    \/ Rest

Spec == Init /\ [][Next]_vars

\* Subscribers run, and a Publish that has begun goes on.  Nobody need
\* publish, no browser need connect, read or leave.
Fairness ==
    /\ \A t \in Topic, s \in Sub : WF_vars(~crashed /\ Subscriber(t, s))
    /\ \A e \in Event : WF_vars(~crashed /\ PublishOne(e))

FairSpec == Spec /\ Fairness
-----------------------------------------------------------------------------
(* Properties.                                                             *)

\* Until the process is told to stop, no Publish and no dispatch sends on a
\* closed channel, whoever subscribes, and whichever browsers come and go.
NoCrashWhileLive == crashed => ctx = "done"

\* Until then a Publish that has returned gave its event once to everyone
\* who was subscribed when it began, save to those it found with a full
\* buffer: "the event is dropped for that subscriber only".
Delivered ==
    ctx = "live" =>
        \A e \in Event : pub[e].pc = "done" =>
            /\ \A s \in pub[e].due \ pub[e].missed : got[e][s] = 1
            /\ \A s \in Sub : got[e][s] <= 1
            /\ \A s \in pub[e].missed : got[e][s] = 0

\* Told to stop, the process stops: no subscriber waits for ever for a lock,
\* a slow browser or an event.
Stops == ctx = "done" ~> AllOver \/ crashed
=============================================================================
