------------------------------- MODULE JobLog -------------------------------
(***************************************************************************)
(* The log of a deploy job (internal/deploy) and the WebSocket handlers    *)
(* that stream it (handleDeployLogs): a capped list of lines to replay and *)
(* a channel of bounded capacity from which all the handlers receive, each *)
(* line one of them.                                                       *)
(***************************************************************************)
EXTENDS Integers, Sequences

CONSTANTS
    Job,        \* bound: jobs, numbered in the order they are made
    Reader,     \* WebSocket handlers
    LogCap,     \* maxLogLines, 500 in the code
    ChanCap     \* LogCh's capacity, 256 in the code

ASSUME JobLogAssumption == LogCap \in Nat /\ ChanCap \in Nat /\ Job \subseteq Nat \ {0}

VARIABLES
    job,      \* the DeployJobs
    reader    \* the handlers

logVars == <<job, reader>>

Terminal == {"success", "failed"}
\* A line is its Seq; "dropped" is a ghost: the lines the channel missed.
NoJob == [st |-> "none", logs |-> <<>>, seq |-> 0, ch |-> <<>>,
          closed |-> FALSE, dropped |-> {}]
\* Ghosts: "from", the lines there were when it came; "seen" and "took", the
\* lines replayed, and those received.
NoReader == [pc |-> "out", job |-> 0, todo |-> <<>>, from |-> 0, seen |-> {},
             took |-> <<>>, left |-> FALSE]

JobLogTypeOK ==
    /\ \A j \in Job :
         /\ job[j].st \in {"none", "queued", "running"} \cup Terminal
         /\ Len(job[j].logs) <= LogCap /\ Len(job[j].ch) <= ChanCap
         /\ job[j].closed <=> job[j].st \in Terminal
    /\ \A r \in Reader :
         /\ reader[r].pc \in {"out", "replay", "live", "done", "gone"}
         /\ reader[r].pc # "out" => reader[r].job \in Job

InitLog == job = [j \in Job |-> NoJob] /\ reader = [r \in Reader |-> NoReader]

-----------------------------------------------------------------------------
(* DeployJob; each is one critical section of j.mu.                        *)

NewJob(j) == job' = [job EXCEPT ![j] = [NoJob EXCEPT !.st = "running"]]

\* Variants with a bug: the cap is off by one; a full channel loses the
\* oldest line instead of the new one.
AppendLogOneMore(j) ==
    LET line == job[j].seq + 1
        room == ~job[j].closed /\ Len(job[j].ch) < ChanCap
    IN  job' = [job EXCEPT ![j] =
          [@ EXCEPT !.seq = line,
                    !.logs = IF Len(@) <= LogCap THEN Append(@, line) ELSE @,
                    !.ch = IF room THEN Append(@, line) ELSE @,
                    !.dropped = IF room THEN @ ELSE @ \cup {line}]]

AppendLogOldest(j) ==
    LET line == job[j].seq + 1
        room == ~job[j].closed /\ Len(job[j].ch) < ChanCap
    IN  job' = [job EXCEPT ![j] =
          [@ EXCEPT !.seq = line,
                    !.logs = IF Len(@) < LogCap THEN Append(@, line) ELSE @,
                    !.ch = IF room THEN Append(@, line) ELSE <<line>>,
                    !.dropped = IF room THEN @ ELSE @ \cup {line}]]

AppendLog(j) ==
    LET o == job[j]
        line == o.seq + 1
        room == ~o.closed /\ Len(o.ch) < ChanCap
    IN  job' = [job EXCEPT ![j] =
          [o EXCEPT !.seq = line,
                    !.logs = IF Len(@) < LogCap THEN Append(@, line) ELSE @,
                    !.ch = IF room THEN Append(@, line) ELSE @,
                    !.dropped = IF room THEN @ ELSE @ \cup {line}]]

\* Variant with a bug: the channel is left open.
TransitionLeavesOpen(j, st) == job' = [job EXCEPT ![j].st = st]

\* To a terminal status; later calls change nothing.
Transition(j, st) ==
    job' = IF job[j].st \in Terminal THEN job
           ELSE [job EXCEPT ![j] = [@ EXCEPT !.st = st, !.closed = TRUE]]

-----------------------------------------------------------------------------
(* handleDeployLogs.                                                       *)

SetReader(r, v) == reader' = [reader EXCEPT ![r] = v]

\* The job is looked up, the socket accepted, Logs() copied.
Attach(r, j) ==
    /\ reader[r].pc = "out" /\ job[j].st # "none"
    /\ SetReader(r, [NoReader EXCEPT !.pc = "replay", !.job = j,
                                     !.todo = job[j].logs,
                                     !.from = job[j].seq])
    /\ UNCHANGED job

\* A write reaches the client, or nobody, or says that the client has left.
WriteFails(r) ==
    /\ reader[r].left
    /\ SetReader(r, [reader[r] EXCEPT !.pc = "gone", !.todo = <<>>])

Replay(r) ==
    /\ reader[r].pc = "replay"
    /\ LET v == reader[r]
       IN  \/ /\ v.todo = <<>> /\ SetReader(r, [v EXCEPT !.pc = "live"])
           \/ /\ v.todo # <<>>
              /\ SetReader(r, [v EXCEPT !.todo = Tail(@),
                                        !.seen = @ \cup {Head(v.todo)}])
           \/ v.todo # <<>> /\ WriteFails(r)
    /\ UNCHANGED job

\* Variant with a bug: the range loop is left when nothing is buffered.
ReceiveImpatient(r) ==
    /\ reader[r].pc = "live"
    /\ LET v == reader[r]
           o == job[v.job]
       IN  \/ /\ o.ch # <<>>
              /\ job' = [job EXCEPT ![v.job].ch = Tail(@)]
              /\ SetReader(r, [v EXCEPT !.took = Append(@, Head(o.ch))])
           \/ /\ o.ch = <<>> /\ SetReader(r, [v EXCEPT !.pc = "done"])
              /\ UNCHANGED job

\* range LogCh, then the message "done" with the job's status.
Receive(r) ==
    /\ reader[r].pc = "live"
    /\ LET v == reader[r]
           o == job[v.job]
       IN  \/ /\ o.ch # <<>>
              /\ job' = [job EXCEPT ![v.job].ch = Tail(@)]
              /\ \/ SetReader(r, [v EXCEPT !.took = Append(@, Head(o.ch))])
                 \/ /\ v.left
                    /\ SetReader(r, [v EXCEPT !.took = Append(@, Head(o.ch)),
                                              !.pc = "gone"])
           \/ /\ o.ch = <<>> /\ o.closed
              /\ SetReader(r, [v EXCEPT !.pc = "done"])
              /\ UNCHANGED job

\* The browser goes; the handler learns it when a write fails, if at all.
Leave(r) ==
    /\ reader[r].pc \in {"replay", "live"} /\ ~reader[r].left
    /\ SetReader(r, [reader[r] EXCEPT !.left = TRUE])
    /\ UNCHANGED job

ReaderStep(r) == Replay(r) \/ Receive(r)

-----------------------------------------------------------------------------
Lines(j) == 1..job[j].seq
Taken(r) == {reader[r].took[i] : i \in DOMAIN reader[r].took}
On(r, j) == reader[r].pc # "out" /\ reader[r].job = j

\* Every line of a job is either dropped, or in the channel, or was received
\* by one handler, and each handler received its lines in order: the handlers
\* of one job share the lines out among them, whoever comes and goes.
EachLineOnce ==
    \A j \in Job :
        LET inCh == {job[j].ch[i] : i \in DOMAIN job[j].ch}
            by == {r \in Reader : On(r, j)}
        IN  /\ Lines(j) = job[j].dropped \cup inCh \cup UNION {Taken(r) : r \in by}
            /\ \A r \in by :
                 /\ Taken(r) \cap (inCh \cup job[j].dropped) = {}
                 /\ \A s \in by \ {r} : Taken(r) \cap Taken(s) = {}
                 /\ \A i, k \in DOMAIN reader[r].took :
                      i < k => reader[r].took[i] < reader[r].took[k]

\* A client that had the job to itself and was told it is done has been sent
\* every line, replayed or live, but for those that the full channel dropped
\* after it came or that the list had no room for.
LoneReaderSees ==
    \A r \in Reader :
        LET v == reader[r]
            j == v.job
        IN  v.pc = "done" /\ (\A s \in Reader \ {r} : ~On(s, j)) =>
                \A l \in Lines(j) :
                    \/ l \in v.seen \cup Taken(r)
                    \/ l \in job[j].dropped /\ (l > v.from \/ l > LogCap)
=============================================================================
