---------------------------- MODULE ComposeProofs ----------------------------
(***************************************************************************)
(* Theorems about Compose: types, job log, backups, image references.      *)
(***************************************************************************)
EXTENDS Compose, TLAPS, WellFoundedInduction, SequenceTheorems

-----------------------------------------------------------------------------
(* The invariant.                                                          *)

JobRec == [st: {"none", "queued", "running", "success", "failed"},
           logs: Seq(Nat), seq: Nat, ch: Seq(Nat), closed: BOOLEAN,
           dropped: SUBSET Nat]

ReaderRec == [pc: {"out", "replay", "live", "done", "gone"}, job: Job \cup {0},
              todo: Seq(Nat), from: Nat, seen: SUBSET Nat, took: Seq(Nat),
              left: BOOLEAN]

\* A job without a status is as new; what a handler streams is a job, and its
\* channel is closed when the client is told so.
JobOK(j) ==
    /\ Len(job[j].logs) <= LogCap /\ Len(job[j].ch) <= ChanCap
    /\ job[j].closed <=> job[j].st \in Terminal
    /\ job[j].st = "none" => job[j] = NoJob

ReaderOK(r) ==
    /\ reader[r].pc # "out" =>
         reader[r].job \in Job /\ job[reader[r].job].st # "none"
    /\ reader[r].pc = "done" => job[reader[r].job].closed

LogOK ==
    /\ job \in [Job -> JobRec] /\ reader \in [Reader -> ReaderRec]
    /\ \A j \in Job : JobOK(j)
    /\ \A r \in Reader : ReaderOK(r)

DepPc == {"idle", "copy", "fill", "read", "cut", "write", "up", "wait",
          "failed", "done"}

\* The records that hold contents are records, whatever the contents.
DepShape == dep = [pc |-> dep.pc, job |-> dep.job, tag |-> dep.tag,
                   data |-> dep.data, at |-> dep.at, next |-> dep.next]
ChildShape == child = [pc |-> child.pc, image |-> child.image, left |-> child.left]

\* A deploy's job runs; compose and the scanners work while it waits.
DeployOK ==
    /\ DepShape /\ dep.pc \in DepPc
    /\ dep.pc # "idle" => dep.job \in Job /\ job[dep.job].st = "running"
    /\ ChildShape /\ child.pc \in {"none", "starting", "running", "ok", "error"}
    /\ child.pc # "none" => dep.pc = "wait"
    /\ pipe \in [Pipe -> Seq({"line", "long"})]
    /\ scan \in [Pipe -> {"off", "on", "eof", "gaveup"}]
    /\ \A p \in Pipe : /\ Len(pipe[p]) <= PipeCap
                       /\ scan[p] = "on" => dep.pc = "wait"

ClockOK == now \in Second /\ DOMAIN backups = Second

Types == LogOK /\ DeployOK /\ ClockOK

USE DEF Go

LEMMA TypesEnough == Types => TypeOK
BY DEF Types, LogOK, DeployOK, ClockOK, TypeOK, JobLogTypeOK, JobOK, ReaderOK,
   JobRec, ReaderRec, DepPc, Terminal

LEMMA NoJobType == NoJob \in JobRec /\ NoJob.st = "none"
BY DEF NoJob, JobRec

LEMMA NoReaderType == NoReader \in ReaderRec /\ NoReader.pc = "out"
BY DEF NoReader, ReaderRec

LEMMA NoJobOK ==
    /\ NoJob.logs = <<>> /\ NoJob.ch = <<>> /\ NoJob.seq = 0 /\ NoJob.dropped = {}
    /\ Len(NoJob.logs) <= LogCap /\ Len(NoJob.ch) <= ChanCap
    /\ NoJob.closed = FALSE /\ NoJob.st \notin Terminal
<1>1. /\ NoJob.logs = <<>> /\ NoJob.ch = <<>> /\ NoJob.seq = 0
      /\ NoJob.dropped = {} /\ NoJob.closed = FALSE
  BY DEF NoJob
<1>2. Len(NoJob.logs) = 0 /\ Len(NoJob.ch) = 0
  BY <1>1
<1>3. NoJob.st \notin Terminal
  BY NoJobType DEF Terminal
<1> QED BY <1>1, <1>2, <1>3, JobLogAssumption

\* A process that starts has no jobs and no handlers.
LEMMA FreshJobs ==
    ASSUME job = [j \in Job |-> NoJob], reader = [r \in Reader |-> NoReader]
    PROVE  LogOK
<1>1. /\ \A j \in Job : job[j] = NoJob
      /\ \A r \in Reader : reader[r] = NoReader
  OBVIOUS
<1>2. \A j \in Job : JobOK(j)
  BY <1>1, NoJobOK DEF JobOK
<1>3. \A r \in Reader : ReaderOK(r)
  BY <1>1, NoReaderType DEF ReaderOK
<1> QED BY <1>2, <1>3, NoJobType, NoReaderType DEF LogOK

LEMMA FreshLog ==
    ASSUME job' = [j \in Job |-> NoJob], reader' = [r \in Reader |-> NoReader]
    PROVE  LogOK'
<1>1. /\ \A j \in Job : job'[j] = NoJob
      /\ \A r \in Reader : reader'[r] = NoReader
  OBVIOUS
<1>2. \A j \in Job : JobOK(j)'
  BY <1>1, NoJobOK DEF JobOK
<1>3. \A r \in Reader : ReaderOK(r)'
  BY <1>1, NoReaderType DEF ReaderOK
<1> QED BY <1>2, <1>3, NoJobType, NoReaderType DEF LogOK

LEMMA TypesInit == Init => Types
<1> SUFFICES ASSUME Init PROVE Types
  OBVIOUS
<1>1. LogOK
  BY FreshJobs DEF Init, InitLog
<1>2. DeployOK
  <2>1. <<>> \in Seq({"line", "long"}) /\ Len(<<>>) = 0
    OBVIOUS
  <2> QED BY <2>1, ComposeAssumption
          DEF Init, DeployOK, DepShape, ChildShape, NoDep, NoChild, DepPc
<1>3. ClockOK
  BY ComposeAssumption DEF Init, ClockOK, Second
<1> QED BY <1>1, <1>2, <1>3 DEF Types

-----------------------------------------------------------------------------
(* The log's steps.                                                        *)

\* One job is replaced by one that is as sound and no less far.
LEMMA JobStep ==
    ASSUME LogOK, NEW j \in Job, NEW o \in JobRec,
           job' = [job EXCEPT ![j] = o], UNCHANGED reader,
           Len(o.logs) <= LogCap, Len(o.ch) <= ChanCap,
           o.closed <=> o.st \in Terminal,
           o.st # "none",
           job[j].closed => o.closed
    PROVE  LogOK'
<1>1. job' \in [Job -> JobRec] /\ job'[j] = o /\ \A i \in Job \ {j} : job'[i] = job[i]
  BY DEF LogOK
<1>2. \A i \in Job : JobOK(i)'
  BY <1>1 DEF LogOK, JobOK
<1>3. ASSUME NEW r \in Reader PROVE ReaderOK(r)'
  BY <1>1 DEF LogOK, ReaderOK
<1> QED BY <1>1, <1>2, <1>3 DEF LogOK

LEMMA NewJobLog ==
    ASSUME LogOK, NEW j \in Job, job[j].st = "none", NewJob(j), UNCHANGED reader
    PROVE  LogOK' /\ job'[j].st = "running" /\ \A i \in Job \ {j} : job'[i] = job[i]
<1>1. PICK o : o = [NoJob EXCEPT !.st = "running"]
  OBVIOUS
<1>2. o \in JobRec /\ o.st = "running" /\ o.logs = <<>> /\ o.ch = <<>> /\ o.closed = FALSE
  BY <1>1, NoJobType DEF NoJob, JobRec
<1>3. Len(o.logs) = 0 /\ Len(o.ch) = 0
  BY <1>2
<1>4. job' = [job EXCEPT ![j] = o]
  BY <1>1 DEF NewJob
<1>5. job[j].closed = FALSE
  BY DEF LogOK, JobOK, NoJob
<1>6. LogOK'
  <2>1. Len(o.logs) <= LogCap /\ Len(o.ch) <= ChanCap
    BY <1>3, JobLogAssumption
  <2>2. (o.closed <=> o.st \in Terminal) /\ o.st # "none"
    BY <1>2 DEF Terminal
  <2>3. job[j].closed => o.closed
    BY <1>5
  <2> QED BY <1>2, <1>4, <2>1, <2>2, <2>3, JobStep
<1> QED BY <1>2, <1>4, <1>6 DEF LogOK

\* AppendLog adds a line to an open channel or drops it, and keeps the status.
LEMMA AppendLogLog ==
    ASSUME LogOK, NEW j \in Job, job[j].st = "running", AppendLog(j), UNCHANGED reader
    PROVE  LogOK' /\ job'[j].st = "running" /\ \A i \in Job \ {j} : job'[i] = job[i]
<1> DEFINE line == job[j].seq + 1
           room == ~job[j].closed /\ Len(job[j].ch) < ChanCap
<1>1. PICK o : o = [job[j] EXCEPT !.seq = line,
                      !.logs = IF Len(@) < LogCap THEN Append(@, line) ELSE @,
                      !.ch = IF room THEN Append(@, line) ELSE @,
                      !.dropped = IF room THEN @ ELSE @ \cup {line}]
  OBVIOUS
<1>2. job' = [job EXCEPT ![j] = o]
  BY <1>1 DEF AppendLog
<1>3. job[j] \in JobRec
  BY DEF LogOK
<1>4. PICK lg \in Seq(Nat), c \in Seq(Nat) : lg = job[j].logs /\ c = job[j].ch
  BY <1>3 DEF JobRec
<1>5. line \in Nat
  BY <1>3 DEF JobRec
<1>6. /\ Append(lg, line) \in Seq(Nat) /\ Len(Append(lg, line)) = Len(lg) + 1
      /\ Append(c, line) \in Seq(Nat) /\ Len(Append(c, line)) = Len(c) + 1
      /\ Len(lg) \in Nat /\ Len(c) \in Nat
  BY <1>5
<1>7. Len(lg) <= LogCap /\ Len(c) <= ChanCap
  BY <1>4 DEF LogOK, JobOK
<1>8. PICK lg2 \in Seq(Nat) : /\ lg2 = IF Len(lg) < LogCap THEN Append(lg, line) ELSE lg
                              /\ Len(lg2) <= LogCap
  <2>1. CASE Len(lg) < LogCap
    <3>1. Len(Append(lg, line)) <= LogCap
      BY <1>6, <2>1, JobLogAssumption
    <3> QED BY <1>6, <2>1, <3>1
  <2>2. CASE ~(Len(lg) < LogCap)
    BY <1>7, <2>2
  <2> QED BY <2>1, <2>2
<1>9. PICK c2 \in Seq(Nat) : /\ c2 = IF room THEN Append(c, line) ELSE c
                             /\ Len(c2) <= ChanCap
  <2>1. CASE room
    <3>1. Len(c) < ChanCap
      BY <1>4, <2>1
    <3>2. Len(Append(c, line)) <= ChanCap
      BY <1>6, <3>1, JobLogAssumption
    <3> QED BY <1>6, <2>1, <3>2
  <2>2. CASE ~room
    BY <1>7, <2>2
  <2> QED BY <2>1, <2>2
<1>10. PICK d2 \in SUBSET Nat : d2 = IF room THEN job[j].dropped ELSE job[j].dropped \cup {line}
  BY <1>3, <1>5 DEF JobRec
<1>11. o = [job[j] EXCEPT !.seq = line, !.logs = lg2, !.ch = c2, !.dropped = d2]
  BY <1>1, <1>4, <1>8, <1>9, <1>10
<1>12. /\ o \in JobRec /\ o.logs = lg2 /\ o.ch = c2
       /\ o.st = job[j].st /\ o.closed = job[j].closed
  BY <1>3, <1>5, <1>11 DEF JobRec
<1>13. job[j].closed = FALSE
  BY <1>3 DEF LogOK, JobOK, Terminal, JobRec
<1>14. LogOK'
  BY <1>2, <1>8, <1>9, <1>12, <1>13, JobStep DEF Terminal
<1> QED BY <1>2, <1>12, <1>14 DEF LogOK

LEMMA TransitionLog ==
    ASSUME LogOK, NEW j \in Job, job[j].st = "running", NEW st \in Terminal,
           Transition(j, st), UNCHANGED reader
    PROVE  LogOK'
<1>1. PICK o : o = [job[j] EXCEPT !.st = st, !.closed = TRUE]
  OBVIOUS
<1>2. job[j] \in JobRec
  BY DEF LogOK
<1>3. /\ o \in JobRec /\ o.st = st /\ o.closed = TRUE
      /\ o.logs = job[j].logs /\ o.ch = job[j].ch
  BY <1>1, <1>2 DEF JobRec, Terminal
<1>4. job' = [job EXCEPT ![j] = o]
  BY <1>1 DEF Transition, Terminal
<1>5. Len(o.logs) <= LogCap /\ Len(o.ch) <= ChanCap
  BY <1>3 DEF LogOK, JobOK
<1> QED BY <1>3, <1>4, <1>5, JobStep DEF Terminal

\* A handler's record is replaced, the jobs keep their status.
LEMMA ReaderMoves ==
    ASSUME LogOK, NEW r \in Reader, NEW v \in ReaderRec,
           reader' = [reader EXCEPT ![r] = v],
           job' \in [Job -> JobRec], \A j \in Job : JobOK(j)',
           \A j \in Job : job'[j].st = job[j].st /\ job'[j].closed = job[j].closed,
           v.pc # "out" => v.job \in Job /\ job[v.job].st # "none",
           v.pc = "done" => job[v.job].closed
    PROVE  LogOK'
<1>1. reader' \in [Reader -> ReaderRec]
  BY DEF LogOK
<1>2. reader'[r] = v /\ \A q \in Reader \ {r} : reader'[q] = reader[q]
  BY DEF LogOK
<1>3. ASSUME NEW q \in Reader PROVE ReaderOK(q)'
  <2>1. CASE q = r
    BY <1>2, <2>1, NoReaderType DEF ReaderOK, ReaderRec
  <2>2. CASE q # r
    BY <1>2, <2>2 DEF LogOK, ReaderOK
  <2> QED BY <2>1, <2>2
<1> QED BY <1>1, <1>3 DEF LogOK

\* What a handler may do: w is its record afterwards.
Moves(r, w) ==      \* it goes on in its replay, ends it, learns, or leaves
    LET v == reader[r]
    IN  /\ UNCHANGED job /\ v.pc \in {"replay", "live"}
        /\ w.job = v.job /\ w.took = v.took /\ w.from = v.from
        /\ \/ w.pc = v.pc /\ w.todo = v.todo /\ w.seen = v.seen
           \/ v.pc = "replay" /\ v.todo = <<>> /\ w.pc = "live" /\ w.todo = <<>>
              /\ w.seen = v.seen
           \/ v.pc = "replay" /\ v.todo # <<>> /\ w.pc = "replay"
              /\ w.todo = Tail(v.todo) /\ w.seen = v.seen \cup {Head(v.todo)}
           \/ w.pc = "gone"

Comes(w, j) ==
    /\ UNCHANGED job /\ job[j].st # "none"
    /\ w.pc = "replay" /\ w.job = j /\ w.took = <<>> /\ w.seen = {}
    /\ w.todo = job[j].logs /\ w.from = job[j].seq

Takes(r, w, o) ==   \* a line from the channel of its job, which is then o
    LET v == reader[r]
        b == job[v.job]
    IN  /\ v.pc = "live" /\ b.ch # <<>> /\ job' = [job EXCEPT ![v.job] = o]
        /\ o.st = b.st /\ o.closed = b.closed /\ o.logs = b.logs /\ o.seq = b.seq
        /\ o.dropped = b.dropped /\ o.ch = Tail(b.ch)
        /\ w.job = v.job /\ w.took = Append(v.took, Head(b.ch))
        /\ w.from = v.from /\ w.seen = v.seen /\ w.todo = v.todo
        /\ w.pc \in {"live", "gone"}

Ends(r, w) ==
    LET v == reader[r]
    IN  /\ UNCHANGED job /\ v.pc = "live" /\ w.pc = "done"
        /\ job[v.job].ch = <<>> /\ job[v.job].closed
        /\ w.job = v.job /\ w.took = v.took /\ w.from = v.from
        /\ w.seen = v.seen /\ w.todo = v.todo

LEMMA ReaderSays ==
    ASSUME LogOK, NEW r \in Reader,
           ReaderStep(r) \/ Leave(r) \/ \E j \in Job : Attach(r, j)
    PROVE  \E w \in ReaderRec :
              /\ reader' = [reader EXCEPT ![r] = w]
              /\ \/ Moves(r, w) \/ Ends(r, w)
                 \/ reader[r].pc = "out" /\ \E j \in Job : Comes(w, j)
                 \/ \E o \in JobRec : Takes(r, w, o)
<1>1. PICK v \in ReaderRec : v = reader[r]
  BY DEF LogOK
<1>2. PICK q \in Seq(Nat), t \in Seq(Nat) : q = v.todo /\ t = v.took
  BY DEF ReaderRec
<1>3. q # <<>> => Tail(q) \in Seq(Nat) /\ Head(q) \in Nat
  OBVIOUS
<1>4. CASE Leave(r)
  <2>1. PICK w : w = [v EXCEPT !.left = TRUE]
    OBVIOUS
  <2>2. /\ w \in ReaderRec /\ w.pc = v.pc /\ w.job = v.job /\ w.todo = v.todo
        /\ w.took = v.took /\ w.from = v.from /\ w.seen = v.seen
    BY <2>1 DEF ReaderRec
  <2>3. /\ reader' = [reader EXCEPT ![r] = w] /\ UNCHANGED job
        /\ v.pc \in {"replay", "live"}
    BY <1>1, <1>4, <2>1 DEF Leave, SetReader
  <2> QED BY <1>1, <2>2, <2>3 DEF Moves
<1>5. CASE Replay(r)
  <2>1. UNCHANGED job /\ v.pc = "replay"
    BY <1>1, <1>5 DEF Replay
  <2>2. PICK w : /\ reader' = [reader EXCEPT ![r] = w]
                 /\ \/ q = <<>> /\ w = [v EXCEPT !.pc = "live"]
                    \/ q # <<>> /\ w = [v EXCEPT !.todo = Tail(q),
                                                 !.seen = v.seen \cup {Head(q)}]
                    \/ w = [v EXCEPT !.pc = "gone", !.todo = <<>>]
    <3>1. \/ q = <<>> /\ SetReader(r, [v EXCEPT !.pc = "live"])
          \/ q # <<>> /\ SetReader(r, [v EXCEPT !.todo = Tail(q),
                                               !.seen = v.seen \cup {Head(q)}])
          \/ WriteFails(r)
      BY <1>1, <1>2, <1>5 DEF Replay
    <3>2. WriteFails(r) => SetReader(r, [v EXCEPT !.pc = "gone", !.todo = <<>>])
      BY <1>1 DEF WriteFails
    <3> QED BY <3>1, <3>2 DEF SetReader
  <2>3. CASE q = <<>> /\ w = [v EXCEPT !.pc = "live"]
    <3>1. /\ w \in ReaderRec /\ w.pc = "live" /\ w.job = v.job /\ w.todo = v.todo
          /\ w.took = v.took /\ w.from = v.from /\ w.seen = v.seen
      BY <2>3 DEF ReaderRec
    <3>2. Moves(r, w)
      BY <1>1, <1>2, <2>1, <2>3, <3>1 DEF Moves
    <3> QED BY <2>2, <3>1, <3>2
  <2>4. CASE q # <<>> /\ w = [v EXCEPT !.todo = Tail(q), !.seen = v.seen \cup {Head(q)}]
    <3>1. v.seen \cup {Head(q)} \in SUBSET Nat
      BY <1>3, <2>4 DEF ReaderRec
    <3>2. w \in ReaderRec
      BY <1>3, <2>4, <3>1 DEF ReaderRec
    <3>3. /\ w.pc = v.pc /\ w.job = v.job /\ w.took = v.took /\ w.from = v.from
          /\ w.todo = Tail(q) /\ w.seen = v.seen \cup {Head(q)}
      BY <2>4 DEF ReaderRec
    <3>4. Moves(r, w)
      BY <1>1, <1>2, <2>1, <2>4, <3>3 DEF Moves
    <3> QED BY <2>2, <3>2, <3>4
  <2>5. CASE w = [v EXCEPT !.pc = "gone", !.todo = <<>>]
    <3>1. <<>> \in Seq(Nat)
      OBVIOUS
    <3>2. /\ w \in ReaderRec /\ w.pc = "gone" /\ w.job = v.job
          /\ w.took = v.took /\ w.from = v.from
      BY <2>5, <3>1 DEF ReaderRec
    <3> QED BY <1>1, <2>1, <2>2, <3>2 DEF Moves
  <2> QED BY <2>2, <2>3, <2>4, <2>5
<1>6. ASSUME NEW j \in Job, Attach(r, j)
      PROVE  \E w \in ReaderRec :
                /\ reader' = [reader EXCEPT ![r] = w]
                /\ reader[r].pc = "out" /\ Comes(w, j)
  <2>1. PICK w : w = [NoReader EXCEPT !.pc = "replay", !.job = j,
                                      !.todo = job[j].logs, !.from = job[j].seq]
    OBVIOUS
  <2>2. job[j].logs \in Seq(Nat) /\ job[j].seq \in Nat
    BY DEF LogOK, JobRec
  <2>3. w \in ReaderRec
    BY <2>1, <2>2, NoReaderType DEF ReaderRec
  <2>4. /\ w.pc = "replay" /\ w.job = j /\ w.took = <<>> /\ w.seen = {}
        /\ w.todo = job[j].logs /\ w.from = job[j].seq
    BY <2>1 DEF NoReader
  <2>5. /\ reader' = [reader EXCEPT ![r] = w] /\ UNCHANGED job
        /\ job[j].st # "none" /\ reader[r].pc = "out"
    BY <1>6, <2>1 DEF Attach, SetReader
  <2> QED BY <2>3, <2>4, <2>5 DEF Comes
<1>7. CASE Receive(r)
  <2>1. v.pc = "live" /\ v.job \in Job /\ job[v.job] \in JobRec
    BY <1>1, <1>7 DEF Receive, LogOK, ReaderOK
  <2>2. PICK b \in JobRec : b = job[v.job]
    BY <2>1
  <2>3. PICK c \in Seq(Nat) : c = b.ch
    BY DEF JobRec
  <2>4. CASE c # <<>>
    <3>1. Tail(c) \in Seq(Nat) /\ Head(c) \in Nat
      BY <2>4
    <3>2. Append(t, Head(c)) \in Seq(Nat)
      BY <3>1
    <3>3. PICK o : o = [b EXCEPT !.ch = Tail(c)]
      OBVIOUS
    <3>4. /\ o \in JobRec /\ o.ch = Tail(c) /\ o.logs = b.logs
          /\ o.st = b.st /\ o.closed = b.closed /\ o.seq = b.seq
          /\ o.dropped = b.dropped
      BY <3>1, <3>3 DEF JobRec
    <3>5. job' = [job EXCEPT ![v.job] = o]
      BY <1>1, <1>7, <2>2, <2>3, <2>4, <3>3 DEF Receive
    <3>6. PICK w : /\ reader' = [reader EXCEPT ![r] = w]
                   /\ \/ w = [v EXCEPT !.took = Append(t, Head(c))]
                      \/ w = [v EXCEPT !.took = Append(t, Head(c)), !.pc = "gone"]
      BY <1>1, <1>2, <1>7, <2>2, <2>3, <2>4 DEF Receive, SetReader
    <3>7. /\ w \in ReaderRec /\ w.job = v.job /\ w.pc \in {"live", "gone"}
          /\ w.took = Append(t, Head(c)) /\ w.from = v.from /\ w.seen = v.seen
          /\ w.todo = v.todo
      BY <2>1, <3>2, <3>6 DEF ReaderRec
    <3>8. Takes(r, w, o)
      BY <1>1, <1>2, <2>1, <2>2, <2>3, <2>4, <3>4, <3>5, <3>7 DEF Takes
    <3> QED BY <3>4, <3>6, <3>7, <3>8
  <2>5. CASE c = <<>>
    <3>1. PICK w : w = [v EXCEPT !.pc = "done"]
      OBVIOUS
    <3>2. /\ w \in ReaderRec /\ w.job = v.job /\ w.pc = "done" /\ w.from = v.from
          /\ w.took = v.took /\ w.seen = v.seen /\ w.todo = v.todo
      BY <3>1 DEF ReaderRec
    <3>3. reader' = [reader EXCEPT ![r] = w] /\ UNCHANGED job /\ b.closed
      BY <1>1, <1>7, <2>2, <2>3, <2>5, <3>1 DEF Receive, SetReader
    <3> QED BY <1>1, <2>1, <2>2, <2>3, <2>5, <3>2, <3>3 DEF Ends
  <2> QED BY <2>4, <2>5
<1> QED BY <1>4, <1>5, <1>6, <1>7 DEF ReaderStep

LEMMA ReaderLog ==
    ASSUME LogOK, NEW r \in Reader,
           ReaderStep(r) \/ Leave(r) \/ \E j \in Job : Attach(r, j)
    PROVE  LogOK' /\ \A j \in Job : job'[j].st = job[j].st
<1>1. PICK w \in ReaderRec :
        /\ reader' = [reader EXCEPT ![r] = w]
        /\ \/ Moves(r, w) \/ Ends(r, w)
           \/ reader[r].pc = "out" /\ \E j \in Job : Comes(w, j)
           \/ \E o \in JobRec : Takes(r, w, o)
  BY ReaderSays
<1>2. PICK v \in ReaderRec : v = reader[r]
  BY DEF LogOK
<1>3. v.pc # "out" => v.job \in Job /\ job[v.job].st # "none"
  BY <1>2 DEF LogOK, ReaderOK
<1>4. CASE UNCHANGED job
  <2>1. /\ job' \in [Job -> JobRec] /\ \A j \in Job : JobOK(j)'
        /\ \A j \in Job : job'[j].st = job[j].st /\ job'[j].closed = job[j].closed
    BY <1>4 DEF LogOK, JobOK
  <2>2. /\ w.pc # "out" => w.job \in Job /\ job[w.job].st # "none"
        /\ w.pc = "done" => job[w.job].closed
    <3>1. CASE Moves(r, w)
      BY <1>2, <1>3, <3>1 DEF Moves
    <3>2. CASE Ends(r, w)
      BY <1>2, <1>3, <3>2 DEF Ends
    <3>3. CASE \E j \in Job : Comes(w, j)
      BY <3>3 DEF Comes
    <3>4. ASSUME NEW o \in JobRec, Takes(r, w, o)
          PROVE  /\ w.pc # "out" /\ w.pc # "done"
                 /\ w.job \in Job /\ job[w.job].st # "none"
      BY <1>2, <1>3, <3>4 DEF Takes
    <3> QED BY <1>1, <3>1, <3>2, <3>3, <3>4
  <2> QED BY <1>1, <2>1, <2>2, ReaderMoves
<1>5. ASSUME NEW o \in JobRec, Takes(r, w, o)
      PROVE  LogOK' /\ \A j \in Job : job'[j].st = job[j].st
  <2>1. v.job \in Job /\ job[v.job].st # "none" /\ job \in [Job -> JobRec]
    BY <1>2, <1>3, <1>5 DEF Takes, LogOK
  <2>2. /\ job' \in [Job -> JobRec] /\ job'[v.job] = o
        /\ \A j \in Job \ {v.job} : job'[j] = job[j]
    BY <1>2, <1>5, <2>1 DEF Takes
  <2>3. PICK c \in Seq(Nat) : c = job[v.job].ch
    BY <2>1 DEF JobRec
  <2>4. Len(o.ch) <= ChanCap
    <3>1. c # <<>> /\ o.ch = Tail(c)
      BY <1>2, <1>5, <2>3 DEF Takes
    <3>2. Len(Tail(c)) = Len(c) - 1 /\ Len(c) \in Nat
      BY <3>1
    <3>3. Len(c) <= ChanCap
      BY <2>1, <2>3 DEF LogOK, JobOK
    <3> QED BY <3>1, <3>2, <3>3, JobLogAssumption
  <2>5. /\ o.st = job[v.job].st /\ o.closed = job[v.job].closed
        /\ o.logs = job[v.job].logs
    BY <1>2, <1>5 DEF Takes
  <2>6. ASSUME NEW j \in Job PROVE JobOK(j)'
    <3>1. CASE j = v.job
      BY <2>1, <2>2, <2>4, <2>5, <3>1 DEF LogOK, JobOK
    <3>2. CASE j # v.job
      BY <2>2, <3>2 DEF LogOK, JobOK
    <3> QED BY <3>1, <3>2
  <2>7. \A j \in Job : job'[j].st = job[j].st /\ job'[j].closed = job[j].closed
    BY <2>2, <2>5
  <2>8. w.pc # "out" /\ w.pc # "done" /\ w.job \in Job /\ job[w.job].st # "none"
    BY <1>2, <1>5, <2>1 DEF Takes
  <2> QED BY <1>1, <2>2, <2>6, <2>7, <2>8, ReaderMoves
<1>6. ASSUME ~UNCHANGED job PROVE \E o \in JobRec : Takes(r, w, o)
  BY <1>1, <1>6 DEF Moves, Ends, Comes
<1> QED BY <1>4, <1>5, <1>6 DEF LogOK

-----------------------------------------------------------------------------
(* The types.                                                              *)

\* What a step of the system does to the log.
LogStep ==
    \/ UNCHANGED logVars
    \/ UNCHANGED reader /\ \E j \in Job : job[j].st = "none" /\ NewJob(j)
    \/ UNCHANGED reader /\ \E j \in Job : job[j].st = "running" /\ AppendLog(j)
    \/ UNCHANGED reader /\ \E j \in Job, st \in Terminal :
                              job[j].st = "running" /\ Transition(j, st)
    \/ \E r \in Reader : ReaderStep(r) \/ Leave(r) \/ \E j \in Job : Attach(r, j)
    \/ job' = [j \in Job |-> NoJob] /\ reader' = [r \in Reader |-> NoReader]

LEMMA LogStepKeeps == LogOK /\ LogStep => LogOK'
<1> SUFFICES ASSUME LogOK, LogStep PROVE LogOK'
  OBVIOUS
<1>1. CASE UNCHANGED logVars
  BY <1>1 DEF LogOK, JobOK, ReaderOK, logVars
<1>2. CASE UNCHANGED reader /\ \E j \in Job : job[j].st = "none" /\ NewJob(j)
  BY <1>2, NewJobLog
<1>3. CASE UNCHANGED reader /\ \E j \in Job : job[j].st = "running" /\ AppendLog(j)
  BY <1>3, AppendLogLog
<1>4. CASE UNCHANGED reader /\ \E j \in Job, st \in Terminal :
              job[j].st = "running" /\ Transition(j, st)
  BY <1>4, TransitionLog
<1>5. CASE \E r \in Reader : ReaderStep(r) \/ Leave(r) \/ \E j \in Job : Attach(r, j)
  BY <1>5, ReaderLog
<1>6. CASE job' = [j \in Job |-> NoJob] /\ reader' = [r \in Reader |-> NoReader]
  BY <1>6, FreshLog
<1> QED BY <1>1, <1>2, <1>3, <1>4, <1>5, <1>6 DEF LogStep

LEMMA LogSays == Types /\ [Next]_vars => LogStep
<1> SUFFICES ASSUME Types, [Next]_vars PROVE LogStep
  OBVIOUS
<1> USE DEF LogStep
<1>1. CASE UNCHANGED vars
  BY <1>1 DEF vars
<1>2. CASE Executor
  <2>1. CASE Skip \/ Copy \/ Fill \/ Patch \/ CutFile \/ WriteFile \/ Up \/ Waited
    BY <2>1 DEF Skip, Copy, Fill, Patch, CutFile, WriteFile, Up, Waited
  <2>2. ASSUME NEW j \in Job, Begin(j) PROVE LogStep
    BY <2>2 DEF Begin, NextJob
  <2>3. CASE End
    <3>1. dep.job \in Job /\ job[dep.job].st = "running" /\ UNCHANGED reader
      BY <2>3 DEF End, Types, DeployOK
    <3>2. \E st \in Terminal : Transition(dep.job, st)
      BY <2>3 DEF End, Terminal
    <3> QED BY <3>1, <3>2
  <2> QED BY <1>2, <2>1, <2>2, <2>3 DEF Executor
<1>3. CASE ChildStep \/ Learn \/ Pass
  BY <1>3 DEF ChildStep, ComposeReads, Exit, OutputLine, Learn, Pass
<1>4. ASSUME NEW p \in Pipe, Scan(p) PROVE LogStep
  <2>1. dep.job \in Job /\ job[dep.job].st = "running" /\ UNCHANGED reader
    BY <1>4 DEF Scan, Types, DeployOK
  <2>2. UNCHANGED job \/ AppendLog(dep.job)
    BY <1>4 DEF Scan
  <2> QED BY <2>1, <2>2 DEF logVars
<1>5. ASSUME NEW r \in Reader, Watch(r) \/ Browse(r) PROVE LogStep
  BY <1>5 DEF Watch, Browse
<1>6. CASE Announce \/ Edit \/ OutputLong \/ CallFails
  BY <1>6 DEF Announce, Edit, OutputLong, CallFails
<1>7. CASE Crash
  BY <1>7 DEF Crash
<1> QED BY <1>1, <1>2, <1>3, <1>4, <1>5, <1>6, <1>7 DEF Next

\* A job that runs goes on, unless its deploy ends it or the process dies.
LEMMA StillRuns ==
    ASSUME Types, NEW j \in Job, job[j].st = "running",
           \/ UNCHANGED job
           \/ \E i \in Job : job[i].st = "running" /\ AppendLog(i) /\ UNCHANGED reader
           \/ \E r \in Reader : ReaderStep(r) \/ Leave(r) \/ \E i \in Job : Attach(r, i)
    PROVE  job'[j].st = "running"
<1>1. CASE UNCHANGED job
  BY <1>1
<1>2. CASE \E i \in Job : job[i].st = "running" /\ AppendLog(i) /\ UNCHANGED reader
  BY <1>2, AppendLogLog DEF Types
<1>3. CASE \E r \in Reader : ReaderStep(r) \/ Leave(r) \/ \E i \in Job : Attach(r, i)
  BY <1>3, ReaderLog DEF Types
<1> QED BY <1>1, <1>2, <1>3

\* The deploy goes to another of its steps; compose and the pipes stay.
LEMMA DepGoes ==
    ASSUME Types, NEW l \in DepPc \ {"idle"}, dep.pc \notin {"idle", "wait"},
           dep'.pc = l, dep'.job = dep.job, DepShape', UNCHANGED <<upVars, job>>
    PROVE  DeployOK'
<1>1. /\ ChildShape' /\ child' = child /\ scan' = scan /\ pipe' = pipe
      /\ job' = job
  BY DEF Types, DeployOK, ChildShape, upVars
<1>2. child.pc = "none" /\ \A p \in Pipe : scan[p] # "on"
  BY DEF Types, DeployOK
<1> QED BY <1>1, <1>2 DEF Types, DeployOK

\* Nothing of the deploy moves but its job's log.
LEMMA DepStays ==
    ASSUME Types, UNCHANGED <<dep, upVars>>,
           dep.pc # "idle" => job'[dep.job].st = "running"
    PROVE  DeployOK'
BY DEF Types, DeployOK, DepShape, ChildShape, upVars

LEMMA DeployNext == Types /\ [Next]_vars => DeployOK'
<1> SUFFICES ASSUME Types, [Next]_vars PROVE DeployOK'
  OBVIOUS
<1> USE DEF DepPc
<1>1. CASE UNCHANGED vars
  BY <1>1, DepStays DEF vars, upVars, logVars, Types, DeployOK
<1>2. CASE Skip \/ Learn \/ Pass \/ Announce \/ Edit
  BY <1>2, DepStays
     DEF Skip, Learn, Pass, Announce, Edit, logVars, Types, DeployOK
<1>3. ASSUME NEW j \in Job, Begin(j) PROVE DeployOK'
  <2>1. /\ dep.pc = "idle" /\ UNCHANGED <<reader, upVars>>
        /\ job[j].st = "none" /\ NewJob(j)
        /\ dep' = [NoDep EXCEPT !.pc = "copy", !.job = j, !.data = file,
                                !.tag = TagOf[Head(event)], !.at = now]
    BY <1>3 DEF Begin, NextJob
  <2>2. job'[j].st = "running"
    BY <2>1, NewJobLog DEF Types
  <2>3. dep'.pc = "copy" /\ dep'.job = j /\ DepShape'
    BY <2>1 DEF NoDep, DepShape
  <2>4. child.pc = "none" /\ \A p \in Pipe : scan[p] # "on"
    BY <2>1 DEF Types, DeployOK
  <2> QED BY <2>1, <2>2, <2>3, <2>4 DEF Types, DeployOK, ChildShape, upVars
<1>4. CASE Copy \/ Fill \/ CutFile \/ WriteFile \/ CallFails
  <2>1. \E l \in {"fill", "read", "write", "up", "failed"} : dep' = [dep EXCEPT !.pc = l]
    BY <1>4 DEF Copy, Fill, CutFile, WriteFile, CallFails
  <2>2. UNCHANGED <<upVars, job>> /\ dep.pc \notin {"idle", "wait"}
    BY <1>4 DEF Copy, Fill, CutFile, WriteFile, CallFails, logVars
  <2>3. DepShape' /\ dep'.job = dep.job /\ dep'.pc \in {"fill", "read", "write", "up", "failed"}
    BY <2>1 DEF Types, DeployOK, DepShape
  <2> QED BY <2>2, <2>3, DepGoes
<1>5. CASE Patch
  <2>1. \/ \E n : dep' = [dep EXCEPT !.pc = "cut", !.next = n]
        \/ dep' = [dep EXCEPT !.pc = "failed"]
    BY <1>5 DEF Patch
  <2>2. UNCHANGED <<upVars, job>> /\ dep.pc \notin {"idle", "wait"}
    BY <1>5 DEF Patch, logVars
  <2>3. DepShape' /\ dep'.job = dep.job /\ dep'.pc \in {"cut", "failed"}
    BY <2>1 DEF Types, DeployOK, DepShape
  <2> QED BY <2>2, <2>3, DepGoes
<1>6. CASE Up
  <2>1. /\ dep.pc = "up" /\ dep' = [dep EXCEPT !.pc = "wait"] /\ UNCHANGED job
        /\ pipe' = [p \in Pipe |-> <<>>] /\ scan' = [p \in Pipe |-> "on"]
    BY <1>6 DEF Up, logVars
  <2>2. PICK n : child' = [NoChild EXCEPT !.pc = "starting", !.left = n]
    BY <1>6 DEF Up
  <2>3. ChildShape' /\ child'.pc = "starting"
    BY <2>2 DEF NoChild, ChildShape
  <2>4. DepShape' /\ dep'.job = dep.job /\ dep'.pc = "wait"
    BY <2>1 DEF Types, DeployOK, DepShape
  <2>5. <<>> \in Seq({"line", "long"}) /\ Len(<<>>) = 0 /\ 0 <= PipeCap
    BY ComposeAssumption
  <2> QED BY <2>1, <2>3, <2>4, <2>5 DEF Types, DeployOK
<1>7. CASE Waited
  <2>1. /\ dep.pc = "wait" /\ UNCHANGED job
        /\ dep' = [dep EXCEPT !.pc = IF child.pc = "ok" THEN "done" ELSE "failed"]
        /\ pipe' = [p \in Pipe |-> <<>>] /\ scan' = [p \in Pipe |-> "off"]
        /\ child' = NoChild
    BY <1>7 DEF Waited, logVars
  <2>2. ChildShape' /\ child'.pc = "none"
    BY <2>1 DEF NoChild, ChildShape
  <2>3. DepShape' /\ dep'.job = dep.job /\ dep'.pc \in {"done", "failed"}
    BY <2>1 DEF Types, DeployOK, DepShape
  <2>4. <<>> \in Seq({"line", "long"}) /\ Len(<<>>) = 0 /\ 0 <= PipeCap
    BY ComposeAssumption
  <2> QED BY <2>1, <2>2, <2>3, <2>4 DEF Types, DeployOK
<1>8. CASE End
  <2>1. /\ dep' = [NoDep EXCEPT !.job = dep.job] /\ UNCHANGED upVars
        /\ dep.pc \in {"failed", "done"}
    BY <1>8 DEF End
  <2>2. DepShape' /\ dep'.pc = "idle"
    BY <2>1 DEF NoDep, DepShape
  <2>3. child.pc = "none" /\ \A p \in Pipe : scan[p] # "on"
    BY <2>1 DEF Types, DeployOK
  <2> QED BY <2>1, <2>2, <2>3 DEF Types, DeployOK, ChildShape, upVars
<1>9. ASSUME NEW p \in Pipe, Scan(p) PROVE DeployOK'
  <2>1. /\ dep.pc = "wait" /\ dep.job \in Job /\ job[dep.job].st = "running"
        /\ UNCHANGED <<reader, dep, child>>
    BY <1>9 DEF Scan, Types, DeployOK
  <2>2. job'[dep.job].st = "running"
    BY <1>9, <2>1, StillRuns DEF Scan
  <2>3. PICK q \in Seq({"line", "long"}) : q = pipe[p] /\ Len(q) <= PipeCap
    BY DEF Types, DeployOK
  <2>4. q # <<>> => Tail(q) \in Seq({"line", "long"}) /\ Len(Tail(q)) <= PipeCap
    <3>1. q # <<>> => /\ Tail(q) \in Seq({"line", "long"})
                      /\ Len(Tail(q)) = Len(q) - 1 /\ Len(q) \in Nat
      OBVIOUS
    <3> QED BY <2>3, <3>1, ComposeAssumption
  <2>5. /\ pipe' = pipe \/ (q # <<>> /\ pipe' = [pipe EXCEPT ![p] = Tail(q)])
        /\ scan' = scan \/ \E s \in {"eof", "gaveup"} : scan' = [scan EXCEPT ![p] = s]
    BY <1>9, <2>3 DEF Scan
  <2>6. /\ pipe' \in [Pipe -> Seq({"line", "long"})]
        /\ \A i \in Pipe : Len(pipe'[i]) <= PipeCap
    BY <2>4, <2>5 DEF Types, DeployOK
  <2>7. scan' \in [Pipe -> {"off", "on", "eof", "gaveup"}]
    BY <2>5 DEF Types, DeployOK
  <2> QED BY <2>1, <2>2, <2>6, <2>7 DEF Types, DeployOK, DepShape, ChildShape
<1>10. CASE ComposeReads \/ Exit
  <2>1. /\ child.pc \in {"starting", "running"} /\ UNCHANGED <<job, dep, pipe, scan>>
        /\ \/ \E i : child' = [child EXCEPT !.image = i, !.pc = "error"]
           \/ \E i : child' = [child EXCEPT !.image = i, !.pc = "running"]
           \/ child' = [child EXCEPT !.pc = "ok"]
           \/ child' = [child EXCEPT !.pc = "error"]
    BY <1>10 DEF ComposeReads, Exit, logVars
  <2>2. ChildShape' /\ child'.pc \in {"running", "ok", "error"}
    BY <2>1 DEF Types, DeployOK, ChildShape
  <2> QED BY <2>1, <2>2 DEF Types, DeployOK, DepShape
<1>11. ASSUME NEW p \in Pipe, NEW k \in {"line", "long"}, Output(p, k),
              UNCHANGED <<logVars, dep, scan>>
       PROVE  DeployOK'
  <2>1. PICK q \in Seq({"line", "long"}) : q = pipe[p]
    BY DEF Types, DeployOK
  <2>2. /\ Len(q) < PipeCap /\ child.pc = "running"
        /\ pipe' = [pipe EXCEPT ![p] = Append(q, k)]
        /\ \E n : child' = [child EXCEPT !.left = n]
    BY <1>11, <2>1 DEF Output
  <2>3. /\ Append(q, k) \in Seq({"line", "long"}) /\ Len(Append(q, k)) = Len(q) + 1
        /\ Len(q) \in Nat
    OBVIOUS
  <2>4. Len(Append(q, k)) <= PipeCap
    BY <2>2, <2>3, ComposeAssumption
  <2>5. ChildShape' /\ child'.pc = "running"
    BY <2>2 DEF Types, DeployOK, ChildShape
  <2>6. /\ pipe' \in [Pipe -> Seq({"line", "long"})]
        /\ \A i \in Pipe : Len(pipe'[i]) <= PipeCap
    BY <2>2, <2>3, <2>4 DEF Types, DeployOK
  <2> QED BY <1>11, <2>2, <2>5, <2>6 DEF Types, DeployOK, DepShape, logVars
<1>12. CASE OutputLong \/ \E p \in Pipe : OutputLine(p)
  BY <1>11, <1>12 DEF OutputLong, OutputLine
<1>13. ASSUME NEW r \in Reader, Watch(r) \/ Browse(r) PROVE DeployOK'
  <2>1. /\ UNCHANGED <<dep, upVars>>
        /\ ReaderStep(r) \/ Leave(r) \/ \E j \in Job : Attach(r, j)
    BY <1>13 DEF Watch, Browse
  <2>2. dep.pc # "idle" => job'[dep.job].st = "running"
    BY <2>1, StillRuns DEF Types, DeployOK
  <2> QED BY <2>1, <2>2, DepStays
<1>14. CASE Crash
  <2>1. <<>> \in Seq({"line", "long"}) /\ Len(<<>>) = 0 /\ 0 <= PipeCap
    BY ComposeAssumption
  <2>2. /\ dep' = NoDep /\ child' = NoChild /\ pipe' = [p \in Pipe |-> <<>>]
        /\ scan' = [p \in Pipe |-> "off"]
    BY <1>14 DEF Crash
  <2>3. DepShape' /\ dep'.pc = "idle" /\ ChildShape' /\ child'.pc = "none"
    BY <2>2 DEF NoDep, NoChild, DepShape, ChildShape
  <2> QED BY <2>1, <2>2, <2>3 DEF DeployOK
<1> QED BY <1>1, <1>2, <1>3, <1>4, <1>5, <1>6, <1>7, <1>8, <1>9, <1>10, <1>12,
           <1>13, <1>14 DEF Next, Executor, ChildStep

LEMMA ClockNext == Types /\ [Next]_vars => ClockOK'
<1> SUFFICES ASSUME Types, [Next]_vars PROVE ClockOK'
  OBVIOUS
<1> USE DEF Types, ClockOK, fileVars
<1>1. CASE Pass
  BY <1>1, ComposeAssumption DEF Pass, Second
<1>2. CASE Copy \/ Fill
  BY <1>2 DEF Copy, Fill
<1>3. CASE UNCHANGED <<now, backups>>
  BY <1>3
<1>4. ASSUME ~Pass, ~Copy, ~Fill PROVE UNCHANGED <<now, backups>>
  <2>1. CASE UNCHANGED vars
    BY <2>1 DEF vars
  <2>2. CASE Executor
    BY <1>4, <2>2 DEF Executor, Skip, Begin, Patch, CutFile, WriteFile, Up, Waited, End
  <2>3. CASE ChildStep \/ Learn \/ \E p \in Pipe : Scan(p)
    BY <2>3 DEF ChildStep, ComposeReads, Exit, OutputLine, Learn, Scan
  <2>4. CASE \E r \in Reader : Watch(r) \/ Browse(r)
    BY <2>4 DEF Watch, Browse
  <2>5. CASE Announce \/ Edit \/ OutputLong \/ CallFails \/ Crash
    BY <2>5 DEF Announce, Edit, OutputLong, CallFails, Crash
  <2> QED BY <1>4, <2>1, <2>2, <2>3, <2>4, <2>5 DEF Next
<1> QED BY <1>1, <1>2, <1>3, <1>4

LEMMA TypesNext == Types /\ [Next]_vars => Types'
<1> SUFFICES ASSUME Types, [Next]_vars PROVE Types'
  OBVIOUS
<1>1. LogOK'
  BY LogSays, LogStepKeeps DEF Types
<1> QED BY <1>1, DeployNext, ClockNext DEF Types

LEMMA TypesHold == Spec => []Types
<1> QED BY TypesInit, TypesNext, PTL DEF Spec

\* Every value has its type, the logs, channels and pipes stay within their
\* capacity, a deploy's job runs as long as the deploy does (executor.go,
\* handle), and a job's channel is closed when its status is terminal.
THEOREM TypeCorrect == Spec => []TypeOK
<1> QED BY TypesHold, TypesEnough, PTL

-----------------------------------------------------------------------------
(* The lines of a job.                                                     *)

Elems(s) == {s[i] : i \in DOMAIN s}
Increasing(s) == \A i, k \in DOMAIN s : i < k => s[i] < s[k]

LEMMA ElemsAppend ==
    ASSUME NEW s \in Seq(Nat), NEW x \in Nat
    PROVE  /\ Elems(Append(s, x)) = Elems(s) \cup {x}
           /\ Increasing(s) /\ (\A y \in Elems(s) : y < x) => Increasing(Append(s, x))
<1> DEFINE a == Append(s, x)
<1>1. /\ a \in Seq(Nat) /\ DOMAIN s = 1..Len(s) /\ DOMAIN a = 1..(Len(s) + 1)
      /\ a[Len(s) + 1] = x /\ Len(s) \in Nat /\ \A i \in 1..Len(s) : a[i] = s[i]
  OBVIOUS
<1>2. DOMAIN a = DOMAIN s \cup {Len(s) + 1}
  BY <1>1
<1>3. Elems(a) = Elems(s) \cup {x}
  BY <1>1, <1>2 DEF Elems
<1>4. ASSUME Increasing(s), \A y \in Elems(s) : y < x,
             NEW i \in DOMAIN a, NEW k \in DOMAIN a, i < k
      PROVE  a[i] < a[k]
  <2>1. i \in DOMAIN s
    BY <1>1, <1>4
  <2>2. CASE k \in DOMAIN s
    BY <1>1, <1>4, <2>1, <2>2 DEF Increasing
  <2>3. CASE k = Len(s) + 1
    <3>1. s[i] \in Elems(s)
      BY <2>1 DEF Elems
    <3> QED BY <1>1, <1>4, <2>1, <2>3, <3>1
  <2> QED BY <1>2, <2>2, <2>3
<1> QED BY <1>3, <1>4 DEF Increasing

LEMMA ElemsTail ==
    ASSUME NEW s \in Seq(Nat), s # <<>>
    PROVE  /\ Elems(s) = {Head(s)} \cup Elems(Tail(s))
           /\ Increasing(s) => /\ Increasing(Tail(s))
                               /\ \A y \in Elems(Tail(s)) : Head(s) < y
<1> DEFINE t == Tail(s)
<1>1. /\ t \in Seq(Nat) /\ DOMAIN s = 1..Len(s) /\ Len(s) \in Nat /\ Len(s) > 0
      /\ DOMAIN t = 1..(Len(s) - 1) /\ Head(s) = s[1]
      /\ \A i \in 1..(Len(s) - 1) : t[i] = s[i + 1]
  OBVIOUS
<1>2. ASSUME NEW y \in Elems(s) PROVE y \in {Head(s)} \cup Elems(t)
  <2>1. PICK i \in DOMAIN s : y = s[i]
    BY DEF Elems
  <2>2. CASE i = 1
    BY <1>1, <2>1, <2>2
  <2>3. CASE i # 1
    <3>1. i - 1 \in DOMAIN t /\ t[i - 1] = y
      BY <1>1, <2>1, <2>3
    <3> QED BY <3>1 DEF Elems
  <2> QED BY <2>2, <2>3
<1>3. ASSUME NEW y \in Elems(t) PROVE y \in Elems(s) /\ (Increasing(s) => Head(s) < y)
  <2>1. PICK i \in DOMAIN t : y = t[i]
    BY DEF Elems
  <2>2. i + 1 \in DOMAIN s /\ s[i + 1] = y /\ 1 \in DOMAIN s /\ 1 < i + 1
    BY <1>1, <2>1
  <2> QED BY <1>1, <2>2 DEF Elems, Increasing
<1>4. Head(s) \in Elems(s)
  <2>1. 1 \in DOMAIN s
    BY <1>1
  <2> QED BY <1>1, <2>1 DEF Elems
<1>5. ASSUME Increasing(s), NEW i \in DOMAIN t, NEW k \in DOMAIN t, i < k
      PROVE  t[i] < t[k]
  <2>1. /\ i + 1 \in DOMAIN s /\ k + 1 \in DOMAIN s /\ i + 1 < k + 1
        /\ t[i] = s[i + 1] /\ t[k] = s[k + 1]
    BY <1>1, <1>5
  <2> QED BY <1>5, <2>1 DEF Increasing
<1> QED BY <1>2, <1>3, <1>4, <1>5 DEF Increasing

LEMMA ElemsNat ==
    ASSUME NEW s \in Seq(Nat)
    PROVE  Elems(s) \subseteq Nat
BY DEF Elems

LEMMA NoElems == Elems(<<>>) = {} /\ Increasing(<<>>)
BY DEF Elems, Increasing

\* n lines are dropped (d), in the channel (c) or held by one handler (h),
\* what is held being older than what is in the channel.
Shared(n, c, d, h) ==
    /\ \A l \in Nat : l \in 1..n <=> \/ l \in d \/ l \in Elems(c)
                                     \/ \E r \in Reader : l \in Elems(h[r])
    /\ Increasing(c) /\ \A l \in Elems(c) : l \notin d
    /\ \A r \in Reader :
         /\ Increasing(h[r])
         /\ \A l \in Elems(h[r]) : l \notin d /\ \A k \in Elems(c) : l < k
         /\ \A s \in Reader \ {r} : \A l \in Elems(h[r]) : l \notin Elems(h[s])

LEMMA SharedNone ==
    ASSUME NEW h, \A r \in Reader : h[r] = <<>>
    PROVE  Shared(0, <<>>, {}, h)
BY NoElems DEF Shared

LEMMA SharedDrop ==
    ASSUME NEW n \in Nat, NEW c \in Seq(Nat), NEW d \in SUBSET Nat,
           NEW h \in [Reader -> Seq(Nat)], Shared(n, c, d, h)
    PROVE  Shared(n + 1, c, d \cup {n + 1}, h)
<1>1. /\ \A l \in Elems(c) : l \in Nat /\ l <= n
      /\ \A r \in Reader : \A l \in Elems(h[r]) : l \in Nat /\ l <= n
  BY ElemsNat DEF Shared
<1>2. \A l \in Nat : l \in 1..(n + 1) <=> l \in 1..n \/ l = n + 1
  OBVIOUS
<1> QED BY <1>1, <1>2 DEF Shared

LEMMA SharedSend ==
    ASSUME NEW n \in Nat, NEW c \in Seq(Nat), NEW d \in SUBSET Nat,
           NEW h \in [Reader -> Seq(Nat)], Shared(n, c, d, h)
    PROVE  Shared(n + 1, Append(c, n + 1), d, h)
<1>1. /\ \A l \in Elems(c) : l \in Nat /\ l < n + 1
      /\ \A l \in d : l \in Nat /\ l < n + 1
      /\ \A r \in Reader : \A l \in Elems(h[r]) : l \in Nat /\ l < n + 1
  BY ElemsNat DEF Shared
<1>2. \A l \in Nat : l \in 1..(n + 1) <=> l \in 1..n \/ l = n + 1
  OBVIOUS
<1>3. /\ Elems(Append(c, n + 1)) = Elems(c) \cup {n + 1}
      /\ Increasing(Append(c, n + 1))
  BY <1>1, ElemsAppend DEF Shared
<1>4. n + 1 \notin d
  BY <1>1
<1> QED BY <1>1, <1>2, <1>3, <1>4 DEF Shared

LEMMA SharedTake ==
    ASSUME NEW n \in Nat, NEW c \in Seq(Nat), NEW d \in SUBSET Nat,
           NEW h \in [Reader -> Seq(Nat)], Shared(n, c, d, h),
           c # <<>>, NEW r \in Reader,
           NEW g, \A s \in Reader \ {r} : g[s] = h[s], g[r] = Append(h[r], Head(c))
    PROVE  Shared(n, Tail(c), d, g)
<1>1. Head(c) \in Nat
  OBVIOUS
<1>2. /\ Elems(c) = {Head(c)} \cup Elems(Tail(c)) /\ Increasing(Tail(c))
      /\ \A y \in Elems(Tail(c)) : Head(c) < y
  BY ElemsTail DEF Shared
<1>3. \A l \in Elems(h[r]) : l < Head(c)
  BY <1>2 DEF Shared
<1>4. Elems(g[r]) = Elems(h[r]) \cup {Head(c)} /\ Increasing(g[r])
  BY <1>1, <1>3, ElemsAppend DEF Shared
<1>5. Head(c) \notin d /\ \A s \in Reader : Head(c) \notin Elems(h[s])
  <2>1. \A s \in Reader : \A l \in Elems(h[s]) : l < Head(c) /\ l \in Nat
    BY <1>2, ElemsNat DEF Shared
  <2> QED BY <1>1, <1>2, <2>1 DEF Shared
<1>6. \A l \in Nat : l \in 1..n <=> \/ l \in d \/ l \in Elems(Tail(c))
                                    \/ \E s \in Reader : l \in Elems(g[s])
  BY <1>2, <1>4 DEF Shared
<1>7. ASSUME NEW s \in Reader
      PROVE  /\ Increasing(g[s])
             /\ \A l \in Elems(g[s]) : l \notin d /\ \A k \in Elems(Tail(c)) : l < k
  <2>1. CASE s = r
    BY <1>2, <1>4, <1>5, <2>1 DEF Shared
  <2>2. CASE s # r
    BY <1>2, <2>2 DEF Shared
  <2> QED BY <2>1, <2>2
<1>8. ASSUME NEW s \in Reader, NEW q \in Reader \ {s}, NEW l \in Elems(g[s])
      PROVE  l \notin Elems(g[q])
  <2>1. CASE s = r
    <3>1. l \in Elems(h[r]) \cup {Head(c)} /\ g[q] = h[q] /\ q # r
      BY <1>4, <1>8, <2>1
    <3> QED BY <1>5, <3>1 DEF Shared
  <2>2. CASE q = r
    <3>1. l \in Elems(h[s]) /\ s # r
      BY <1>8, <2>2
    <3>2. l \notin Elems(h[r]) /\ l # Head(c)
      BY <1>5, <3>1 DEF Shared
    <3> QED BY <1>4, <2>2, <3>2
  <2>3. CASE s # r /\ q # r
    BY <1>8, <2>3 DEF Shared
  <2> QED BY <2>1, <2>2, <2>3
<1> QED BY <1>2, <1>6, <1>7, <1>8 DEF Shared

-----------------------------------------------------------------------------
(* EachLineOnce and LoneReaderSees.                                        *)

Held(r, j) == IF On(r, j) THEN reader[r].took ELSE <<>>

LinesOK(j) ==
    Shared(job[j].seq, job[j].ch, job[j].dropped, [r \in Reader |-> Held(r, j)])

\* The list holds the first lines there were.
ListOK(j) ==
    /\ Len(job[j].logs) <= job[j].seq
    /\ \A l \in 1..job[j].seq : l <= LogCap => l \in Elems(job[j].logs)

\* A handler was sent what was listed when it came, or will be; one that is
\* done has emptied the channel.
SeenOK(r) ==
    LET v == reader[r]
    IN  /\ v.pc \in {"replay", "live", "done"} =>
             \A l \in 1..v.from : l <= LogCap => l \in v.seen \cup Elems(v.todo)
        /\ v.pc \in {"live", "done"} => v.todo = <<>>
        /\ v.pc = "done" => job[v.job].ch = <<>>

LogInv ==
    /\ \A j \in Job : LinesOK(j) /\ ListOK(j)
    /\ \A r \in Reader : SeenOK(r)

LEMMA LinesEnough == Types /\ LogInv => EachLineOnce /\ LoneReaderSees
<1> SUFFICES ASSUME Types, LogInv PROVE EachLineOnce /\ LoneReaderSees
  OBVIOUS
<1>1. ASSUME NEW j \in Job
      PROVE  /\ Lines(j) \subseteq Nat /\ job[j].dropped \subseteq Nat
             /\ Elems(job[j].ch) \subseteq Nat
             /\ \A r \in Reader : Elems(Held(r, j)) \subseteq Nat
  <2>1. job[j] \in JobRec /\ \A r \in Reader : reader[r].took \in Seq(Nat)
    BY DEF Types, LogOK, JobRec, ReaderRec
  <2>2. \A r \in Reader : Held(r, j) \in Seq(Nat)
    BY <2>1 DEF Held
  <2> QED BY <2>1, <2>2, ElemsNat DEF JobRec, Lines
<1>2. \A r \in Reader, j \in Job : On(r, j) => Elems(Held(r, j)) = Taken(r)
  BY DEF Held, Taken, Elems
<1>3. ASSUME NEW j \in Job
      PROVE  \A l \in Nat : l \in Lines(j) <=>
                \/ l \in job[j].dropped \/ l \in Elems(job[j].ch)
                \/ \E r \in Reader : On(r, j) /\ l \in Taken(r)
  BY <1>2, NoElems DEF LogInv, LinesOK, Shared, Lines, Held
<1>4. EachLineOnce
  <2> SUFFICES ASSUME NEW j \in Job
      PROVE  LET inCh == {job[j].ch[i] : i \in DOMAIN job[j].ch}
                 by == {r \in Reader : On(r, j)}
             IN  /\ Lines(j) = job[j].dropped \cup inCh \cup UNION {Taken(r) : r \in by}
                 /\ \A r \in by :
                      /\ Taken(r) \cap (inCh \cup job[j].dropped) = {}
                      /\ \A s \in by \ {r} : Taken(r) \cap Taken(s) = {}
                      /\ \A i, k \in DOMAIN reader[r].took :
                           i < k => reader[r].took[i] < reader[r].took[k]
    BY DEF EachLineOnce
  <2> DEFINE inCh == Elems(job[j].ch)
             by == {r \in Reader : On(r, j)}
  <2>1. \A r \in by : Taken(r) \subseteq Nat
    BY <1>1, <1>2
  <2>2. Lines(j) = job[j].dropped \cup inCh \cup UNION {Taken(r) : r \in by}
    BY <1>1, <1>3, <2>1
  <2>3. ASSUME NEW r \in by
        PROVE  /\ Taken(r) \cap (inCh \cup job[j].dropped) = {}
               /\ \A s \in by \ {r} : Taken(r) \cap Taken(s) = {}
               /\ Increasing(reader[r].took)
    <3>1. /\ Increasing(Held(r, j))
          /\ \A l \in Elems(Held(r, j)) :
               l \notin job[j].dropped /\ \A k \in inCh : l < k
          /\ \A s \in Reader \ {r} : \A l \in Elems(Held(r, j)) : l \notin Elems(Held(s, j))
      BY DEF LogInv, LinesOK, Shared
    <3>2. Increasing(reader[r].took)
      BY <3>1 DEF Held
    <3>3. \A l \in Taken(r) : l \notin inCh
      BY <1>1, <1>2, <3>1
    <3> QED BY <1>2, <3>1, <3>2, <3>3
  <2> QED BY <2>2, <2>3 DEF Elems, Increasing
<1>5. LoneReaderSees
  <2> SUFFICES ASSUME NEW r \in Reader, reader[r].pc = "done",
                      \A s \in Reader \ {r} : ~On(s, reader[r].job),
                      NEW l \in Lines(reader[r].job)
      PROVE  \/ l \in reader[r].seen \cup Taken(r)
             \/ /\ l \in job[reader[r].job].dropped
                /\ l > reader[r].from \/ l > LogCap
    BY DEF LoneReaderSees
  <2>1. reader[r].job \in Job
    BY DEF Types, LogOK, ReaderOK
  <2>2. PICK j \in Job : j = reader[r].job
    BY <2>1
  <2>3. job[j].ch = <<>> /\ reader[r].todo = <<>>
    BY <2>2 DEF LogInv, SeenOK
  <2>4. l \in Nat /\ l > 0 /\ reader[r].from \in Nat
    BY <1>1, <2>2 DEF Lines, Types, LogOK, ReaderRec, JobRec
  <2>5. l \in job[j].dropped \/ l \in Taken(r)
    BY <1>3, <2>2, <2>3, <2>4, NoElems
  <2>6. ASSUME l <= reader[r].from, l <= LogCap PROVE l \in reader[r].seen
    <3>1. l \in 1..reader[r].from
      BY <2>4, <2>6
    <3>2. l \in reader[r].seen \cup Elems(reader[r].todo)
      BY <2>6, <3>1 DEF LogInv, SeenOK
    <3> QED BY <2>3, <3>2, NoElems
  <2> QED BY <2>2, <2>4, <2>5, <2>6, JobLogAssumption
<1> QED BY <1>4, <1>5

\* What is shared is as it was when nothing of it moved.
LEMMA LinesKept ==
    ASSUME NEW j \in Job, LinesOK(j),
           job'[j].seq = job[j].seq, job'[j].ch = job[j].ch,
           job'[j].dropped = job[j].dropped,
           \A r \in Reader : Held(r, j)' = Held(r, j)
    PROVE  LinesOK(j)'
<1>1. [r \in Reader |-> Held(r, j)'] = [r \in Reader |-> Held(r, j)]
  OBVIOUS
<1> QED BY <1>1 DEF LinesOK

LEMMA HeldType ==
    ASSUME LogOK
    PROVE  \A r \in Reader, j \in Job : Held(r, j) \in Seq(Nat)
<1>1. \A r \in Reader : reader[r].took \in Seq(Nat)
  BY DEF LogOK, ReaderRec
<1> QED BY <1>1 DEF Held

\* A handler as it was: what it has seen of a job that only goes on.
LEMMA SeenKept ==
    ASSUME NEW r \in Reader, SeenOK(r), reader'[r] = reader[r],
           reader[r].pc = "done" =>
             job'[reader[r].job].ch = job[reader[r].job].ch \/ job'[reader[r].job].ch = <<>>
    PROVE  SeenOK(r)'
BY DEF SeenOK

\* Another handler's step, or a step of no handler, leaves what one holds.
LEMMA HeldKept ==
    ASSUME NEW r \in Reader, NEW j \in Job, reader'[r] = reader[r]
    PROVE  Held(r, j)' = Held(r, j)
BY DEF Held, On

LEMMA AppendLines ==
    ASSUME LogOK, LogInv, NEW j \in Job, job[j].st = "running", AppendLog(j),
           UNCHANGED reader
    PROVE  LogInv'
<1> DEFINE line == job[j].seq + 1
           room == ~job[j].closed /\ Len(job[j].ch) < ChanCap
<1>1. PICK o : o = [job[j] EXCEPT !.seq = line,
                      !.logs = IF Len(@) < LogCap THEN Append(@, line) ELSE @,
                      !.ch = IF room THEN Append(@, line) ELSE @,
                      !.dropped = IF room THEN @ ELSE @ \cup {line}]
  OBVIOUS
<1>2. job[j] \in JobRec /\ job \in [Job -> JobRec]
  BY DEF LogOK
<1>3. job'[j] = o /\ \A i \in Job \ {j} : job'[i] = job[i]
  BY <1>1, <1>2 DEF AppendLog
<1>4. PICK n \in Nat, lg \in Seq(Nat), c \in Seq(Nat), d \in SUBSET Nat :
        n = job[j].seq /\ lg = job[j].logs /\ c = job[j].ch /\ d = job[j].dropped
  BY <1>2 DEF JobRec
<1>5. /\ o.seq = n + 1
      /\ o.logs = IF Len(lg) < LogCap THEN Append(lg, n + 1) ELSE lg
      /\ o.ch = IF room THEN Append(c, n + 1) ELSE c
      /\ o.dropped = IF room THEN d ELSE d \cup {n + 1}
  BY <1>1, <1>2, <1>4 DEF JobRec
<1>6. PICK h \in [Reader -> Seq(Nat)] : h = [r \in Reader |-> Held(r, j)]
  BY HeldType
<1>7. h = [r \in Reader |-> Held(r, j)']
  BY <1>6 DEF Held, On
<1>8. LinesOK(j)'
  <2>1. Shared(n, c, d, h)
    BY <1>4, <1>6 DEF LogInv, LinesOK
  <2>2. Shared(n + 1, o.ch, o.dropped, h)
    BY <1>5, <2>1, SharedDrop, SharedSend
  <2> QED BY <1>3, <1>5, <1>7, <2>2 DEF LinesOK
<1>9. ListOK(j)'
  <2>1. Len(lg) <= n /\ \A l \in 1..n : l <= LogCap => l \in Elems(lg)
    BY <1>4 DEF LogInv, ListOK
  <2>2. \A l \in 1..(n + 1) : l \in 1..n \/ l = n + 1
    OBVIOUS
  <2>3. CASE Len(lg) < LogCap
    <3>1. /\ Elems(Append(lg, n + 1)) = Elems(lg) \cup {n + 1}
          /\ Len(Append(lg, n + 1)) = Len(lg) + 1 /\ Len(lg) \in Nat
      BY ElemsAppend
    <3>2. Len(Append(lg, n + 1)) <= n + 1
      BY <2>1, <3>1
    <3> QED BY <1>3, <1>5, <2>1, <2>2, <2>3, <3>1, <3>2 DEF ListOK
  <2>4. CASE ~(Len(lg) < LogCap)
    <3>1. Len(lg) \in Nat
      OBVIOUS
    <3>2. Len(lg) <= n + 1 /\ ~(n + 1 <= LogCap)
      BY <2>1, <2>4, <3>1, JobLogAssumption
    <3> QED BY <1>3, <1>5, <2>1, <2>2, <2>4, <3>2 DEF ListOK
  <2> QED BY <2>3, <2>4
<1>10. ASSUME NEW i \in Job \ {j} PROVE LinesOK(i)' /\ ListOK(i)'
  <2>1. LinesOK(i)'
    BY <1>3, HeldKept, LinesKept DEF LogInv
  <2>2. ListOK(i)'
    BY <1>3 DEF LogInv, ListOK
  <2> QED BY <2>1, <2>2
<1>11. ASSUME NEW r \in Reader PROVE SeenOK(r)'
  <2>1. reader[r].pc = "done" => reader[r].job \in Job /\ reader[r].job # j
    BY DEF LogOK, ReaderOK, JobOK, Terminal
  <2> QED BY <1>3, <2>1, SeenKept DEF LogInv
<1> QED BY <1>8, <1>9, <1>10, <1>11 DEF LogInv

LEMMA TakeLines ==
    ASSUME LogOK, LogInv, NEW r \in Reader, NEW w \in ReaderRec, NEW o \in JobRec,
           reader' = [reader EXCEPT ![r] = w], Takes(r, w, o)
    PROVE  LogInv'
<1>1. PICK v \in ReaderRec : v = reader[r]
  BY DEF LogOK
<1>2. v.pc = "live" /\ v.job \in Job /\ job[v.job] \in JobRec
  BY <1>1 DEF Takes, LogOK, ReaderOK
<1>3. PICK j \in Job, b \in JobRec : j = v.job /\ b = job[j]
  BY <1>2
<1>4. PICK n \in Nat, c \in Seq(Nat), d \in SUBSET Nat :
        n = b.seq /\ c = b.ch /\ d = b.dropped
  BY DEF JobRec
<1>5. /\ reader'[r] = w /\ \A s \in Reader \ {r} : reader'[s] = reader[s]
      /\ job'[j] = o /\ \A i \in Job \ {j} : job'[i] = job[i]
  BY <1>1, <1>3 DEF Takes, LogOK
<1>6. /\ c # <<>> /\ o.logs = b.logs /\ o.seq = n /\ o.dropped = d /\ o.ch = Tail(c)
      /\ w.job = j /\ w.took = Append(v.took, Head(c)) /\ w.from = v.from
      /\ w.seen = v.seen /\ w.todo = v.todo /\ w.pc \in {"live", "gone"}
  BY <1>1, <1>3, <1>4 DEF Takes
<1>7. /\ On(r, j) /\ On(r, j)' /\ \A i \in Job \ {j} : ~On(r, i) /\ ~On(r, i)'
  BY <1>1, <1>2, <1>3, <1>5, <1>6 DEF On
<1>8. LinesOK(j)'
  <2>1. PICK h \in [Reader -> Seq(Nat)] : h = [s \in Reader |-> Held(s, j)]
    BY HeldType
  <2>2. PICK g : g = [s \in Reader |-> Held(s, j)']
    OBVIOUS
  <2>3. \A s \in Reader \ {r} : g[s] = h[s]
    BY <1>5, <2>1, <2>2 DEF Held, On
  <2>4. g[r] = Append(h[r], Head(c))
    BY <1>1, <1>5, <1>6, <1>7, <2>1, <2>2 DEF Held
  <2>5. Shared(n, c, d, h)
    BY <1>3, <1>4, <2>1 DEF LogInv, LinesOK
  <2>6. Shared(n, Tail(c), d, g)
    BY <1>6, <2>3, <2>4, <2>5, SharedTake
  <2> QED BY <1>5, <1>6, <2>2, <2>6 DEF LinesOK
<1>9. ASSUME NEW i \in Job \ {j} PROVE LinesOK(i)'
  <2>1. \A s \in Reader : Held(s, i)' = Held(s, i)
    BY <1>5, <1>7 DEF Held, On
  <2> QED BY <1>5, <2>1, LinesKept DEF LogInv
<1>10. ASSUME NEW i \in Job PROVE ListOK(i)'
  <2>1. job'[i].logs = job[i].logs /\ job'[i].seq = job[i].seq
    BY <1>3, <1>4, <1>5, <1>6
  <2> QED BY <2>1 DEF LogInv, ListOK
<1>11. SeenOK(r)'
  BY <1>1, <1>2, <1>5, <1>6 DEF LogInv, SeenOK
<1>12. ASSUME NEW s \in Reader \ {r} PROVE SeenOK(s)'
  <2>1. reader[s].pc = "done" => reader[s].job # j /\ reader[s].job \in Job
    BY <1>3, <1>4, <1>6 DEF LogInv, SeenOK, LogOK, ReaderOK
  <2> QED BY <1>5, <2>1, SeenKept DEF LogInv
<1> QED BY <1>8, <1>9, <1>10, <1>11, <1>12 DEF LogInv

\* The other steps of a handler leave the jobs alone.
LEMMA StepLines ==
    ASSUME LogOK, LogInv, NEW r \in Reader, NEW w \in ReaderRec,
           reader' = [reader EXCEPT ![r] = w],
           \/ Moves(r, w) \/ Ends(r, w)
           \/ reader[r].pc = "out" /\ \E j \in Job : Comes(w, j)
    PROVE  LogInv'
<1>1. PICK v \in ReaderRec : v = reader[r]
  BY DEF LogOK
<1>2. /\ reader'[r] = w /\ \A s \in Reader \ {r} : reader'[s] = reader[s]
      /\ job' = job
  BY DEF Moves, Ends, Comes, LogOK
<1>3. \A j \in Job : Held(r, j)' = Held(r, j)
  <2>1. CASE Moves(r, w) \/ Ends(r, w)
    <3>1. w.job = v.job /\ w.took = v.took /\ v.pc # "out" /\ w.pc # "out"
      BY <1>1, <2>1 DEF Moves, Ends
    <3> QED BY <1>1, <1>2, <3>1 DEF Held, On
  <2>2. CASE reader[r].pc = "out" /\ \E j \in Job : Comes(w, j)
    BY <1>2, <2>2 DEF Held, On, Comes
  <2> QED BY <2>1, <2>2
<1>4. ASSUME NEW j \in Job PROVE LinesOK(j)' /\ ListOK(j)'
  <2>1. \A s \in Reader : Held(s, j)' = Held(s, j)
    BY <1>2, <1>3, HeldKept
  <2>2. LinesOK(j)'
    BY <1>2, <2>1, LinesKept DEF LogInv
  <2> QED BY <1>2, <2>2 DEF LogInv, ListOK
<1>5. SeenOK(r)'
  <2>1. CASE Moves(r, w)
    <3>1. PICK q \in Seq(Nat) : q = v.todo
      BY DEF ReaderRec
    <3>2. CASE w.pc = v.pc /\ w.todo = v.todo /\ w.seen = v.seen
      BY <1>1, <1>2, <2>1, <3>2 DEF Moves, LogInv, SeenOK
    <3>3. CASE /\ v.pc = "replay" /\ v.todo = <<>> /\ w.pc = "live" /\ w.todo = <<>>
               /\ w.seen = v.seen
      BY <1>1, <1>2, <2>1, <3>3 DEF Moves, LogInv, SeenOK
    <3>4. CASE /\ v.pc = "replay" /\ q # <<>> /\ w.pc = "replay"
               /\ w.todo = Tail(q) /\ w.seen = v.seen \cup {Head(q)}
      <4>1. Elems(q) = {Head(q)} \cup Elems(Tail(q))
        BY <3>4, ElemsTail
      <4> QED BY <1>1, <1>2, <2>1, <3>1, <3>4, <4>1 DEF Moves, LogInv, SeenOK
    <3>5. CASE w.pc = "gone"
      BY <1>2, <3>5 DEF SeenOK
    <3> QED BY <1>1, <2>1, <3>1, <3>2, <3>3, <3>4, <3>5 DEF Moves
  <2>2. CASE Ends(r, w)
    BY <1>1, <1>2, <2>2 DEF Ends, LogInv, SeenOK
  <2>3. ASSUME NEW j \in Job, Comes(w, j) PROVE SeenOK(r)'
    BY <1>2, <2>3 DEF Comes, LogInv, ListOK, SeenOK
  <2> QED BY <2>1, <2>2, <2>3
<1>6. ASSUME NEW s \in Reader \ {r} PROVE SeenOK(s)'
  BY <1>2, SeenKept DEF LogInv
<1> QED BY <1>4, <1>5, <1>6 DEF LogInv

\* A job begins or ends with the lines that it has, which no handler moves.
LEMMA StatusLines ==
    ASSUME LogOK, LogInv, UNCHANGED reader,
           \A j \in Job : /\ job'[j].seq = job[j].seq /\ job'[j].ch = job[j].ch
                          /\ job'[j].logs = job[j].logs
                          /\ job'[j].dropped = job[j].dropped
    PROVE  LogInv'
<1>1. ASSUME NEW j \in Job PROVE LinesOK(j)' /\ ListOK(j)'
  <2>1. LinesOK(j)'
    BY HeldKept, LinesKept DEF LogInv
  <2> QED BY <2>1 DEF LogInv, ListOK
<1>2. ASSUME NEW r \in Reader PROVE SeenOK(r)'
  <2>1. reader[r].pc = "done" => reader[r].job \in Job
    BY DEF LogOK, ReaderOK
  <2> QED BY <2>1, SeenKept DEF LogInv
<1> QED BY <1>1, <1>2 DEF LogInv

LEMMA NoLines ==
    /\ Len(NoJob.logs) <= NoJob.seq
    /\ \A l \in 1..NoJob.seq : l <= LogCap => l \in Elems(NoJob.logs)
    /\ \A h : (\A r \in Reader : h[r] = <<>>) =>
                Shared(NoJob.seq, NoJob.ch, NoJob.dropped, h)
<1>1. Len(NoJob.logs) = 0
  <2>1. NoJob.logs = <<>>
    BY NoJobOK
  <2> QED BY <2>1
<1>2. ~\E l : l \in 1..0
  OBVIOUS
<1> QED BY <1>1, <1>2, NoJobOK, SharedNone

LEMMA LogInvInit == Init => LogInv
<1> SUFFICES ASSUME Init PROVE LogInv
  OBVIOUS
<1>1. /\ \A j \in Job : job[j] = NoJob
      /\ \A r \in Reader : reader[r] = NoReader
  BY DEF Init, InitLog
<1>2. ASSUME NEW j \in Job PROVE LinesOK(j) /\ ListOK(j)
  <2>1. \A r \in Reader : [s \in Reader |-> Held(s, j)][r] = <<>>
    BY <1>1, NoReaderType DEF Held, On
  <2>2. LinesOK(j)
    BY <1>1, <2>1, NoLines DEF LinesOK
  <2> QED BY <1>1, <2>2, NoLines DEF ListOK
<1>3. ASSUME NEW r \in Reader PROVE SeenOK(r)
  BY <1>1, NoReaderType DEF SeenOK
<1> QED BY <1>2, <1>3 DEF LogInv

LEMMA FreshLines ==
    ASSUME job' = [j \in Job |-> NoJob], reader' = [r \in Reader |-> NoReader]
    PROVE  LogInv'
<1>1. /\ \A j \in Job : job'[j] = NoJob
      /\ \A r \in Reader : reader'[r] = NoReader
  OBVIOUS
<1>2. ASSUME NEW j \in Job PROVE LinesOK(j)' /\ ListOK(j)'
  <2>1. \A r \in Reader : [s \in Reader |-> Held(s, j)'][r] = <<>>
    BY <1>1, NoReaderType DEF Held, On
  <2>2. LinesOK(j)'
    BY <1>1, <2>1, NoLines DEF LinesOK
  <2> QED BY <1>1, <2>2, NoLines DEF ListOK
<1>3. ASSUME NEW r \in Reader PROVE SeenOK(r)'
  BY <1>1, NoReaderType DEF SeenOK
<1> QED BY <1>2, <1>3 DEF LogInv

\* The status of a job changes: its lines do not.
LEMMA NewSame ==
    ASSUME LogOK, NEW j \in Job, job[j].st = "none", NewJob(j)
    PROVE  \A i \in Job : /\ job'[i].seq = job[i].seq /\ job'[i].ch = job[i].ch
                          /\ job'[i].logs = job[i].logs
                          /\ job'[i].dropped = job[i].dropped
<1>1. job \in [Job -> JobRec] /\ job[j] = NoJob
  BY DEF LogOK, JobOK
<1>2. PICK o : o = [NoJob EXCEPT !.st = "running"]
  OBVIOUS
<1>3. /\ o.seq = NoJob.seq /\ o.ch = NoJob.ch /\ o.logs = NoJob.logs
      /\ o.dropped = NoJob.dropped
  BY <1>2 DEF NoJob
<1>4. job'[j] = o /\ \A i \in Job \ {j} : job'[i] = job[i]
  BY <1>1, <1>2 DEF NewJob
<1> QED BY <1>1, <1>3, <1>4

LEMMA EndSame ==
    ASSUME LogOK, NEW j \in Job, job[j].st = "running", NEW st, Transition(j, st)
    PROVE  \A i \in Job : /\ job'[i].seq = job[i].seq /\ job'[i].ch = job[i].ch
                          /\ job'[i].logs = job[i].logs
                          /\ job'[i].dropped = job[i].dropped
<1>1. job \in [Job -> JobRec]
  BY DEF LogOK
<1>2. PICK o : o = [job[j] EXCEPT !.st = st, !.closed = TRUE]
  OBVIOUS
<1>3. /\ o.seq = job[j].seq /\ o.ch = job[j].ch /\ o.logs = job[j].logs
      /\ o.dropped = job[j].dropped
  BY <1>1, <1>2 DEF JobRec
<1>4. job'[j] = o /\ \A i \in Job \ {j} : job'[i] = job[i]
  BY <1>1, <1>2 DEF Transition, Terminal
<1> QED BY <1>3, <1>4

LEMMA ReaderCases ==
    ASSUME LogOK, NEW r \in Reader,
           ReaderStep(r) \/ Leave(r) \/ \E j \in Job : Attach(r, j)
    PROVE  \E w \in ReaderRec :
              /\ reader' = [reader EXCEPT ![r] = w]
              /\ \/ \E o \in JobRec : Takes(r, w, o)
                 \/ /\ UNCHANGED job
                    /\ \/ Moves(r, w) \/ Ends(r, w)
                       \/ reader[r].pc = "out" /\ \E j \in Job : Comes(w, j)
BY ReaderSays DEF Moves, Ends, Comes

LEMMA LogInvNext == LogOK /\ LogInv /\ LogStep => LogInv'
<1> SUFFICES ASSUME LogOK, LogInv, LogStep PROVE LogInv'
  OBVIOUS
<1>1. CASE UNCHANGED logVars
  BY <1>1, StatusLines DEF logVars
<1>2. CASE UNCHANGED reader /\ \E j \in Job : job[j].st = "none" /\ NewJob(j)
  BY <1>2, NewSame, StatusLines
<1>3. CASE UNCHANGED reader /\ \E j \in Job : job[j].st = "running" /\ AppendLog(j)
  BY <1>3, AppendLines
<1>4. CASE UNCHANGED reader /\ \E j \in Job, st \in Terminal :
              job[j].st = "running" /\ Transition(j, st)
  BY <1>4, EndSame, StatusLines
<1>5. ASSUME NEW r \in Reader, ReaderStep(r) \/ Leave(r) \/ \E j \in Job : Attach(r, j)
      PROVE  LogInv'
  BY <1>5, ReaderCases, TakeLines, StepLines
<1>6. CASE job' = [j \in Job |-> NoJob] /\ reader' = [r \in Reader |-> NoReader]
  BY <1>6, FreshLines
<1> QED BY <1>1, <1>2, <1>3, <1>4, <1>5, <1>6 DEF LogStep

LEMMA LogInvHolds == Spec => []LogInv
<1>1. Init => LogInv
  BY LogInvInit
<1>2. Types /\ LogInv /\ [Next]_vars => LogInv'
  BY LogSays, LogInvNext DEF Types
<1> QED BY <1>1, <1>2, TypesHold, PTL DEF Spec

\* Every line of a job is either dropped, or in the channel, or was received by
\* one of the handlers that range over LogCh, each in the order they were
\* logged (deploy.go, AppendLog; api.go, handleDeployLogs).
THEOREM EachLineOnceHolds == Spec => []EachLineOnce
<1> QED BY TypesHold, LogInvHolds, LinesEnough, PTL

\* A client that was alone on a job and told it is done was sent all of its
\* lines, but for those dropped since it came or beyond the list.
THEOREM LoneReaderSeesHolds == Spec => []LoneReaderSees
<1> QED BY TypesHold, LogInvHolds, LinesEnough, PTL

LEMMA DoneStep == Types /\ LogStep =>
    \A r \in Reader : reader[r].pc = "done" /\ reader'[r].pc = "done" =>
                        job'[reader[r].job].seq = job[reader[r].job].seq
<1> SUFFICES ASSUME Types, LogStep, NEW r \in Reader, reader[r].pc = "done",
                    reader'[r].pc = "done"
             PROVE  job'[reader[r].job].seq = job[reader[r].job].seq
  OBVIOUS
<1> DEFINE j == reader[r].job
<1>1. LogOK /\ j \in Job /\ job[j].closed
  BY DEF Types, LogOK, ReaderOK
<1>2. CASE UNCHANGED logVars
  BY <1>2 DEF logVars
<1>3. CASE \E i \in Job : job[i].st = "none" /\ NewJob(i)
  BY <1>1, <1>3, NewSame
<1>4. ASSUME NEW i \in Job, job[i].st = "running", AppendLog(i), UNCHANGED reader
      PROVE  job'[j].seq = job[j].seq
  <2>1. i # j
    BY <1>1, <1>4 DEF LogOK, JobOK, Terminal
  <2> QED BY <1>1, <1>4, <2>1, AppendLogLog
<1>5. CASE \E i \in Job, st \in Terminal : job[i].st = "running" /\ Transition(i, st)
  BY <1>1, <1>5, EndSame
<1>6. ASSUME NEW q \in Reader, ReaderStep(q) \/ Leave(q) \/ \E i \in Job : Attach(q, i)
      PROVE  job'[j].seq = job[j].seq
  <2>1. CASE UNCHANGED job
    BY <2>1
  <2>2. ASSUME NEW w \in ReaderRec, NEW o \in JobRec, Takes(q, w, o)
        PROVE  job'[j].seq = job[j].seq
    BY <1>1, <2>2 DEF Takes, LogOK
  <2> QED BY <1>1, <1>6, <2>1, <2>2, ReaderCases
<1>7. CASE reader' = [q \in Reader |-> NoReader]
  BY <1>7, NoReaderType
<1> QED BY <1>2, <1>3, <1>4, <1>5, <1>6, <1>7 DEF LogStep

\* No line is logged to a job once a client was told that it is done: the
\* deploy has ended, and wg.Wait has kept it from ending before its scanners.
THEOREM DoneIsDoneHolds == Spec => DoneIsDone
<1>1. Types /\ [Next]_vars =>
        [\A r \in Reader : reader[r].pc = "done" /\ reader'[r].pc = "done" =>
            job'[reader[r].job].seq = job[reader[r].job].seq]_vars
  BY LogSays, DoneStep
<1> QED BY <1>1, TypesHold, PTL DEF Spec, DoneIsDone

-----------------------------------------------------------------------------
(* BackupKept.                                                             *)

\* What a file can hold: NoFile is none of it.
Written(f) == f = [image |-> f.image, edit |-> f.edit] /\ f.edit \in Nat

ContentsOK ==
    /\ spent \in Nat /\ Written(file)
    /\ dep.pc \in {"cut", "write"} => Written(dep.next)
    /\ Bad \notin overwrote /\ NoFile \notin overwrote

Writing == {"copy", "fill", "read", "cut", "write"}

\* The copy is made from nothing, and is complete when the file is patched.
CopyOK ==
    /\ dep.pc \in Writing => dep.at \in Second
    /\ dep.pc = "copy" => backups[dep.at] = NoFile
    /\ dep.pc = "fill" => backups[dep.at] = Bad
    /\ dep.pc \in {"read", "cut", "write"} => backups[dep.at] = dep.data

\* Until it is cut the file holds what was copied, or what a person saved.
SourceOK ==
    /\ dep.pc \in Writing \ {"write"} => file \in {dep.data, Bad} \cup raced
    /\ dep.pc = "write" => file \in {Bad} \cup raced

BackupInv == ContentsOK /\ CopyOK /\ SourceOK /\ BackupKept

LEMMA BadWritten == Written(Bad) /\ ~Written(NoFile)
BY DEF Written, Bad, NoFile

\* A deploy that is not between its copy and its write.
LEMMA NotWriting ==
    ASSUME Types, BackupInv, UNCHANGED fileVars, spent' \in Nat,
           dep'.pc \notin Writing
    PROVE  BackupInv'
BY DEF BackupInv, ContentsOK, CopyOK, SourceOK, BackupKept, Writing, fileVars, Written

LEMMA BackupStays ==
    ASSUME Types, BackupInv, UNCHANGED fileVars, spent' \in Nat, dep' = dep
    PROVE  BackupInv'
BY DEF BackupInv, ContentsOK, CopyOK, SourceOK, BackupKept, Writing, fileVars, Written

LEMMA SpentOK ==
    ASSUME BackupInv, spent' = spent \/ spent' = spent + 1
    PROVE  spent' \in Nat
BY DEF BackupInv, ContentsOK

LEMMA BackupInit == Init => BackupInv
<1> SUFFICES ASSUME Init PROVE BackupInv
  OBVIOUS
<1>1. dep.pc = "idle" /\ overwrote = {} /\ spent = 0 /\ file = [image |-> First, edit |-> 0]
  BY DEF Init, NoDep
<1>2. Written(file)
  BY <1>1 DEF Written
<1> QED BY <1>1, <1>2 DEF BackupInv, ContentsOK, CopyOK, SourceOK, BackupKept, Writing

LEMMA BackupNext ==
    ASSUME Brisk = FALSE
    PROVE  Types /\ BackupInv /\ [Next]_vars => BackupInv'
<1> SUFFICES ASSUME Types, BackupInv, [Next]_vars PROVE BackupInv'
  OBVIOUS
<1> USE DEF Writing
<1>1. DepShape /\ DOMAIN backups = Second /\ now \in Second
  BY DEF Types, DeployOK, ClockOK
<1>2. CASE UNCHANGED vars
  BY <1>2, SpentOK, BackupStays DEF vars
<1>3. CASE Skip
  BY <1>3, SpentOK, BackupStays DEF Skip
<1>4. ASSUME NEW j \in Job, Begin(j) PROVE BackupInv'
  <2>1. /\ backups[now] = NoFile /\ UNCHANGED <<fileVars, spent>>
        /\ dep' = [NoDep EXCEPT !.pc = "copy", !.job = j, !.data = file,
                                !.tag = TagOf[Head(event)], !.at = now]
    BY <1>4 DEF Begin
  <2>2. dep'.pc = "copy" /\ dep'.data = file /\ dep'.at = now
    BY <2>1 DEF NoDep
  <2> QED BY <1>1, <2>1, <2>2
          DEF BackupInv, ContentsOK, CopyOK, SourceOK, BackupKept, fileVars, Written
<1>5. CASE Copy
  <2>1. /\ dep.pc = "copy" /\ dep' = [dep EXCEPT !.pc = "fill"]
        /\ backups' = [backups EXCEPT ![dep.at] = Bad]
        /\ UNCHANGED <<file, overwrote, raced, spent>>
    BY <1>5 DEF Copy
  <2>2. dep'.pc = "fill" /\ dep'.at = dep.at /\ dep'.data = dep.data
    BY <1>1, <2>1 DEF DepShape
  <2>3. dep.at \in Second /\ backups[dep.at] = NoFile
    BY <2>1 DEF BackupInv, CopyOK
  <2>4. /\ backups'[dep.at] = Bad
        /\ \A t \in Second \ {dep.at} : backups'[t] = backups[t]
    BY <1>1, <2>1, <2>3
  <2>5. BackupKept'
    BY <2>1, <2>3, <2>4 DEF BackupInv, ContentsOK, BackupKept
  <2> QED BY <2>1, <2>2, <2>3, <2>4, <2>5
          DEF BackupInv, ContentsOK, CopyOK, SourceOK, Written
<1>6. CASE Fill
  <2>1. /\ dep.pc = "fill" /\ dep' = [dep EXCEPT !.pc = "read"]
        /\ backups' = [backups EXCEPT ![dep.at] = dep.data]
        /\ UNCHANGED <<file, overwrote, raced, spent>>
    BY <1>6 DEF Fill
  <2>2. dep'.pc = "read" /\ dep'.at = dep.at /\ dep'.data = dep.data
    BY <1>1, <2>1 DEF DepShape
  <2>3. dep.at \in Second /\ backups[dep.at] = Bad
    BY <2>1 DEF BackupInv, CopyOK
  <2>4. /\ backups'[dep.at] = dep.data
        /\ \A t \in Second \ {dep.at} : backups'[t] = backups[t]
    BY <1>1, <2>1, <2>3
  <2>5. BackupKept'
    BY <2>1, <2>3, <2>4 DEF BackupInv, ContentsOK, BackupKept
  <2> QED BY <2>1, <2>2, <2>3, <2>4, <2>5
          DEF BackupInv, ContentsOK, CopyOK, SourceOK, Written
<1>7. CASE Patch
  <2>1. dep.pc = "read" /\ UNCHANGED <<fileVars, spent>>
    BY <1>7 DEF Patch
  <2>2. CASE dep' = [dep EXCEPT !.pc = "failed"]
    <3>1. dep'.pc = "failed"
      BY <1>1, <2>2 DEF DepShape
    <3> QED BY <2>1, <3>1, NotWriting DEF BackupInv, ContentsOK
  <2>3. ASSUME NEW n, Written(n), dep' = [dep EXCEPT !.pc = "cut", !.next = n]
        PROVE  BackupInv'
    <3>1. /\ dep'.pc = "cut" /\ dep'.at = dep.at /\ dep'.data = dep.data
          /\ dep'.next = n
      BY <1>1, <2>3 DEF DepShape
    <3> QED BY <2>1, <2>3, <3>1
            DEF BackupInv, ContentsOK, CopyOK, SourceOK, BackupKept, fileVars, Written
  <2>4. ASSUME NEW i PROVE Written([file EXCEPT !.image = i])
    <3>1. file = [image |-> file.image, edit |-> file.edit] /\ file.edit \in Nat
      BY DEF BackupInv, ContentsOK, Written
    <3> QED BY <3>1 DEF Written
  <2> QED BY <1>7, <2>2, <2>3, <2>4, BadWritten DEF Patch
<1>8. CASE CutFile
  <2>1. /\ dep.pc = "cut" /\ dep' = [dep EXCEPT !.pc = "write"] /\ file' = Bad
        /\ overwrote' = overwrote \cup ({file} \ {Bad})
        /\ UNCHANGED <<backups, raced, spent>>
    BY <1>8 DEF CutFile
  <2>2. /\ dep'.pc = "write" /\ dep'.at = dep.at /\ dep'.data = dep.data
        /\ dep'.next = dep.next
    BY <1>1, <2>1 DEF DepShape
  <2>3. /\ dep.at \in Second /\ backups[dep.at] = dep.data
        /\ file \in {dep.data, Bad} \cup raced /\ Written(file)
    BY <2>1 DEF BackupInv, CopyOK, SourceOK, ContentsOK
  <2>4. BackupKept'
    BY <2>1, <2>3 DEF BackupInv, BackupKept
  <2>5. ContentsOK'
    BY <2>1, <2>2, <2>3, BadWritten DEF BackupInv, ContentsOK, Written
  <2> QED BY <2>1, <2>2, <2>3, <2>4, <2>5 DEF BackupInv, CopyOK, SourceOK
<1>9. CASE WriteFile
  <2>1. /\ dep.pc = "write" /\ dep' = [dep EXCEPT !.pc = "up"] /\ file' = dep.next
        /\ overwrote' = overwrote \cup ({file} \ {Bad})
        /\ UNCHANGED <<backups, raced, spent>>
    BY <1>9 DEF WriteFile
  <2>2. dep'.pc = "up"
    BY <1>1, <2>1 DEF DepShape
  <2>3. file \in {Bad} \cup raced /\ Written(file) /\ Written(dep.next)
    BY <2>1 DEF BackupInv, SourceOK, ContentsOK
  <2>4. BackupKept'
    BY <2>1, <2>3 DEF BackupInv, BackupKept
  <2>5. ContentsOK'
    BY <2>1, <2>2, <2>3, BadWritten DEF BackupInv, ContentsOK, Written
  <2> QED BY <2>2, <2>4, <2>5 DEF BackupInv, CopyOK, SourceOK
<1>10. CASE Up \/ Waited \/ End \/ CallFails \/ Crash
  <2>1. UNCHANGED fileVars /\ (spent' = spent \/ spent' = spent + 1)
    BY <1>10 DEF Up, Waited, End, CallFails, Crash, Allowed
  <2>2. \/ \E l \in {"wait", "done", "failed"} : dep' = [dep EXCEPT !.pc = l]
        \/ dep' = [NoDep EXCEPT !.job = dep.job]
        \/ dep' = NoDep
    BY <1>10 DEF Up, Waited, End, CallFails, Crash
  <2>3. dep'.pc \in {"idle", "wait", "done", "failed"}
    BY <1>1, <2>2 DEF DepShape, NoDep
  <2> QED BY <2>1, <2>3, SpentOK, NotWriting
<1>11. CASE Edit
  <2>1. /\ UNCHANGED <<backups, overwrote, dep>> /\ spent' \in Nat
        /\ raced' = IF dep.pc \in Writing THEN raced \cup {file'} ELSE raced
    <3>1. /\ UNCHANGED <<backups, overwrote, dep>> /\ spent' = spent + 1
          /\ raced' = IF dep.pc \in Writing THEN raced \cup {file'} ELSE raced
      BY <1>11 DEF Edit, Allowed
    <3> QED BY <3>1, SpentOK
  <2>2. Written(file') /\ raced \subseteq raced'
    <3>1. PICK i : file' = [image |-> i, edit |-> spent']
      BY <1>11 DEF Edit
    <3> QED BY <2>1, <3>1 DEF Written
  <2>3. dep.pc \in Writing => file' \in raced'
    BY <2>1
  <2> QED BY <2>1, <2>2, <2>3
          DEF BackupInv, ContentsOK, CopyOK, SourceOK, BackupKept, Written
<1>12. CASE \/ ChildStep \/ Learn \/ Pass \/ (\E p \in Pipe : Scan(p)) \/ Announce
            \/ OutputLong \/ \E r \in Reader : Watch(r) \/ Browse(r)
  <2>1. /\ UNCHANGED <<fileVars, dep>> /\ (spent' = spent \/ spent' = spent + 1)
    BY <1>12 DEF ChildStep, ComposeReads, Exit, OutputLine, Learn, Pass, Scan,
       Announce, OutputLong, Watch, Browse, Allowed
  <2> QED BY <2>1, SpentOK, BackupStays
<1> QED BY <1>2, <1>3, <1>4, <1>5, <1>6, <1>7, <1>8, <1>9, <1>10, <1>11, <1>12
        DEF Next, Executor

\* What a deploy has overwritten can be found in the history directory, unless
\* a person saved it while the deploy was writing (compose/backup.go,
\* BackupFile): at any length of history, whatever calls fail and wherever the
\* process ends, as long as no two deploys begin within one second.
THEOREM BackupKeptHolds ==
    ASSUME Brisk = FALSE
    PROVE  Spec => []BackupKept
<1>1. Types /\ BackupInv /\ [Next]_vars => BackupInv'
  BY BackupNext
<1>2. BackupInv => BackupKept
  BY DEF BackupInv
<1> QED BY <1>1, <1>2, BackupInit, TypesHold, PTL DEF Spec

-----------------------------------------------------------------------------
(* References.                                                             *)

\* The least of some numbers, and the greatest: an element that no other is
\* below exists, as the order of the naturals is well-founded.
LEMMA Smallest ==
    ASSUME NEW T, T \subseteq Nat, T # {}
    PROVE  \E x \in T : \A y \in T : x <= y
<1> DEFINE R == {ss \in Nat \X Nat : ss[1] < ss[2]}
<1>1. IsWellFoundedOn(R, Nat)
  BY NatLessThanWellFounded, Zenon DEF OpToRel
<1>2. PICK x \in T : \A y \in T : ~ (<<y, x>> \in R)
  BY <1>1, WFMin, Zenon
<1>3. \A y \in T : y < x => <<y, x>> \in R
  OBVIOUS
<1> HIDE DEF R
<1>4. \A y \in T : ~(y < x)
  BY <1>2, <1>3
<1> QED BY <1>4

LEMMA Largest ==
    ASSUME NEW n \in Nat, NEW T, T \subseteq 0..n, T # {}
    PROVE  \E x \in T : \A y \in T : x >= y
<1> DEFINE D == {n - x : x \in T}
<1>1. \A x \in T : n - x \in Nat /\ x \in Nat /\ n - x \in D
  OBVIOUS
<1>2. D \subseteq Nat /\ D # {}
  BY <1>1
<1>3. PICK d \in D : \A e \in D : d <= e
  BY <1>2, Smallest
<1>4. PICK x \in T : d = n - x
  OBVIOUS
<1> HIDE DEF D
<1>5. \A y \in T : n - x <= n - y
  BY <1>1, <1>3, <1>4
<1>6. \A y \in T : x >= y
  BY <1>1, <1>5
<1> QED BY <1>6

\* Words and separators.  (No prover knows that a literal is in STRING.)
Sign == STRING \cup {":", "/", "@", "sha256", "localhost", "reg.io", "5000",
                     "docker.io", "app", "team", "1.0.0", "edge", "d1"}
Ref == Seq(Sign)

LEMMA StringsAreSigns == ASSUME NEW r \in Seq(STRING) PROVE r \in Ref
BY DEF Ref, Sign

LEMMA Given == \A r \in {First} \cup Pushed : r \in Ref /\ Parses(r)
BY ComposeAssumption, StringsAreSigns DEF ComposeAssumption

LEMMA LastAtIs ==
    ASSUME NEW r \in Ref, NEW c
    PROVE  /\ LastAt(r, c) \in 0..Len(r)
           /\ LastAt(r, c) = 0 \/ r[LastAt(r, c)] = c
           /\ \A i \in DOMAIN r : r[i] = c => i <= LastAt(r, c)
<1> DEFINE T == {i \in DOMAIN r : r[i] = c} \cup {0}
<1>1. DOMAIN r = 1..Len(r) /\ Len(r) \in Nat
  BY DEF Ref
<1>2. T \subseteq 0..Len(r) /\ T # {}
  BY <1>1
<1>3. \E x \in T : \A y \in T : x >= y
  BY <1>1, <1>2, Largest
<1>4. LastAt(r, c) \in T /\ \A y \in T : LastAt(r, c) >= y
  BY <1>3 DEF LastAt, Max
<1> QED BY <1>1, <1>2, <1>4

LEMMA LastAtUnique ==
    ASSUME NEW r \in Ref, NEW c, NEW k \in DOMAIN r, r[k] = c,
           \A i \in DOMAIN r : r[i] = c => i <= k
    PROVE  LastAt(r, c) = k
<1>1. DOMAIN r = 1..Len(r) /\ Len(r) \in Nat
  BY DEF Ref
<1>2. /\ LastAt(r, c) \in 0..Len(r) /\ k <= LastAt(r, c)
      /\ LastAt(r, c) = 0 \/ r[LastAt(r, c)] = c
  BY LastAtIs
<1>3. LastAt(r, c) \in DOMAIN r
  BY <1>1, <1>2
<1>4. LastAt(r, c) <= k
  BY <1>1, <1>2, <1>3
<1> QED BY <1>1, <1>2, <1>4

LEMMA FirstAtIs ==
    ASSUME NEW r \in Ref, NEW c
    PROVE  /\ FirstAt(r, c) \in 0..Len(r)
           /\ FirstAt(r, c) = 0 => \A i \in DOMAIN r : r[i] # c
           /\ FirstAt(r, c) # 0 => r[FirstAt(r, c)] = c
           /\ \A i \in DOMAIN r : r[i] = c => FirstAt(r, c) <= i
<1> DEFINE T == {i \in DOMAIN r : r[i] = c}
<1>1. DOMAIN r = 1..Len(r) /\ Len(r) \in Nat
  BY DEF Ref
<1>2. CASE T = {}
  BY <1>1, <1>2 DEF FirstAt
<1>3. CASE T # {}
  <2>1. T \subseteq Nat
    BY <1>1
  <2>2. \E x \in T : \A y \in T : x <= y
    BY <1>3, <2>1, Smallest
  <2>3. FirstAt(r, c) \in T /\ \A y \in T : FirstAt(r, c) <= y
    BY <1>3, <2>2 DEF FirstAt, Min
  <2> QED BY <1>1, <2>1, <2>3
<1> QED BY <1>2, <1>3

LEMMA FirstAtUnique ==
    ASSUME NEW r \in Ref, NEW c, NEW k \in DOMAIN r, r[k] = c,
           \A i \in DOMAIN r : r[i] = c => k <= i
    PROVE  FirstAt(r, c) = k
<1>1. DOMAIN r = 1..Len(r) /\ Len(r) \in Nat
  BY DEF Ref
<1>2. /\ FirstAt(r, c) \in 0..Len(r) /\ FirstAt(r, c) <= k
      /\ FirstAt(r, c) # 0 /\ r[FirstAt(r, c)] = c
  BY FirstAtIs
<1>3. FirstAt(r, c) \in DOMAIN r
  BY <1>1, <1>2
<1> QED BY <1>1, <1>2, <1>3

\* A reference is what comes before its digest, and the digest.
LEMMA Pinned ==
    ASSUME NEW r \in Ref
    PROVE  /\ NoPin(r) \in Ref /\ PinOf(r) \in Ref
           /\ \A i \in DOMAIN NoPin(r) : NoPin(r)[i] # "@"
           /\ PinOf(r) = <<>> \/ (Len(PinOf(r)) > 0 /\ PinOf(r)[1] = "@")
<1>1. PICK k \in 0..Len(r) : k = FirstAt(r, "@")
  BY FirstAtIs
<1>2. Len(r) \in Nat /\ DOMAIN r = 1..Len(r) /\ r \in Seq(Sign)
  BY DEF Ref
<1>3. CASE k = 0
  <2>1. NoPin(r) = r /\ PinOf(r) = <<>> /\ <<>> \in Ref
    BY <1>1, <1>3 DEF NoPin, PinOf, Ref
  <2>2. \A i \in DOMAIN r : r[i] # "@"
    BY <1>1, <1>3, FirstAtIs
  <2> QED BY <2>1, <2>2
<1>4. CASE k # 0
  <2>1. NoPin(r) = SubSeq(r, 1, k - 1) /\ PinOf(r) = SubSeq(r, k, Len(r))
    BY <1>1, <1>4 DEF NoPin, PinOf, Before
  <2>2. r[k] = "@" /\ \A i \in DOMAIN r : r[i] = "@" => k <= i
    BY <1>1, <1>4, FirstAtIs
  <2>3. /\ SubSeq(r, 1, k - 1) \in Seq(Sign) /\ SubSeq(r, k, Len(r)) \in Seq(Sign)
        /\ Len(SubSeq(r, 1, k - 1)) = k - 1
        /\ \A i \in 1..(k - 1) : SubSeq(r, 1, k - 1)[i] = r[i]
        /\ Len(SubSeq(r, k, Len(r))) = Len(r) - k + 1
        /\ SubSeq(r, k, Len(r))[1] = r[k]
    BY <1>2, <1>4
  <2>4. DOMAIN SubSeq(r, 1, k - 1) = 1..(k - 1)
    BY <2>3
  <2> QED BY <1>1, <1>2, <1>4, <2>1, <2>2, <2>3, <2>4 DEF Ref
<1> QED BY <1>3, <1>4

LEMMA CutAgain ==
    ASSUME NEW s \in Ref, \A i \in DOMAIN s : s[i] # "@",
           NEW d \in Ref, d = <<>> \/ (Len(d) > 0 /\ d[1] = "@")
    PROVE  /\ s \o d \in Ref /\ NoPin(s \o d) = s /\ PinOf(s \o d) = d
<1> DEFINE r == s \o d
<1>1. s \in Seq(Sign) /\ d \in Seq(Sign)
  BY DEF Ref
<1>2. /\ r \in Seq(Sign) /\ Len(r) = Len(s) + Len(d) /\ DOMAIN r = 1..Len(r)
      /\ DOMAIN s = 1..Len(s) /\ Len(s) \in Nat /\ Len(d) \in Nat
      /\ \A i \in 1..Len(s) : r[i] = s[i]
      /\ \A i \in 1..Len(d) : r[Len(s) + i] = d[i]
  BY <1>1
<1>3. CASE d = <<>>
  <2>1. r = s
    BY <1>1, <1>3
  <2>2. FirstAt(s, "@") = 0
    <3>1. /\ FirstAt(s, "@") \in 0..Len(s)
          /\ FirstAt(s, "@") # 0 => s[FirstAt(s, "@")] = "@"
      BY FirstAtIs
    <3> QED BY <1>2, <3>1
  <2> QED BY <1>3, <2>1, <2>2 DEF NoPin, PinOf
<1>4. CASE Len(d) > 0 /\ d[1] = "@"
  <2>1. r[Len(s) + 1] = "@" /\ Len(s) + 1 \in DOMAIN r
    BY <1>2, <1>4
  <2>2. \A i \in DOMAIN r : r[i] = "@" => Len(s) + 1 <= i
    BY <1>2
  <2>3. FirstAt(r, "@") = Len(s) + 1
    BY <1>2, <2>1, <2>2, FirstAtUnique DEF Ref
  <2>4. /\ NoPin(r) = SubSeq(r, 1, Len(s))
        /\ PinOf(r) = SubSeq(r, Len(s) + 1, Len(r))
    <3>1. FirstAt(r, "@") # 0 /\ FirstAt(r, "@") - 1 = Len(s)
      BY <1>2, <2>3
    <3> HIDE DEF r
    <3> QED BY <2>3, <3>1 DEF NoPin, PinOf, Before
  <2>5. SubSeq(r, 1, Len(s)) = s
    BY <1>1, <1>2
  <2>6. SubSeq(r, Len(s) + 1, Len(r)) = d
    BY <1>1, <1>2
  <2> QED BY <1>2, <2>4, <2>5, <2>6 DEF Ref
<1> QED BY <1>2, <1>3, <1>4 DEF Ref

\* What a reference names apart from its tag.
Path(r) == LET s == NoPin(r)
           IN  IF HasTag(s) THEN Before(s, LastAt(s, ":")) ELSE s

\* Host and name, as parseImageRef has them.
Named(path) ==
    LET slash == FirstAt(path, "/")
        first == IF slash = 0 THEN path ELSE Before(path, slash)
        hosted == slash # 0 /\ IsHost(first)
        hub == ~hosted \/ first = <<"docker.io">>
        name == IF hosted THEN After(path, slash) ELSE path
    IN  <<IF hub THEN Hub ELSE first,
          IF hub /\ FirstAt(name, "/") = 0
          THEN <<"library", "/">> \o name ELSE name>>

LEMMA PathSays ==
    ASSUME NEW r, NEW q, Path(r) = Path(q)
    PROVE  /\ ParseImageRef(r).host = ParseImageRef(q).host
           /\ ParseImageRef(r).name = ParseImageRef(q).name
<1>1. ASSUME NEW u
      PROVE  /\ ParseImageRef(u).host = Named(Path(u))[1]
             /\ ParseImageRef(u).name = Named(Path(u))[2]
  BY Zenon DEF ParseImageRef, Path, Named
<1> QED BY <1>1, Zenon

LEMMA OneMore ==
    ASSUME NEW p \in Seq(Sign), NEW t \in Seq(Sign), Len(t) = 1
    PROVE  /\ p \o t \in Seq(Sign) /\ Len(p \o t) = Len(p) + 1
           /\ \A i \in 1..Len(p) : (p \o t)[i] = p[i]
           /\ (p \o t)[Len(p) + 1] = t[1]
           /\ DOMAIN (p \o t) = 1..(Len(p) + 1)
<1> DEFINE n == p \o t
<1>1. /\ n \in Seq(Sign) /\ Len(n) = Len(p) + 1
      /\ \A i \in 1..(Len(p) + 1) : n[i] = IF i <= Len(p) THEN p[i] ELSE t[i - Len(p)]
  <2>1. /\ n \in Seq(Sign) /\ Len(n) = Len(p) + Len(t)
        /\ \A i \in 1..Len(p) + Len(t) : n[i] = IF i <= Len(p) THEN p[i] ELSE t[i - Len(p)]
    BY ConcatProperties, Zenon
  <2> HIDE DEF n
  <2> QED BY <2>1
<1> HIDE DEF n
<1>2. DOMAIN n = 1..(Len(p) + 1) /\ Len(p) \in Nat
  BY <1>1
<1>3. \A i \in 1..Len(p) : n[i] = p[i]
  BY <1>1, <1>2
<1>4. n[Len(p) + 1] = t[1]
  <2>1. Len(p) + 1 \in 1..(Len(p) + 1) /\ ~(Len(p) + 1 <= Len(p)) /\ Len(p) + 1 - Len(p) = 1
    BY <1>2
  <2> QED BY <1>1, <2>1
<1> QED BY <1>1, <1>2, <1>3, <1>4 DEF n

LEMMA LastOne ==
    ASSUME NEW n \in Seq(Sign), NEW k \in Nat, Len(n) = k + 1,
           NEW t \in Seq(Sign), Len(t) = 1, t[1] = n[k + 1]
    PROVE  SubSeq(n, k + 1, Len(n)) = t
<1> DEFINE u == SubSeq(n, k + 1, k + 1)
<1>1. \A i \in (k + 1)..(k + 1) : n[i] \in Sign
  OBVIOUS
<1>2. /\ u \in Seq(Sign) /\ Len(u) = 1
      /\ \A i \in 1..((k + 1) - (k + 1) + 1) : u[i] = n[(k + 1) + i - 1]
  BY <1>1, SubSeqProperties
<1> HIDE DEF u
<1>3. u[1] = n[k + 1]
  <2>1. 1 \in 1..((k + 1) - (k + 1) + 1) /\ (k + 1) + 1 - 1 = k + 1
    OBVIOUS
  <2> QED BY <1>2, <2>1
<1>4. \A i \in 1..Len(u) : i = 1
  BY <1>2
<1>5. u = t
  BY <1>2, <1>3, <1>4, SeqEqual
<1> QED BY <1>5 DEF u

\* replaceTag puts one word in the place of another, after the same colon.
LEMMA ReplaceTagIs ==
    ASSUME NEW r \in Ref, HasTag(NoPin(r)), NEW t \in Ref, Word(t),
           NEW k, k = LastAt(NoPin(r), ":")
    PROVE  LET s == NoPin(r)
               p == SubSeq(s, 1, k)
               q == ReplaceTag(r, t)
           IN  /\ k \in DOMAIN s /\ s \in Ref
               /\ q \in Ref /\ NoPin(q) = p \o t /\ PinOf(q) = PinOf(r)
               /\ LastAt(NoPin(q), ":") = k /\ HasTag(NoPin(q))
               /\ Before(NoPin(q), k) = Before(s, k)
               /\ SubSeq(NoPin(q), 1, k) = p
               /\ After(NoPin(q), k) = t
<1> DEFINE s == NoPin(r)
           d == PinOf(r)
           p == SubSeq(s, 1, k)
           n == p \o t
<1>1. /\ s \in Ref /\ d \in Ref /\ \A i \in DOMAIN s : s[i] # "@"
      /\ d = <<>> \/ (Len(d) > 0 /\ d[1] = "@")
  BY Pinned
<1>2. s \in Seq(Sign) /\ d \in Seq(Sign) /\ t \in Seq(Sign)
  BY <1>1 DEF Ref
<1> HIDE DEF s, d
<1>3. /\ k \in 0..Len(s) /\ Len(s) \in Nat /\ DOMAIN s = 1..Len(s)
      /\ k > LastAt(s, "/") /\ LastAt(s, "/") \in 0..Len(s)
      /\ \A i \in DOMAIN s : s[i] = "/" => i <= LastAt(s, "/")
      /\ \A i \in DOMAIN s : s[i] = ":" => i <= k
      /\ k = 0 \/ s[k] = ":"
  <2>1. k = LastAt(s, ":") /\ LastAt(s, ":") > LastAt(s, "/")
    BY DEF HasTag, s
  <2>2. Len(s) \in Nat /\ DOMAIN s = 1..Len(s)
    BY <1>2
  <2> QED BY <1>1, <2>1, <2>2, LastAtIs
<1>4. k \in 1..Len(s) /\ s[k] = ":"
  BY <1>3
<1>5. /\ Len(t) = 1 /\ t[1] \notin {":", "/", "@"}
  BY DEF Word
<1>6. /\ p \in Seq(Sign) /\ Len(p) = k /\ \A i \in 1..k : p[i] = s[i]
  BY <1>2, <1>4
<1>7. /\ n \in Seq(Sign) /\ Len(n) = k + 1 /\ DOMAIN n = 1..(k + 1)
      /\ \A i \in 1..k : n[i] = s[i]
      /\ n[k + 1] = t[1]
  <2> HIDE DEF p
  <2>1. /\ p \o t \in Seq(Sign) /\ Len(p \o t) = k + 1
        /\ \A i \in 1..k : (p \o t)[i] = p[i]
        /\ (p \o t)[k + 1] = t[1] /\ DOMAIN (p \o t) = 1..(k + 1)
    BY <1>2, <1>5, <1>6, OneMore
  <2> QED BY <1>6, <2>1
<1>8. \A i \in DOMAIN n : n[i] # "@"
  <2> HIDE DEF n
  <2>1. \A i \in 1..k : i \in DOMAIN s
    BY <1>3, <1>4
  <2>2. \A i \in 1..(k + 1) : i \in 1..k \/ i = k + 1
    BY <1>4
  <2> QED BY <1>1, <1>5, <1>7, <2>1, <2>2
<1>9. ReplaceTag(r, t) = n \o d
  <2>1. LastAt(s, ":") # 0 /\ SubSeq(s, 1, LastAt(s, ":")) = p
    BY <1>4 DEF s
  <2> QED BY <2>1, Zenon DEF ReplaceTag, s, d
<1> HIDE DEF n, p
<1>10. /\ n \in Ref /\ n \o d \in Ref /\ NoPin(n \o d) = n /\ PinOf(n \o d) = d
  BY <1>1, <1>7, <1>8, CutAgain DEF Ref
<1>11. LastAt(n, ":") = k
  <2>1. k \in DOMAIN n /\ n[k] = ":" /\ \A i \in DOMAIN n : n[i] = ":" => i <= k
    BY <1>3, <1>4, <1>5, <1>7
  <2> QED BY <1>10, <2>1, LastAtUnique
<1>12. LastAt(n, ":") > LastAt(n, "/")
  <2>1. /\ LastAt(n, "/") \in 0..Len(n)
        /\ LastAt(n, "/") = 0 \/ n[LastAt(n, "/")] = "/"
    BY <1>10, LastAtIs
  <2>2. \A i \in 1..(k + 1) : n[i] = "/" => i < k
    BY <1>3, <1>4, <1>5, <1>7
  <2> QED BY <1>4, <1>7, <1>11, <2>1, <2>2
<1>13. SubSeq(n, 1, k) = p
  BY <1>2, <1>4, <1>5, <1>6 DEF n
<1>14. SubSeq(n, 1, k - 1) = SubSeq(s, 1, k - 1)
  BY <1>2, <1>4, <1>7
<1>15. SubSeq(n, k + 1, Len(n)) = t
  <2>1. k \in Nat
    BY <1>3
  <2> QED BY <1>2, <1>5, <1>7, <2>1, LastOne
<1>16. DOMAIN s = 1..Len(s)
  BY <1>3
<1> QED BY <1>1, <1>4, <1>9, <1>10, <1>11, <1>12, <1>13, <1>14, <1>15, <1>16
        DEF Before, After, HasTag, s, d, n, p

\* What replaceTag leaves alone, and what it sets: host, path and digest, and
\* the tag; the last of two tags is the one that stays.
THEOREM RetagKeeps ==
    ASSUME NEW r \in Ref, HasTag(NoPin(r)), Parses(r), NEW t \in Ref, Word(t)
    PROVE  LET q == ReplaceTag(r, t)
           IN  /\ q \in Ref /\ HasTag(NoPin(q)) /\ Parses(q)
               /\ ImageTag(q) = t /\ PinOf(q) = PinOf(r)
               /\ ParseImageRef(q).host = ParseImageRef(r).host
               /\ ParseImageRef(q).name = ParseImageRef(r).name
               /\ \A u : ReplaceTag(q, u) = ReplaceTag(r, u)
<1> DEFINE s == NoPin(r)
           q == ReplaceTag(r, t)
<1>1. PICK k : k = LastAt(s, ":")
  OBVIOUS
<1>2. /\ k \in DOMAIN s /\ s \in Ref
      /\ q \in Ref /\ PinOf(q) = PinOf(r)
      /\ LastAt(NoPin(q), ":") = k /\ HasTag(NoPin(q))
      /\ Before(NoPin(q), k) = Before(s, k)
      /\ SubSeq(NoPin(q), 1, k) = SubSeq(s, 1, k)
      /\ After(NoPin(q), k) = t
  BY <1>1, ReplaceTagIs
<1>3. k # 0
  BY <1>2 DEF Ref
<1> HIDE DEF q, s
<1>4. Path(q) = Path(r)
  BY <1>1, <1>2 DEF Path, s
<1>5. ImageTag(q) = t
  BY <1>2, <1>3 DEF ImageTag
<1>6. Parses(q)
  <2> DEFINE path == Path(r)
             slash == FirstAt(path, "/")
             host == IF slash = 0 THEN <<>> ELSE Before(path, slash)
  <2>1. /\ PinOf(r) # <<>> => Len(PinOf(r)) = 4 /\ Word(SubSeq(PinOf(r), 4, 4))
        /\ path # <<>> /\ Word(<<path[Len(path)]>>)
        /\ LastAt(path, ":") # 0 => /\ LastAt(path, ":") = Len(host) - 1
                                   /\ FirstAt(path, ":") = LastAt(path, ":")
    BY Zenon DEF Parses, Path
  <2>2. Word(After(NoPin(q), LastAt(NoPin(q), ":")))
    BY <1>2
  <2>3. path = Path(q)
    BY <1>4
  <2> HIDE DEF path
  <2> QED BY <1>2, <2>1, <2>2, <2>3, Zenon DEF Parses, Path
<1>7. \A u : ReplaceTag(q, u) = ReplaceTag(r, u)
  BY <1>1, <1>2, <1>3 DEF ReplaceTag, s
<1> QED BY <1>2, <1>4, <1>5, <1>6, <1>7, PathSays DEF q

-----------------------------------------------------------------------------
(* References written from their parts, and what is read from them.        *)

\* r is a and b.
Joins(S, a, b, r) ==
    /\ r \in Seq(S) /\ Len(r) = Len(a) + Len(b)
    /\ Len(a) \in Nat /\ Len(b) \in Nat
    /\ DOMAIN r = 1..(Len(a) + Len(b))
    /\ \A i \in 1..Len(a) : r[i] = a[i]
    /\ \A i \in 1..Len(b) : r[Len(a) + i] = b[i]
    /\ SubSeq(r, 1, Len(a)) = a
    /\ SubSeq(r, Len(a) + 1, Len(r)) = b

LEMMA Joined ==
    ASSUME NEW S, NEW a \in Seq(S), NEW b \in Seq(S), NEW r, r = a \o b
    PROVE  Joins(S, a, b, r)
<1>1. a \in Seq(S) /\ b \in Seq(S)
  OBVIOUS
<1>2. Len(a) \in Nat /\ Len(b) \in Nat
  BY <1>1
<1>3. /\ r \in Seq(S) /\ Len(r) = Len(a) + Len(b)
      /\ \A i \in 1..Len(a) + Len(b) : r[i] = IF i <= Len(a) THEN a[i] ELSE b[i - Len(a)]
  BY <1>1, ConcatProperties, Zenon
<1>4. SubSeq(r, 1, Len(a)) = a /\ SubSeq(r, Len(a) + 1, Len(r)) = b
  <2>1. /\ SubSeq(a \o b, 1, Len(a)) = a
        /\ SubSeq(a \o b, Len(a) + 1, Len(a \o b)) = b
    BY <1>1
  <2> QED BY <2>1
<1>5. \A i \in 1..Len(a) : r[i] = a[i]
  BY <1>2, <1>3
<1>6. ASSUME NEW i \in 1..Len(b) PROVE r[Len(a) + i] = b[i]
  <2>1. Len(a) + i \in 1..Len(a) + Len(b) /\ ~(Len(a) + i <= Len(a)) /\ Len(a) + i - Len(a) = i
    BY <1>2
  <2> QED BY <1>3, <2>1
<1> QED BY <1>2, <1>3, <1>4, <1>5, <1>6 DEF Joins

\* r is a, the one word of w, and b; the word is the k-th.
Splits(S, a, w, b, r, k) ==
    /\ r \in Seq(S) /\ k \in DOMAIN r /\ r[k] = w[1] /\ k \in Nat \ {0}
    /\ DOMAIN r = 1..(k + Len(b)) /\ Len(r) = k + Len(b) /\ Len(b) \in Nat
    /\ \A i \in 1..(k - 1) : r[i] = a[i] /\ i \in DOMAIN a
    /\ \A i \in 1..Len(b) : r[k + i] = b[i] /\ i \in DOMAIN b
    /\ Before(r, k) = a /\ After(r, k) = b /\ SubSeq(r, 1, k) = a \o w

LEMMA Split ==
    ASSUME NEW S, NEW a \in Seq(S), NEW b \in Seq(S),
           NEW w \in Seq(S), Len(w) = 1, NEW r, r = (a \o w) \o b,
           NEW k, k = Len(a) + 1
    PROVE  Splits(S, a, w, b, r, k)
<1>1. w \in Seq(S) /\ Len(w) = 1
  OBVIOUS
<1>3. PICK m : m = a \o w
  OBVIOUS
<1>4. /\ m \in Seq(S) /\ Len(m) = Len(a) + Len(w) /\ Len(a) \in Nat
      /\ \A i \in 1..Len(a) : m[i] = a[i]
      /\ \A i \in 1..Len(w) : m[Len(a) + i] = w[i]
  <2>1. Joins(S, a, w, m)
    BY <1>1, <1>3, Joined, Zenon
  <2> QED BY <2>1 DEF Joins
<1>5. /\ Len(m) = k /\ m[k] = w[1] /\ k \in Nat \ {0} /\ k - 1 = Len(a)
      /\ \A i \in 1..(k - 1) : m[i] = a[i]
  BY <1>1, <1>4
<1>5a. r = m \o b
  BY <1>1, <1>3, Zenon
<1>6. r = a \o (w \o b)
  <2>1. (a \o w) \o b = a \o (w \o b)
    <3>1. w \in Seq(S)
      BY <1>1
    <3> QED BY <3>1, ConcatAssociative
  <2> QED BY <1>1, <2>1, Zenon
<1>7. /\ r \in Seq(S) /\ Len(r) = Len(m) + Len(b) /\ Len(b) \in Nat
      /\ DOMAIN r = 1..(Len(m) + Len(b))
      /\ \A i \in 1..Len(m) : r[i] = m[i]
      /\ \A i \in 1..Len(b) : r[Len(m) + i] = b[i]
      /\ SubSeq(r, 1, Len(m)) = m /\ SubSeq(r, Len(m) + 1, Len(r)) = b
  <2>1. m \in Seq(S)
    BY <1>4
  <2>2. Joins(S, m, b, r)
    BY <1>5a, <2>1, Joined, Zenon
  <2> QED BY <2>2 DEF Joins
<1>8. Before(r, k) = a
  <2>1. PICK v : v = w \o b
    OBVIOUS
  <2>1a. Joins(S, w, b, v)
    BY <1>1, <2>1, Joined, Zenon
  <2>1b. v \in Seq(S)
    BY <2>1a DEF Joins
  <2>1c. r = a \o v
    BY <1>6, <2>1, Zenon
  <2>2. Joins(S, a, v, r)
    BY <2>1b, <2>1c, Joined, Zenon
  <2>3. SubSeq(r, 1, Len(a)) = a
    BY <2>2 DEF Joins
  <2> QED BY <1>5, <2>3 DEF Before
<1>9. DOMAIN a = 1..(k - 1) /\ DOMAIN b = 1..Len(b)
  BY <1>5
<1>10. /\ k \in DOMAIN r /\ r[k] = w[1] /\ \A i \in 1..(k - 1) : r[i] = a[i]
       /\ Len(r) = k + Len(b) /\ DOMAIN r = 1..(k + Len(b))
       /\ \A i \in 1..Len(b) : r[k + i] = b[i]
  BY <1>5, <1>7
<1>11. After(r, k) = b /\ SubSeq(r, 1, k) = a \o w
  BY <1>1, <1>3, <1>5, <1>7, Zenon DEF After
<1> QED BY <1>5, <1>7, <1>8, <1>9, <1>10, <1>11 DEF Splits

\* What a reference may be written from: a host, the path of a repository
\* (which does not begin like a host if there is none), a tag of one word.
Parts(h, p, t) ==
    /\ h \in Ref /\ \A i \in DOMAIN h : h[i] \notin {"/", "@"}
    /\ p \in Ref /\ p # <<>> /\ \A i \in DOMAIN p : p[i] \notin {":", "@"}
    /\ h # <<>> => IsHost(h)
    /\ h = <<>> /\ FirstAt(p, "/") # 0 => ~IsHost(Before(p, FirstAt(p, "/")))
    /\ t \in Ref /\ (t = <<>> \/ Word(t))

Root(h, p) == (IF h = <<>> THEN <<>> ELSE h \o <<"/">>) \o p

LEMMA RootIs ==
    ASSUME NEW h, NEW p, NEW t, Parts(h, p, t), NEW r, r = Root(h, p)
    PROVE  /\ r \in Ref /\ r # <<>> /\ \A i \in DOMAIN r : r[i] # "@"
           /\ LastAt(r, ":") <= LastAt(r, "/")
           /\ h = <<>> => r = p
           /\ h # <<>> => /\ FirstAt(r, "/") # 0 /\ Before(r, FirstAt(r, "/")) = h
                          /\ After(r, FirstAt(r, "/")) = p
<1>1. /\ h \in Ref /\ p \in Ref /\ p # <<>> /\ Len(p) \in Nat /\ Len(h) \in Nat
      /\ \A i \in DOMAIN h : h[i] \notin {"/", "@"}
      /\ \A i \in DOMAIN p : p[i] \notin {":", "@"}
  BY DEF Parts, Ref
<1>2. CASE h = <<>>
  <2>1. r = p
    <3>1. <<>> \o p = p
      BY <1>1, ConcatEmptySeq DEF Ref
    <3> QED BY <1>2, <3>1 DEF Root
  <2>2. /\ LastAt(p, ":") \in 0..Len(p) /\ LastAt(p, "/") \in 0..Len(p)
        /\ LastAt(p, ":") = 0 \/ p[LastAt(p, ":")] = ":"
    BY <1>1, LastAtIs
  <2>3. DOMAIN p = 1..Len(p)
    BY <1>1 DEF Ref
  <2>4. LastAt(p, ":") = 0
    BY <1>1, <2>2, <2>3
  <2> QED BY <1>1, <1>2, <2>1, <2>2, <2>4
<1>3. CASE h # <<>>
  <2>1. PICK k : k = Len(h) + 1
    OBVIOUS
  <2>2. r = (h \o <<"/">>) \o p
    BY <1>3 DEF Root
  <2>3. /\ r \in Ref /\ k \in DOMAIN r /\ r[k] = "/" /\ k \in Nat \ {0}
        /\ DOMAIN r = 1..(k + Len(p)) /\ Len(r) = k + Len(p)
        /\ \A i \in 1..(k - 1) : r[i] = h[i] /\ i \in DOMAIN h
        /\ \A i \in 1..Len(p) : r[k + i] = p[i] /\ i \in DOMAIN p
        /\ Before(r, k) = h /\ After(r, k) = p
    <3>1. h \in Seq(Sign) /\ p \in Seq(Sign)
      BY <1>1 DEF Ref
    <3>2. <<"/">> \in Seq(Sign) /\ Len(<<"/">>) = 1 /\ <<"/">>[1] = "/"
      BY DEF Sign
    <3>3. PICK w \in Seq(Sign) : r = (h \o w) \o p /\ Len(w) = 1 /\ w[1] = "/"
      BY <2>2, <3>2
    <3>4. Splits(Sign, h, w, p, r, k)
      BY <2>1, <3>1, <3>3, Split, Zenon
    <3> QED BY <3>3, <3>4 DEF Splits, Ref
  <2>4. \A i \in DOMAIN r : i \in 1..(k - 1) \/ i = k \/ (i - k \in 1..Len(p) /\ i = k + (i - k))
    BY <1>1, <2>3
  <2>5. \A i \in DOMAIN r : i > k => r[i] \notin {":", "@"}
    BY <1>1, <2>3, <2>4
  <2>6. \A i \in DOMAIN r : i < k => r[i] \notin {"/", "@"}
    BY <1>1, <2>3, <2>4
  <2>7. FirstAt(r, "/") = k
    <3>1. \A i \in DOMAIN r : r[i] = "/" => k <= i
      BY <2>3, <2>6
    <3> QED BY <2>3, <3>1, FirstAtUnique
  <2>8. LastAt(r, ":") <= LastAt(r, "/")
    <3>1. /\ LastAt(r, ":") \in 0..Len(r) /\ LastAt(r, "/") \in 0..Len(r)
          /\ LastAt(r, ":") = 0 \/ r[LastAt(r, ":")] = ":"
          /\ k <= LastAt(r, "/")
      BY <2>3, LastAtIs
    <3>2. LastAt(r, ":") # 0 => LastAt(r, ":") \in DOMAIN r
      BY <1>1, <2>3, <3>1
    <3>3. LastAt(r, ":") <= k
      BY <1>1, <2>3, <2>5, <3>1, <3>2
    <3> QED BY <2>3, <3>1, <3>3
  <2>9. r # <<>> /\ \A i \in DOMAIN r : r[i] # "@"
    BY <2>3, <2>5, <2>6
  <2> QED BY <1>3, <2>3, <2>7, <2>8, <2>9
<1> QED BY <1>2, <1>3

LEMMA ColonIs == <<":">> \in Seq(Sign) /\ Len(<<":">>) = 1 /\ <<":">>[1] = ":"
BY DEF Sign

\* s is the root r, a colon, and a tag t, in which the tag is found again.
HasItsTag(r, t, s) ==
    /\ s \in Ref /\ \A i \in DOMAIN s : s[i] # "@"
    /\ HasTag(s) /\ LastAt(s, ":") # 0
    /\ Before(s, LastAt(s, ":")) = r /\ After(s, LastAt(s, ":")) = t
    /\ SubSeq(s, 1, LastAt(s, ":")) = r \o <<":">>

LEMMA TaggedIs ==
    ASSUME NEW h, NEW p, NEW t, Parts(h, p, t), t # <<>>,
           NEW r, r = Root(h, p), NEW s, s = r \o (<<":">> \o t)
    PROVE  HasItsTag(r, t, s)
<1>1. /\ r \in Ref /\ \A i \in DOMAIN r : r[i] # "@"
      /\ t \in Ref /\ Len(t) = 1 /\ t[1] \notin {":", "/", "@"}
  BY RootIs DEF Parts, Word
<1>2. PICK w \in Seq(Sign) : w = <<":">> /\ Len(w) = 1 /\ w[1] = ":"
  BY ColonIs
<1>3. r \in Seq(Sign) /\ t \in Seq(Sign)
  BY <1>1 DEF Ref
<1>4. s = (r \o w) \o t
  <2>1. s = r \o (w \o t)
    BY <1>2, Zenon
  <2>2. (r \o w) \o t = r \o (w \o t)
    BY <1>3, ConcatAssociative
  <2> QED BY <2>1, <2>2, Zenon
<1>5. PICK k : k = Len(r) + 1
  OBVIOUS
<1>6. Splits(Sign, r, w, t, s, k)
  <2>1. Len(w) = 1
    BY <1>2
  <2> QED BY <1>3, <1>4, <1>5, <2>1, Split, Zenon
<1>7. /\ s \in Ref /\ k \in DOMAIN s /\ s[k] = ":" /\ k \in Nat \ {0}
      /\ DOMAIN s = 1..(k + 1) /\ Len(s) = k + 1
      /\ \A i \in 1..(k - 1) : s[i] = r[i] /\ i \in DOMAIN r
      /\ s[k + 1] = t[1]
      /\ Before(s, k) = r /\ After(s, k) = t
  <2>1. 1 \in 1..Len(t)
    BY <1>1
  <2>2. \A i \in 1..Len(t) : s[k + i] = t[i]
    BY <1>6, Zenon DEF Splits
  <2>3. s[k + 1] = t[1]
    BY <2>1, <2>2
  <2> QED BY <1>1, <1>2, <1>6, <2>3 DEF Splits, Ref
<1>8. ASSUME NEW i \in DOMAIN s
      PROVE  \/ i < k /\ i \in DOMAIN r /\ s[i] = r[i]
             \/ i = k /\ s[i] = ":"
             \/ i = k + 1 /\ s[i] = t[1]
  <2>1. k \in Nat /\ DOMAIN s = 1..(k + 1)
    BY <1>7
  <2>2. i \in 1..(k - 1) \/ i = k \/ i = k + 1
    BY <2>1
  <2>3. \/ i \in 1..(k - 1) /\ s[i] = r[i] /\ i \in DOMAIN r
        \/ i = k /\ s[i] = ":"
        \/ i = k + 1 /\ s[i] = t[1]
    BY <1>7, <2>2, Zenon
  <2> QED BY <2>1, <2>3
<1>9. LastAt(s, ":") = k
  <2>1. \A i \in DOMAIN s : s[i] = ":" => i <= k
    <3>1. k \in Nat
      BY <1>7
    <3> QED BY <1>1, <1>8, <3>1
  <2> QED BY <1>7, <2>1, LastAtUnique
<1>10. LastAt(s, "/") < k
  <2>1. /\ LastAt(s, "/") \in 0..Len(s)
        /\ LastAt(s, "/") = 0 \/ s[LastAt(s, "/")] = "/"
    BY <1>7, LastAtIs
  <2>2. \A i \in DOMAIN s : s[i] = "/" => i < k
    BY <1>1, <1>8
  <2>3. k \in Nat \ {0} /\ Len(s) \in Nat /\ DOMAIN s = 1..Len(s)
    BY <1>7
  <2> QED BY <2>1, <2>2, <2>3
<1>11. \A i \in DOMAIN s : s[i] # "@"
  BY <1>1, <1>8
<1>12. HasTag(s) /\ k # 0
  <2>1. LastAt(s, "/") \in Nat
    BY <1>7, LastAtIs
  <2> QED BY <1>7, <1>9, <1>10, <2>1 DEF HasTag
<1>13. SubSeq(s, 1, k) = r \o <<":">>
  BY <1>2, <1>6, Zenon DEF Splits
<1> QED BY <1>7, <1>9, <1>11, <1>12, <1>13, Zenon DEF HasItsTag

Pin(d) == IF d = <<>> THEN <<>> ELSE <<"@", "sha256", ":">> \o d
Tagged(r, t) == IF t = <<>> THEN r ELSE r \o (<<":">> \o t)

LEMMA PinIs ==
    ASSUME NEW d \in Ref
    PROVE  /\ Pin(d) \in Ref
           /\ Pin(d) = <<>> \/ (Len(Pin(d)) > 0 /\ Pin(d)[1] = "@")
<1>1. CASE d = <<>>
  BY <1>1 DEF Pin, Ref
<1>2. CASE d # <<>>
  <2> DEFINE v == <<"@", "sha256", ":">>
  <2>0. v \in Seq(Sign) /\ Len(v) = 3 /\ v[1] = "@"
    <3>1. "@" \in Sign /\ "sha256" \in Sign /\ ":" \in Sign
      BY DEF Sign
    <3> QED BY <3>1
  <2>1. PICK w \in Seq(Sign) : w = v /\ Len(w) = 3 /\ w[1] = "@"
    BY <2>0, Zenon
  <2>2. PICK r : r = w \o d
    OBVIOUS
  <2>3. Joins(Sign, w, d, r)
    BY <2>1, <2>2, Joined, Zenon DEF Ref
  <2>4. r \in Seq(Sign) /\ Len(r) > 0 /\ r[1] = "@"
    BY <2>1, <2>3 DEF Joins
  <2>5. Pin(d) = r
    BY <1>2, <2>1, <2>2, Zenon DEF Pin
  <2> QED BY <2>4, <2>5 DEF Ref
<1> QED BY <1>1, <1>2

\* A reference is its root, with the tag if there is one, and the digest.
LEMMA WholeIs ==
    ASSUME NEW h, NEW p, NEW t, Parts(h, p, t), NEW d \in Ref,
           NEW r, r = Whole(h, p, t, d)
    PROVE  /\ NoPin(r) = Tagged(Root(h, p), t) /\ PinOf(r) = Pin(d)
           /\ r = Tagged(Root(h, p), t) \o Pin(d)
<1>1. PICK q : q = Root(h, p)
  OBVIOUS
<1>2. /\ q \in Ref /\ \A i \in DOMAIN q : q[i] # "@"
  BY <1>1, RootIs
<1>3. q \o <<>> = q
  BY <1>2 DEF Ref
<1>4. PICK s : s = Tagged(q, t)
  OBVIOUS
<1>5. r = s \o Pin(d)
  <2>1. CASE t = <<>>
    BY <1>1, <1>3, <1>4, <2>1, Zenon DEF Whole, Root, Tagged, Pin
  <2>2. CASE t # <<>>
    BY <1>1, <1>4, <2>2, Zenon DEF Whole, Root, Tagged, Pin
  <2> QED BY <2>1, <2>2
<1>6. s \in Ref /\ \A i \in DOMAIN s : s[i] # "@"
  <2>1. CASE t = <<>>
    BY <1>2, <1>4, <2>1 DEF Tagged
  <2>2. CASE t # <<>>
    <3>1. s = q \o (<<":">> \o t)
      BY <1>4, <2>2, Zenon DEF Tagged
    <3>2. HasItsTag(q, t, s)
      BY <1>1, <2>2, <3>1, TaggedIs, Zenon
    <3> QED BY <3>2 DEF HasItsTag
  <2> QED BY <2>1, <2>2
<1>7. NoPin(s \o Pin(d)) = s /\ PinOf(s \o Pin(d)) = Pin(d)
  <2>1. PICK e \in Ref : e = Pin(d)
    BY PinIs
  <2>2. e = <<>> \/ (Len(e) > 0 /\ e[1] = "@")
    BY <2>1, PinIs
  <2>3. NoPin(s \o e) = s /\ PinOf(s \o e) = e
    BY <1>6, <2>2, CutAgain, Zenon
  <2> QED BY <2>1, <2>3, Zenon
<1> QED BY <1>1, <1>4, <1>5, <1>7, Zenon

\* The root says which host, and which name on it.
OnHub(h) == h \in {<<>>, <<"docker.io">>}
HostRead(h) == IF OnHub(h) THEN Hub ELSE h
NameRead(h, p) == IF OnHub(h) /\ FirstAt(p, "/") = 0
                  THEN <<"library", "/">> \o p ELSE p

LEMMA RootNames ==
    ASSUME NEW h, NEW p, NEW t, Parts(h, p, t), NEW r, r = Root(h, p)
    PROVE  Named(r) = <<HostRead(h), NameRead(h, p)>>
<1>1. CASE h = <<>>
  <2>1. r = p
    BY <1>1, RootIs, Zenon
  <2>2. FirstAt(p, "/") # 0 => ~IsHost(Before(p, FirstAt(p, "/")))
    BY <1>1, Zenon DEF Parts
  <2>3. OnHub(h)
    BY <1>1 DEF OnHub
  <2> QED BY <2>1, <2>2, <2>3 DEF Named, HostRead, NameRead
<1>2. CASE h # <<>>
  <2>1. /\ FirstAt(r, "/") # 0 /\ Before(r, FirstAt(r, "/")) = h
        /\ After(r, FirstAt(r, "/")) = p
    BY <1>2, RootIs, Zenon
  <2>2. IsHost(h)
    BY <1>2, Zenon DEF Parts
  <2>3. OnHub(h) <=> h = <<"docker.io">>
    BY <1>2 DEF OnHub
  <2> QED BY <2>1, <2>2, <2>3 DEF Named, HostRead, NameRead
<1> QED BY <1>1, <1>2

\* Whatever a reference is written from, a host with a port, a path, a tag, a
\* digest: the poller's client (registry.go, parseImageRef), the pull's
\* credentials (registryHost) and, when it names a tag, the executor
\* (imageTag), compose (replaceTag) and the webhook find its parts again.
THEOREM WholeRead ==
    ASSUME NEW h, NEW p, NEW t, Parts(h, p, t), NEW d \in Ref,
           NEW r, r = Whole(h, p, t, d)
    PROVE  /\ ParseImageRef(r) =
                [host |-> HostRead(h), name |-> NameRead(h, p),
                 tag |-> IF t = <<>> THEN <<"latest">> ELSE t]
           /\ RegistryHost(r) = IF h = <<>> THEN Hub ELSE h
           /\ t # <<>> =>
                /\ ImageTag(r) = t
                /\ \A u \in Ref \ {<<>>} : ReplaceTag(r, u) = Whole(h, p, u, d)
                /\ d = <<>> => PushedName(r) = Whole(h, p, <<>>, <<>>)
<1>1. PICK q : q = Root(h, p)
  OBVIOUS
<1>2. PICK s : s = Tagged(q, t)
  OBVIOUS
<1>3. NoPin(r) = s /\ PinOf(r) = Pin(d) /\ r = s \o Pin(d)
  <2>1. s = Tagged(Root(h, p), t)
    BY <1>1, <1>2, Zenon
  <2> QED BY <2>1, WholeIs
<1>4. q \in Ref /\ q # <<>> /\ ~HasTag(q)
  <2>1. q \in Ref /\ q # <<>> /\ LastAt(q, ":") <= LastAt(q, "/")
    BY <1>1, RootIs
  <2>2. LastAt(q, ":") \in 0..Len(q) /\ LastAt(q, "/") \in 0..Len(q) /\ Len(q) \in Nat
    BY <2>1, LastAtIs DEF Ref
  <2> QED BY <2>1, <2>2 DEF HasTag
<1>5. t # <<>> => HasItsTag(q, t, s)
  <2>1. t # <<>> => s = q \o (<<":">> \o t)
    BY <1>2, Zenon DEF Tagged
  <2> QED BY <1>1, <2>1, TaggedIs, Zenon
<1>6. /\ HasTag(s) <=> t # <<>>
      /\ Path(r) = q
      /\ t # <<>> => After(s, LastAt(s, ":")) = t
  <2>1. CASE t = <<>>
    <3>1. s = q
      BY <1>2, <2>1, Zenon DEF Tagged
    <3>2. ~HasTag(s)
      BY <1>4, <3>1
    <3> QED BY <1>3, <2>1, <3>1, <3>2 DEF Path
  <2>2. CASE t # <<>>
    BY <1>3, <1>5, <2>2 DEF Path, HasItsTag
  <2> QED BY <2>1, <2>2
<1>7. ParseImageRef(r) = [host |-> Named(q)[1], name |-> Named(q)[2],
                          tag |-> IF t = <<>> THEN <<"latest">> ELSE t]
  <2>1. ParseImageRef(r) =
           [host |-> Named(Path(r))[1], name |-> Named(Path(r))[2],
            tag |-> IF HasTag(NoPin(r)) THEN After(NoPin(r), LastAt(NoPin(r), ":"))
                    ELSE <<"latest">>]
    BY Zenon DEF ParseImageRef, Path, Named
  <2> QED BY <1>3, <1>6, <2>1
<1>8. Named(q) = <<HostRead(h), NameRead(h, p)>>
  BY <1>1, RootNames
<1>9. RegistryHost(r) = IF h = <<>> THEN Hub ELSE h
  <2>1. RegistryHost(r) =
           IF FirstAt(q, "/") # 0 /\ IsHost(Before(q, FirstAt(q, "/")))
           THEN Before(q, FirstAt(q, "/")) ELSE Hub
    BY <1>6, Zenon DEF RegistryHost, Path
  <2>2. CASE h = <<>>
    <3>1. q = p
      BY <1>1, <2>2, RootIs, Zenon
    <3>2. FirstAt(p, "/") # 0 => ~IsHost(Before(p, FirstAt(p, "/")))
      BY <2>2, Zenon DEF Parts
    <3> QED BY <2>1, <2>2, <3>1, <3>2
  <2>3. CASE h # <<>>
    <3>1. FirstAt(q, "/") # 0 /\ Before(q, FirstAt(q, "/")) = h
      BY <1>1, <2>3, RootIs, Zenon
    <3>2. IsHost(h)
      BY <2>3, Zenon DEF Parts
    <3> QED BY <2>1, <2>3, <3>1, <3>2
  <2> QED BY <2>2, <2>3
<1>10. ASSUME t # <<>>
       PROVE  ImageTag(r) = t
  BY <1>3, <1>5, <1>10 DEF ImageTag, HasItsTag
<1>11. ASSUME t # <<>>, NEW u \in Ref \ {<<>>}
       PROVE  ReplaceTag(r, u) = Whole(h, p, u, d)
  <2>1. ReplaceTag(r, u) = ((q \o <<":">>) \o u) \o Pin(d)
    <3>1. /\ LastAt(NoPin(r), ":") # 0
          /\ SubSeq(NoPin(r), 1, LastAt(NoPin(r), ":")) = q \o <<":">>
      BY <1>3, <1>5, <1>11, Zenon DEF HasItsTag
    <3> QED BY <1>3, <3>1, Zenon DEF ReplaceTag
  <2>2. (q \o <<":">>) \o u = q \o (<<":">> \o u)
    <3>1. /\ q \in Seq(Sign) /\ u \in Seq(Sign) /\ <<":">> \in Seq(Sign)
      BY <1>4, ColonIs DEF Ref
    <3> QED BY <3>1, ConcatAssociative
  <2>3. Whole(h, p, u, d) = (q \o (<<":">> \o u)) \o Pin(d)
    <3>1. u # <<>>
      OBVIOUS
    <3> QED BY <1>1, <3>1, Zenon DEF Whole, Root, Pin
  <2> QED BY <2>1, <2>2, <2>3, Zenon
<1>12. ASSUME t # <<>>, d = <<>>
       PROVE  PushedName(r) = Whole(h, p, <<>>, <<>>)
  <2>1. q \o <<>> = q
    BY <1>4 DEF Ref
  <2>2. Whole(h, p, <<>>, <<>>) = q
    BY <1>1, <2>1, Zenon DEF Whole, Root
  <2>3. r = s
    <3>1. s \in Seq(Sign)
      BY <1>5, <1>12 DEF HasItsTag, Ref
    <3>2. s \o <<>> = s
      BY <3>1
    <3>3. Pin(d) = <<>>
      BY <1>12 DEF Pin
    <3> QED BY <1>3, <3>2, <3>3, Zenon
  <2>4. LastAt(s, ":") # 0 /\ Before(s, LastAt(s, ":")) = q
    BY <1>5, <1>12, Zenon DEF HasItsTag
  <2> QED BY <2>2, <2>3, <2>4, Zenon DEF PushedName
<1> QED BY <1>7, <1>8, <1>9, <1>10, <1>11, <1>12

-----------------------------------------------------------------------------
(* FileUsable and StaysInLine.                                             *)

\* The file and the pushes name tags, as those of a webhook do.
NamesTag == \A r \in {First} \cup Pushed : HasTag(NoPin(r))

\* The image that the file began with, by whatever tag of the run; of these,
\* the ones with a tag in T.
Kin == {First} \cup {ReplaceTag(First, t) : t \in Tags}
KinOf(T) == {r \in Kin : TagOf[r] \in T}

LEMMA TagsAreWords ==
    ASSUME NamesTag
    PROVE  \A t \in Tags : t \in Ref /\ Word(t)
<1> SUFFICES ASSUME NEW r \in {First} \cup Pushed
             PROVE  ImageTag(r) \in Ref /\ Word(ImageTag(r))
  BY DEF Tags
<1>1. r \in Ref /\ Parses(r) /\ HasTag(NoPin(r)) /\ NoPin(r) \in Ref
  BY Given, Pinned DEF NamesTag
<1>2. PICK s \in Ref : s = NoPin(r)
  BY <1>1
<1>3. PICK k \in 1..Len(s) : k = LastAt(s, ":")
  <2>1. /\ LastAt(s, ":") \in 0..Len(s) /\ LastAt(s, "/") \in 0..Len(s)
        /\ LastAt(s, ":") > LastAt(s, "/") /\ Len(s) \in Nat
    BY <1>1, <1>2, LastAtIs DEF HasTag, Ref
  <2> QED BY <2>1
<1>4. ImageTag(r) = After(s, k) /\ k # 0
  BY <1>2, <1>3 DEF ImageTag
<1>5. After(s, k) \in Ref
  BY <1>3 DEF After, Ref
<1>6. Word(After(s, k))
  BY <1>1, <1>2, <1>3, Zenon DEF Parses
<1> QED BY <1>4, <1>5, <1>6

\* Every tag can be given to each of them, and is then the tag it has.
LEMMA KinKeep ==
    ASSUME NamesTag
    PROVE  /\ Kin \subseteq Images /\ First \in Kin /\ TagOf[First] \in Tags
           /\ \A r \in Kin : /\ r \in Readable /\ Repository[r] = Repository[First]
                             /\ TagOf[r] \in Tags
                             /\ \A t \in Tags : /\ Retagged[r][t] \in Kin
                                                /\ TagOf[Retagged[r][t]] = t
<1>1. First \in Ref /\ Parses(First) /\ HasTag(NoPin(First))
  BY Given DEF NamesTag
<1>2. Kin \subseteq Images /\ First \in Kin
  BY DEF Kin, Images
<1>3. \A r \in Images : /\ TagOf[r] = ImageTag(r) /\ (r \in Readable <=> Parses(r))
                        /\ Repository[r] = <<ParseImageRef(r).host, ParseImageRef(r).name>>
                        /\ \A t \in Tags : Retagged[r][t] = ReplaceTag(r, t)
  BY DEF TagOf, Readable, Repository, Retagged
<1>4. ASSUME NEW t \in Tags
      PROVE  LET q == ReplaceTag(First, t)
             IN  /\ q \in Kin /\ ImageTag(q) = t /\ Parses(q)
                 /\ ParseImageRef(q).host = ParseImageRef(First).host
                 /\ ParseImageRef(q).name = ParseImageRef(First).name
                 /\ \A u : ReplaceTag(q, u) = ReplaceTag(First, u)
  <2>1. t \in Ref /\ Word(t)
    BY TagsAreWords
  <2> QED BY <1>1, <2>1, RetagKeeps DEF Kin
<1>5. ImageTag(First) \in Tags
  BY DEF Tags
<1>6. ASSUME NEW r \in Kin
      PROVE  /\ r \in Readable /\ Repository[r] = Repository[First]
             /\ TagOf[r] \in Tags
             /\ \A t \in Tags : ReplaceTag(r, t) = ReplaceTag(First, t)
  <2>1. CASE r = First
    BY <1>1, <1>2, <1>3, <1>5, <2>1
  <2>2. ASSUME NEW t \in Tags, r = ReplaceTag(First, t)
        PROVE  /\ r \in Readable /\ Repository[r] = Repository[First]
               /\ TagOf[r] \in Tags
               /\ \A u \in Tags : ReplaceTag(r, u) = ReplaceTag(First, u)
    BY <1>2, <1>3, <1>4, <2>2
  <2> QED BY <2>1, <2>2 DEF Kin
<1>7. ASSUME NEW r \in Kin, NEW t \in Tags
      PROVE  Retagged[r][t] \in Kin /\ TagOf[Retagged[r][t]] = t
  <2>1. Retagged[r][t] = ReplaceTag(First, t)
    BY <1>2, <1>3, <1>6
  <2> QED BY <1>2, <1>3, <1>4, <2>1
<1> QED BY <1>2, <1>3, <1>5, <1>6, <1>7

FileOf(f, T) == f = Bad \/ f.image \in KinOf(T)

\* Whatever names an image names one of the kin: the file and what is to be
\* written to it, the service and what the store knows of it, and compose.
ImagesOK(T) ==
    /\ file = [image |-> file.image, edit |-> file.edit] /\ FileOf(file, T)
    /\ dep.pc # "idle" => dep.tag \in T
    /\ dep.pc \in {"cut", "write"} =>
         /\ dep.next = [image |-> dep.next.image, edit |-> dep.next.edit]
         /\ FileOf(dep.next, T)
    /\ runs \in KinOf(T) /\ seen \in KinOf(T)
    /\ event = <<>> \/ \E r \in Kin \cup Pushed : event = <<r>>
    /\ child.pc = "running" => child.image \in KinOf(T)

LEMMA ImagesInit ==
    ASSUME NamesTag, NEW T, TagOf[First] \in T, Init
    PROVE  ImagesOK(T)
<1>1. First \in KinOf(T)
  BY KinKeep DEF KinOf
<1>2. /\ file = [image |-> First, edit |-> 0] /\ dep.pc = "idle" /\ event = <<>>
      /\ runs = First /\ seen = First /\ child.pc = "none"
  BY DEF Init, NoDep, NoChild
<1> QED BY <1>1, <1>2 DEF ImagesOK, FileOf

\* T is kept to if the strategy lets no other tag through.
LEMMA ImagesNext ==
    ASSUME NamesTag, NEW T, T \subseteq Tags, TagOf[First] \in T,
           Types, ImagesOK(T), [Next]_vars,
           \A r \in Kin \cup Pushed : Evaluate(r) => TagOf[r] \in T
    PROVE  ImagesOK(T)'
<1>1. DepShape /\ ChildShape
  BY DEF Types, DeployOK
<1>2. First \in KinOf(T) /\ \A r \in KinOf(T), t \in T : Retagged[r][t] \in KinOf(T)
  BY KinKeep DEF KinOf
<1>3. CASE UNCHANGED vars
  BY <1>3 DEF vars, fileVars, upVars, ImagesOK
<1>4. CASE Skip
  <2>1. event' = <<>>
    <3>1. PICK r : event = <<r>>
      BY <1>4 DEF Skip, ImagesOK
    <3> QED BY <1>4, <3>1 DEF Skip
  <2> QED BY <1>4, <2>1 DEF Skip, fileVars, upVars, ImagesOK
<1>5. ASSUME NEW j \in Job, Begin(j) PROVE ImagesOK(T)'
  <2>1. PICK r \in Kin \cup Pushed : event = <<r>>
    BY <1>5 DEF Begin, ImagesOK
  <2>2. event' = <<>> /\ Evaluate(r)
    BY <1>5, <2>1 DEF Begin
  <2>3. /\ dep' = [NoDep EXCEPT !.pc = "copy", !.job = j, !.data = file,
                                !.tag = TagOf[r], !.at = now]
        /\ UNCHANGED <<file, runs, seen, child>>
    BY <1>5, <2>1 DEF Begin, fileVars, upVars
  <2>4. dep'.pc = "copy" /\ dep'.tag = TagOf[r]
    BY <2>3 DEF NoDep
  <2>5. TagOf[r] \in T
    BY <2>2
  <2> QED BY <2>2, <2>3, <2>4, <2>5 DEF ImagesOK
<1>6. CASE Copy \/ Fill \/ CutFile \/ CallFails \/ Up \/ Waited
  <2>1. /\ dep.pc # "idle" /\ UNCHANGED <<runs, seen, event>>
        /\ file' = file \/ file' = Bad
        /\ \/ dep.pc = "cut" /\ dep' = [dep EXCEPT !.pc = "write"]
           \/ \E l \in {"fill", "read", "failed", "wait", "done"} :
                 dep' = [dep EXCEPT !.pc = l]
    BY <1>6 DEF Copy, Fill, CutFile, CallFails, Up, Waited, fileVars
  <2>2. child' = child \/ child'.pc # "running"
    <3>1. CASE Up
      <4>1. PICK n : child' = [NoChild EXCEPT !.pc = "starting", !.left = n]
        BY <3>1 DEF Up
      <4> QED BY <4>1 DEF NoChild
    <3>2. CASE Waited
      BY <3>2 DEF Waited, NoChild
    <3>3. CASE Copy \/ Fill \/ CutFile \/ CallFails
      BY <3>3 DEF Copy, Fill, CutFile, CallFails, upVars
    <3> QED BY <1>6, <3>1, <3>2, <3>3
  <2>3. /\ dep'.tag = dep.tag /\ dep'.next = dep.next
        /\ dep'.pc \in {"cut", "write"} => dep.pc \in {"cut", "write"}
    BY <1>1, <2>1 DEF DepShape
  <2>4. Bad = [image |-> Bad.image, edit |-> Bad.edit]
    BY DEF Bad
  <2> QED BY <2>1, <2>2, <2>3, <2>4 DEF ImagesOK, FileOf
<1>7. CASE Patch
  <2>1. dep.pc = "read" /\ UNCHANGED <<file, runs, seen, event, child>>
    BY <1>7 DEF Patch, fileVars, upVars
  <2>2. dep.tag \in T
    BY <2>1 DEF ImagesOK
  <2>3. CASE dep' = [dep EXCEPT !.pc = "failed"]
    <3>1. dep'.pc = "failed" /\ dep'.tag = dep.tag
      BY <1>1, <2>3 DEF DepShape
    <3> QED BY <2>1, <2>2, <3>1 DEF ImagesOK
  <2>4. ASSUME NEW n, n = [image |-> n.image, edit |-> n.edit], FileOf(n, T),
               dep' = [dep EXCEPT !.pc = "cut", !.next = n]
        PROVE  ImagesOK(T)'
    <3>1. dep'.pc = "cut" /\ dep'.tag = dep.tag /\ dep'.next = n
      BY <1>1, <2>4 DEF DepShape
    <3> QED BY <2>1, <2>2, <2>4, <3>1 DEF ImagesOK
  <2>5. CASE file # Bad
    <3>1. PICK i : i = Retagged[file.image][dep.tag]
      OBVIOUS
    <3>2. i \in KinOf(T)
      BY <1>2, <2>2, <2>5, <3>1 DEF ImagesOK, FileOf
    <3>3. PICK n : n = [file EXCEPT !.image = i]
      OBVIOUS
    <3>4. n = [image |-> n.image, edit |-> n.edit] /\ n.image = i
      BY <3>3 DEF ImagesOK
    <3>5. dep' = [dep EXCEPT !.pc = "cut", !.next = n]
      BY <1>7, <2>5, <3>1, <3>3 DEF Patch
    <3> QED BY <2>4, <3>2, <3>4, <3>5 DEF FileOf
  <2>6. CASE file = Bad
    <3>1. Bad = [image |-> Bad.image, edit |-> Bad.edit] /\ FileOf(Bad, T)
      BY DEF Bad, FileOf
    <3> QED BY <1>7, <2>3, <2>4, <2>6, <3>1 DEF Patch
  <2> QED BY <2>5, <2>6
<1>8. CASE WriteFile
  <2>1. /\ dep.pc = "write" /\ dep' = [dep EXCEPT !.pc = "up"] /\ file' = dep.next
        /\ UNCHANGED <<runs, seen, event, child>>
    BY <1>8 DEF WriteFile, upVars
  <2>2. dep'.pc = "up" /\ dep'.tag = dep.tag
    BY <1>1, <2>1 DEF DepShape
  <2> QED BY <2>1, <2>2 DEF ImagesOK
<1>9. CASE End \/ Crash
  <2>1. /\ UNCHANGED <<file, runs>>
        /\ child' = child \/ child'.pc # "running"
        /\ event' = event \/ event' = <<>>
        /\ seen' = seen \/ seen' = runs
    BY <1>9 DEF End, Crash, fileVars, upVars, NoChild
  <2>2. dep'.pc = "idle"
    BY <1>9 DEF End, Crash, NoDep
  <2> QED BY <2>1, <2>2 DEF ImagesOK
<1>10. CASE ComposeReads
  <2>1. /\ UNCHANGED <<file, dep, runs, seen, event>>
        /\ child' = [child EXCEPT !.image = file.image,
                       !.pc = IF file = Bad \/ file.image \notin Readable THEN "error"
                              ELSE "running"]
    BY <1>10 DEF ComposeReads, fileVars
  <2>2. child'.pc = "running" => child'.image = file.image /\ file # Bad
    BY <1>1, <2>1 DEF ChildShape
  <2> QED BY <2>1, <2>2 DEF ImagesOK, FileOf
<1>11. CASE Exit
  <2>1. /\ UNCHANGED <<file, dep, seen, event>> /\ child.pc = "running"
        /\ runs' = runs \/ runs' = child.image
        /\ \E l \in {"ok", "error"} : child' = [child EXCEPT !.pc = l]
    BY <1>11 DEF Exit, fileVars
  <2>2. child'.pc # "running"
    BY <1>1, <2>1 DEF ChildShape
  <2> QED BY <2>1, <2>2 DEF ImagesOK
<1>12. ASSUME NEW p \in Pipe, NEW k, Output(p, k),
              UNCHANGED <<file, dep, runs, seen, event>>
       PROVE  ImagesOK(T)'
  <2>1. \E n : child' = [child EXCEPT !.left = n]
    BY <1>12 DEF Output
  <2>2. child'.pc = child.pc /\ child'.image = child.image
    BY <1>1, <2>1 DEF ChildShape
  <2> QED BY <1>12, <2>2 DEF ImagesOK
<1>13. CASE OutputLong \/ \E p \in Pipe : OutputLine(p)
  BY <1>12, <1>13 DEF OutputLong, OutputLine, fileVars
<1>14. CASE Learn
  BY <1>14 DEF Learn, fileVars, upVars, ImagesOK
<1>15. CASE \/ Pass \/ (\E p \in Pipe : Scan(p)) \/ \E r \in Reader : Watch(r) \/ Browse(r)
  <2>1. UNCHANGED <<file, dep, runs, seen, event, child>>
    BY <1>15 DEF Pass, Scan, Watch, Browse, fileVars, upVars
  <2> QED BY <2>1 DEF ImagesOK
<1>16. CASE Announce
  <2>1. UNCHANGED <<file, dep, runs, seen, child>>
    BY <1>16 DEF Announce, fileVars, upVars
  <2>2. \E r \in Kin \cup Pushed : event' = <<r>>
    <3>1. seen \in Kin
      BY DEF ImagesOK, KinOf
    <3> QED BY <1>16, <3>1 DEF Announce
  <2> QED BY <2>1, <2>2 DEF ImagesOK
<1>17. CASE Edit
  <2>1. /\ UNCHANGED <<dep, runs, seen, event, child>>
        /\ file' = [image |-> IF file = Bad THEN First ELSE file.image, edit |-> spent']
    BY <1>17 DEF Edit, upVars
  <2>2. file'.image \in KinOf(T) /\ file' = [image |-> file'.image, edit |-> file'.edit]
    BY <1>2, <2>1 DEF ImagesOK, FileOf
  <2> QED BY <2>1, <2>2 DEF ImagesOK, FileOf
<1> QED BY <1>3, <1>4, <1>5, <1>6, <1>7, <1>8, <1>9, <1>10, <1>11, <1>13, <1>14,
           <1>15, <1>16, <1>17 DEF Next, Executor, ChildStep

LEMMA ImagesHold == ASSUME NamesTag PROVE Spec => []ImagesOK(Tags)
<1>1. Init => ImagesOK(Tags)
  BY KinKeep, ImagesInit
<1>2. Types /\ ImagesOK(Tags) /\ [Next]_vars => ImagesOK(Tags)'
  <2> SUFFICES ASSUME Types, ImagesOK(Tags), [Next]_vars
               PROVE  ImagesOK(Tags)'
    OBVIOUS
  <2>1. \A r \in Kin \cup Pushed : TagOf[r] \in Tags
    <3>1. \A r \in Pushed : TagOf[r] \in Tags
      BY DEF TagOf, Tags, Images
    <3> QED BY <3>1, KinKeep
  <2> QED BY <2>1, KinKeep, ImagesNext
<1> QED BY <1>1, <1>2, TypesHold, PTL DEF Spec

\* Whatever is announced, saved or cut short, and wherever the process ends,
\* the file that is not cut short names an image that Docker can read, of the
\* repository it named at first (compose/updater.go, replaceTag): for every
\* file and push that names a tag.
THEOREM FileUsableHolds ==
    ASSUME NamesTag
    PROVE  Spec => []FileUsable
<1>1. ImagesOK(Tags) => FileUsable
  BY KinKeep DEF ImagesOK, FileOf, KinOf, FileUsable
<1> QED BY <1>1, ImagesHold, PTL

LEMMA OneWord ==
    ASSUME NEW a \in Sign, NEW w, w = <<a>>
    PROVE  w \in Ref /\ w # <<>> /\ Len(w) = 1 /\ DOMAIN w = {1} /\ w[1] = a
BY DEF Ref

LEMMA ThreeWords ==
    ASSUME NEW a \in Sign, NEW b \in Sign, NEW c \in Sign, NEW w, w = <<a, b, c>>
    PROVE  /\ w \in Ref /\ w # <<>> /\ Len(w) = 3 /\ DOMAIN w = {1, 2, 3}
           /\ w[1] = a /\ w[2] = b /\ w[3] = c
BY DEF Ref

LEMMA HostParts ==
    \A h \in Hosts : /\ h \in Ref /\ \A i \in DOMAIN h : h[i] \notin {"/", "@"}
                     /\ h # <<>> => IsHost(h)
<1> SUFFICES ASSUME NEW h \in Hosts
             PROVE  /\ h \in Ref /\ \A i \in DOMAIN h : h[i] \notin {"/", "@"}
                    /\ h # <<>> => IsHost(h)
  OBVIOUS
<1>1. CASE h = <<>>
  BY <1>1 DEF Ref
<1>2. ASSUME NEW a \in {"localhost", "reg.io", "docker.io"}, h = <<a>>
      PROVE  /\ h \in Ref /\ \A i \in DOMAIN h : h[i] \notin {"/", "@"}
             /\ IsHost(h)
  <2>1. a \in Sign
    BY DEF Sign
  <2>2. h \in Ref /\ DOMAIN h = {1} /\ h[1] = a
    BY <1>2, <2>1, OneWord
  <2>3. IsHost(h)
    <3>1. CASE a = "localhost"
      BY <1>2, <3>1 DEF IsHost
    <3>2. CASE a # "localhost"
      BY <2>2, <3>2, DottedAssumption DEF IsHost, DottedAssumption
    <3> QED BY <3>1, <3>2
  <2> QED BY <2>2, <2>3
<1>3. ASSUME h = <<"reg.io", ":", "5000">>
      PROVE  /\ h \in Ref /\ \A i \in DOMAIN h : h[i] \notin {"/", "@"}
             /\ IsHost(h)
  <2>1. "reg.io" \in Sign /\ ":" \in Sign /\ "5000" \in Sign
    BY DEF Sign
  <2>2. /\ h \in Ref /\ DOMAIN h = {1, 2, 3}
        /\ h[1] = "reg.io" /\ h[2] = ":" /\ h[3] = "5000"
    BY <1>3, <2>1, ThreeWords
  <2> QED BY <2>2 DEF IsHost
<1>4. \/ h = <<>> \/ h = <<"localhost">> \/ h = <<"reg.io">>
      \/ h = <<"reg.io", ":", "5000">> \/ h = <<"docker.io">>
  BY Zenon DEF Hosts
<1> QED BY <1>1, <1>2, <1>3, <1>4

LEMMA PathParts ==
    \A p \in Paths : /\ p \in Ref /\ p # <<>>
                     /\ \A i \in DOMAIN p : p[i] \notin {":", "@"}
                     /\ FirstAt(p, "/") # 0 => ~IsHost(Before(p, FirstAt(p, "/")))
                     /\ FirstAt(p, "/") = 0 <=> Len(p) = 1
<1>1. ASSUME NEW p, p = <<"app">>
      PROVE  /\ p \in Ref /\ p # <<>>
             /\ \A i \in DOMAIN p : p[i] \notin {":", "@"}
             /\ FirstAt(p, "/") = 0 /\ Len(p) = 1
  <2>1. "app" \in Sign
    BY DEF Sign
  <2>2. p \in Ref /\ p # <<>> /\ Len(p) = 1 /\ DOMAIN p = {1} /\ p[1] = "app"
    BY <1>1, <2>1, OneWord
  <2>3. /\ FirstAt(p, "/") \in 0..Len(p)
        /\ FirstAt(p, "/") # 0 => p[FirstAt(p, "/")] = "/"
    BY <2>2, FirstAtIs
  <2> QED BY <2>2, <2>3
<1>2. ASSUME NEW p, p = <<"team", "/", "app">>
      PROVE  /\ p \in Ref /\ p # <<>>
             /\ \A i \in DOMAIN p : p[i] \notin {":", "@"}
             /\ FirstAt(p, "/") # 0 /\ ~IsHost(Before(p, FirstAt(p, "/")))
             /\ Len(p) = 3
  <2>1. "team" \in Sign /\ "/" \in Sign /\ "app" \in Sign
    BY DEF Sign
  <2>2. /\ p \in Ref /\ p # <<>> /\ Len(p) = 3 /\ DOMAIN p = {1, 2, 3}
        /\ p[1] = "team" /\ p[2] = "/" /\ p[3] = "app"
    BY <1>2, <2>1, ThreeWords
  <2>3. FirstAt(p, "/") = 2
    <3>1. 2 \in DOMAIN p /\ \A i \in DOMAIN p : p[i] = "/" => 2 <= i
      BY <2>2
    <3> QED BY <2>2, <3>1, FirstAtUnique
  <2>4. PICK b \in Ref : b = Before(p, FirstAt(p, "/")) /\ Len(b) = 1 /\ b[1] = "team"
    <3>1. Before(p, FirstAt(p, "/")) = SubSeq(p, 1, 1)
      BY <2>3 DEF Before
    <3>2. /\ SubSeq(p, 1, 1) \in Seq(Sign) /\ Len(SubSeq(p, 1, 1)) = 1
          /\ SubSeq(p, 1, 1)[1] = p[1]
      BY <2>2 DEF Ref
    <3> QED BY <2>2, <3>1, <3>2 DEF Ref
  <2>5. DOMAIN b = {1}
    BY <2>4 DEF Ref
  <2>6. b # <<"localhost">>
    <3>1. <<"localhost">>[1] = "localhost"
      OBVIOUS
    <3> QED BY <2>4, <3>1
  <2>7. ~IsHost(b)
    BY <2>4, <2>5, <2>6, DottedAssumption DEF IsHost, DottedAssumption
  <2> QED BY <2>2, <2>3, <2>4, <2>7
<1> QED BY <1>1, <1>2 DEF Paths

LEMMA TagAndPin ==
    /\ \A t \in TagParts : t \in Ref /\ (t = <<>> \/ Word(t))
    /\ \A d \in Pins : d \in Ref
<1>1. <<>> \in Ref
  BY DEF Ref
<1>2. ASSUME NEW a \in {"1.0.0", "edge", "d1"}, NEW w, w = <<a>>
      PROVE  w \in Ref /\ Word(w)
  <2>1. a \in Sign
    BY DEF Sign
  <2>2. w \in Ref /\ Len(w) = 1 /\ w[1] = a
    BY <1>2, <2>1, OneWord
  <2> QED BY <2>2 DEF Word
<1> QED BY <1>1, <1>2 DEF TagParts, Pins

LEMMA ListedParts ==
    \A h \in Hosts, p \in Paths, t \in TagParts : Parts(h, p, t)
BY HostParts, PathParts, TagAndPin DEF Parts

\* What ReferencesRead says of one reference and the tag that a deploy writes.
Reads(h, p, t, d, u) ==
    LET r == Whole(h, p, t, d)
        hub == h \in {<<>>, <<"docker.io">>}
    IN  /\ ParseImageRef(r) =
             [host |-> IF hub THEN Hub ELSE h,
              name |-> IF hub /\ Len(p) = 1 THEN <<"library", "/">> \o p ELSE p,
              tag |-> IF t = <<>> THEN <<"latest">> ELSE t]
        /\ RegistryHost(r) = IF h = <<>> THEN Hub ELSE h
        /\ t # <<>> => /\ ImageTag(r) = t
                       /\ ReplaceTag(r, u) = Whole(h, p, u, d)
                       /\ d = <<>> => PushedName(r) = Whole(h, p, <<>>, <<>>)

LEMMA ReadsAll ==
    \A h \in Hosts, p \in Paths, t \in TagParts, d \in Pins, u \in Ref \ {<<>>} :
        Reads(h, p, t, d, u)
<1> SUFFICES ASSUME NEW h \in Hosts, NEW p \in Paths, NEW t \in TagParts,
                    NEW d \in Pins, NEW u \in Ref \ {<<>>}
             PROVE  Reads(h, p, t, d, u)
  OBVIOUS
<1>1. Parts(h, p, t) /\ d \in Ref
  BY ListedParts, TagAndPin
<1>2. PICK r : r = Whole(h, p, t, d)
  OBVIOUS
<1>3. /\ ParseImageRef(r) =
            [host |-> HostRead(h), name |-> NameRead(h, p),
             tag |-> IF t = <<>> THEN <<"latest">> ELSE t]
      /\ RegistryHost(r) = IF h = <<>> THEN Hub ELSE h
      /\ t # <<>> => /\ ImageTag(r) = t
                     /\ ReplaceTag(r, u) = Whole(h, p, u, d)
                     /\ d = <<>> => PushedName(r) = Whole(h, p, <<>>, <<>>)
  BY <1>1, <1>2, WholeRead
<1>4. FirstAt(p, "/") = 0 <=> Len(p) = 1
  BY PathParts
<1>5. /\ HostRead(h) = IF h \in {<<>>, <<"docker.io">>} THEN Hub ELSE h
      /\ NameRead(h, p) = IF h \in {<<>>, <<"docker.io">>} /\ Len(p) = 1
                          THEN <<"library", "/">> \o p ELSE p
  BY <1>4, Zenon DEF HostRead, NameRead, OnHub
<1> QED BY <1>2, <1>3, <1>5, Zenon DEF Reads

\* Whatever tag a deploy writes: of each of the references the poller's client,
\* the pull's credentials, the executor, compose and the webhook find the parts.
THEOREM ReferencesReadHolds ==
    ASSUME NamesTag
    PROVE  Spec => []ReferencesRead
<1>1. ImagesOK(Tags) => ReferencesRead
  <2>1. ASSUME ImagesOK(Tags), dep.pc = "read", dep.tag # <<>>
        PROVE  dep.tag \in Ref \ {<<>>}
    BY <2>1, TagsAreWords DEF ImagesOK
  <2>2. ReferencesRead <=>
          (dep.pc = "read" /\ dep.tag # <<>> =>
             \A h \in Hosts, p \in Paths, t \in TagParts, d \in Pins :
                Reads(h, p, t, d, dep.tag))
    BY Zenon DEF ReferencesRead, Reads
  <2> QED BY <2>1, <2>2, ReadsAll, Zenon
<1> QED BY <1>1, ImagesHold, PTL

\* The tags of one major and minor version.
LineTags == {t \in Tags : SubSeq(Semver[t], 1, 2) = Line(First)}

LEMMA SameLine ==
    ASSUME NEW t \in DOMAIN Semver, NEW u \in DOMAIN Semver,
           Semver[t][1] = Semver[u][1], Semver[t][2] = Semver[u][2]
    PROVE  SubSeq(Semver[t], 1, 2) = SubSeq(Semver[u], 1, 2)
<1>1. ASSUME NEW v \in DOMAIN Semver
      PROVE  /\ SubSeq(Semver[v], 1, 2) \in Seq(Int)
             /\ Len(SubSeq(Semver[v], 1, 2)) = 2
             /\ SubSeq(Semver[v], 1, 2)[1] = Semver[v][1]
             /\ SubSeq(Semver[v], 1, 2)[2] = Semver[v][2]
  <2>1. Semver[v] \in Seq(Int) /\ Len(Semver[v]) = 3
    BY ComposeAssumption, Zenon DEF ComposeAssumption
  <2>2. PICK s : s = Semver[v]
    OBVIOUS
  <2>3. s \in Seq(Int) /\ Len(s) = 3
    BY <2>1, <2>2
  <2>4. /\ SubSeq(s, 1, 2) \in Seq(Int)
        /\ Len(SubSeq(s, 1, 2)) = IF 1 <= 2 THEN 2 - 1 + 1 ELSE 0
        /\ \A i \in 1..(2 - 1 + 1) : SubSeq(s, 1, 2)[i] = s[1 + i - 1]
    BY <2>3, SubSeqProperties
  <2> QED BY <2>2, <2>4
<1>2. PICK a \in Seq(Int), b \in Seq(Int) :
        a = SubSeq(Semver[t], 1, 2) /\ b = SubSeq(Semver[u], 1, 2)
  BY <1>1
<1>3. Len(a) = 2 /\ Len(b) = 2 /\ a[1] = b[1] /\ a[2] = b[2]
  BY <1>1, <1>2
<1>4. \A i \in 1..Len(a) : a[i] = b[i]
  BY <1>3
<1> QED BY <1>2, <1>3, <1>4, SeqEqual

\* A service whose label allows patches only stays on its major and minor
\* version (executor.go, semverAllow): whatever is pushed while the store still
\* has an older image, and whatever of the deploys fails.
THEOREM StaysInLineHolds ==
    ASSUME NamesTag, Tags \subseteq DOMAIN Semver
    PROVE  Spec => []StaysInLine
<1>1. CASE Strategy # "patch"
  <2>1. StaysInLine
    BY <1>1 DEF StaysInLine
  <2> QED BY <2>1, PTL
<1>2. CASE Strategy = "patch"
  <2>1. LineTags \subseteq Tags /\ TagOf[First] \in LineTags
    BY KinKeep DEF LineTags, Line
  <2>2. Init => ImagesOK(LineTags)
    BY <2>1, ImagesInit
  <2>3. Types /\ ImagesOK(LineTags) /\ [Next]_vars => ImagesOK(LineTags)'
    <3> SUFFICES ASSUME Types, ImagesOK(LineTags), [Next]_vars
                 PROVE  ImagesOK(LineTags)'
      OBVIOUS
    <3>1. ASSUME NEW r \in Kin \cup Pushed, Evaluate(r)
          PROVE  TagOf[r] \in LineTags
      <4>1. seen \in Kin /\ TagOf[seen] \in LineTags
        BY DEF ImagesOK, KinOf
      <4>2. TagOf[r] \in Tags
        <5>1. r \in Pushed => TagOf[r] \in Tags
          BY DEF TagOf, Tags, Images
        <5> QED BY <5>1, KinKeep
      <4>3. PICK t \in Tags, u \in Tags : t = TagOf[seen] /\ u = TagOf[r]
        BY <2>1, <4>1, <4>2
      <4>4. Semver[t][1] = Semver[u][1] /\ Semver[t][2] = Semver[u][2]
        BY <1>2, <3>1, <4>3 DEF Evaluate, SemverAllow
      <4>5. SubSeq(Semver[u], 1, 2) = SubSeq(Semver[t], 1, 2)
        BY <4>4, SameLine
      <4> QED BY <4>1, <4>3, <4>5 DEF LineTags
    <3> QED BY <2>1, <3>1, ImagesNext
  <2>4. ImagesOK(LineTags) => StaysInLine
    <3> SUFFICES ASSUME ImagesOK(LineTags), NEW r \in {runs, file.image} \ {<<>>}
                 PROVE  Line(r) = Line(First)
      BY DEF StaysInLine
    <3>1. r \in KinOf(LineTags)
      BY DEF ImagesOK, FileOf, Bad
    <3> QED BY <3>1 DEF KinOf, LineTags, Line
  <2> QED BY <2>2, <2>3, <2>4, TypesHold, PTL DEF Spec
<1> QED BY <1>1, <1>2
=============================================================================
