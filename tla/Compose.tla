------------------------------- MODULE Compose -------------------------------
(***************************************************************************)
(* The executor's second path, for a service of a compose file:            *)
(* internal/compose copies the file, patches the image's tag in place and  *)
(* runs docker compose up, whose two pipes are scanned into the job's log. *)
(* A file is truncated, then written; the process may end in between.      *)
(***************************************************************************)
EXTENDS JobLog, ImageRef

CONSTANTS
    First,      \* the image the file names when the project starts
    Pushed,     \* images that webhooks announce
    Strategy,   \* the label dockwatch.update
    Semver,     \* parseSemver: major, minor and patch of the tags that have them
    Brisk,      \* whether a deploy may begin in the second the last one began
    MaxTime,    \* bound: seconds
    MaxLines,   \* bound: lines that one docker compose up writes
    PipeCap,    \* lines a pipe holds
    Outside,    \* which outside events a run allows
    Limit       \* bound: how many of them

ASSUME ComposeAssumption ==
    /\ \A r \in {First} \cup Pushed : r \in Seq(STRING) /\ Parses(r)
    /\ Strategy \in {"auto", "minor", "patch", "notify"}
    /\ \A t \in DOMAIN Semver : Semver[t] \in Seq(Int) /\ Len(Semver[t]) = 3
    /\ Brisk \in BOOLEAN /\ PipeCap \in Nat \ {0}
    /\ MaxTime \in Nat \ {0} /\ MaxLines \in Nat

Pipe == {"stdout", "stderr"}
Second == 1..MaxTime
Outputs == {n \in [Pipe -> 0..MaxLines] : n["stdout"] + n["stderr"] <= MaxLines}

VARIABLES
    file,      \* the compose file: an image and the rest, or Bad
    backups,   \* the files in the history directory, by their second
    now,       \* the clock, in seconds
    dep,       \* ApplyUpdate under way
    child,     \* docker compose up
    pipe,      \* its output not read yet
    scan,      \* the two streamPipe goroutines
    runs,      \* the image the service's container was made from
    seen,      \* ContainerState.Image, which the watcher updates
    event,     \* image.updated waiting for the executor
    overwrote, \* ghost: contents that a deploy has overwritten
    raced,     \* ghost: contents a person saved while a deploy was writing
    spent      \* outside events so far

fileVars == <<file, backups, overwrote, raced>>
upVars == <<child, pipe, scan>>
vars == <<logVars, fileVars, now, dep, upVars, runs, seen, event, spent>>

Bad == [image |-> <<>>, edit |-> 0]     \* empty, cut short, or "null"
NoFile == [image |-> <<>>, edit |-> -1]
NoDep == [pc |-> "idle", job |-> 0, tag |-> <<>>, data |-> NoFile, at |-> 0,
          next |-> NoFile]
NoChild == [pc |-> "none", image |-> <<>>, left |-> [p \in Pipe |-> 0]]

TypeOK ==
    /\ JobLogTypeOK
    /\ now \in Second
    /\ DOMAIN backups = Second
    /\ dep.pc \in {"idle", "copy", "fill", "read", "cut", "write", "up", "wait",
                   "failed", "done"}
    /\ dep.pc # "idle" => dep.job \in Job /\ job[dep.job].st = "running"
    /\ child.pc \in {"none", "starting", "running", "ok", "error"}
    /\ child.pc # "none" => dep.pc = "wait"
    /\ \A p \in Pipe : /\ Len(pipe[p]) <= PipeCap
                       /\ scan[p] \in {"off", "on", "eof", "gaveup"}

Init ==
    /\ InitLog
    /\ file = [image |-> First, edit |-> 0]
    /\ backups = [t \in Second |-> NoFile] /\ now = 1
    /\ dep = NoDep /\ child = NoChild
    /\ pipe = [p \in Pipe |-> <<>>] /\ scan = [p \in Pipe |-> "off"]
    /\ runs = First /\ seen = First /\ event = <<>>
    /\ overwrote = {} /\ raced = {} /\ spent = 0

-----------------------------------------------------------------------------
(* The executor.                                                           *)

\* The references that a run can meet, and what the code takes from each;
\* what a reference becomes by a tag of the run depends on where it began.
Tags == {ImageTag(r) : r \in {First} \cup Pushed}
Images == {<<>>, First} \cup Pushed \cup {ReplaceTag(First, t) : t \in Tags}
TagOf == [r \in Images |-> ImageTag(r)]
Retagged == [r \in Images |-> [t \in Tags |-> ReplaceTag(r, t)]]
NameOf == [r \in Images |-> PushedName(r)]
Repository == [r \in Images |-> <<ParseImageRef(r).host, ParseImageRef(r).name>>]
Readable == {r \in Images : Parses(r)}

\* Variant with a bug: the minor version is not looked at.
SemverAllowMajor(old, new, allowMinor) ==
    \/ TagOf[old] \notin DOMAIN Semver \/ TagOf[new] \notin DOMAIN Semver
    \/ Semver[TagOf[old]][1] = Semver[TagOf[new]][1]

SemverAllow(old, new, allowMinor) ==
    \/ TagOf[old] \notin DOMAIN Semver \/ TagOf[new] \notin DOMAIN Semver
    \/ LET o == Semver[TagOf[old]]
           n == Semver[TagOf[new]]
       IN  o[1] = n[1] /\ (o[2] # n[2] => allowMinor)

Evaluate(image) ==
    \/ Strategy = "auto"
    \/ Strategy = "minor" /\ SemverAllow(seen, image, TRUE)
    \/ Strategy = "patch" /\ SemverAllow(seen, image, FALSE)

NextJob(j) == job[j].st = "none" /\ \A i \in Job : i < j => job[i].st # "none"

\* handle drops an update that the strategy does not allow.
Skip ==
    /\ dep.pc = "idle" /\ event # <<>> /\ ~Evaluate(Head(event))
    /\ event' = Tail(event)
    /\ UNCHANGED <<logVars, fileVars, now, dep, upVars, runs, seen, spent>>

\* handle registers a job; BackupFile reads the file and takes its name.
Begin(j) ==
    /\ dep.pc = "idle" /\ event # <<>> /\ Evaluate(Head(event))
    /\ NextJob(j) /\ NewJob(j)
    /\ Brisk \/ backups[now] = NoFile
    /\ event' = Tail(event)
    /\ dep' = [NoDep EXCEPT !.pc = "copy", !.job = j, !.data = file,
                            !.tag = TagOf[Head(event)], !.at = now]
    /\ UNCHANGED <<reader, fileVars, now, upVars, runs, seen, spent>>

Go(l) == dep' = [dep EXCEPT !.pc = l]

\* os.WriteFile of the copy: open with O_TRUNC ...
Copy ==
    /\ dep.pc = "copy" /\ Go("fill")
    /\ backups' = [backups EXCEPT ![dep.at] = Bad]
    /\ UNCHANGED <<logVars, file, overwrote, raced, now, upVars, runs, seen, event,
                   spent>>

\* ... and the write.
Fill ==
    /\ dep.pc = "fill" /\ Go("read")
    /\ backups' = [backups EXCEPT ![dep.at] = dep.data]
    /\ UNCHANGED <<logVars, file, overwrote, raced, now, upVars, runs, seen, event,
                   spent>>

\* UpdateServiceImage reads the file once more.  An empty file has no node to
\* patch and is encoded as "null"; of one cut short the service may be found
\* or not.
Patch ==
    /\ dep.pc = "read"
    /\ \/ file # Bad
          /\ dep' = [dep EXCEPT !.pc = "cut",
                       !.next = [file EXCEPT !.image = Retagged[@][dep.tag]]]
       \/ file = Bad /\ dep' = [dep EXCEPT !.pc = "cut", !.next = Bad]
       \/ file = Bad /\ Go("failed")
    /\ UNCHANGED <<logVars, fileVars, now, upVars, runs, seen, event, spent>>

\* os.WriteFile of the compose file itself.
CutFile ==
    /\ dep.pc = "cut" /\ Go("write")
    /\ file' = Bad
    /\ overwrote' = overwrote \cup ({file} \ {Bad})
    /\ UNCHANGED <<logVars, backups, raced, now, upVars, runs, seen, event, spent>>

WriteFile ==
    /\ dep.pc = "write" /\ Go("up")
    /\ file' = dep.next
    /\ overwrote' = overwrote \cup ({file} \ {Bad})
    /\ UNCHANGED <<logVars, backups, raced, now, upVars, runs, seen, event, spent>>

\* Variant with a bug: nobody reads what compose writes to stderr.
UpOneScanner ==
    /\ dep.pc = "up" /\ Go("wait")
    /\ \E n \in Outputs : child' = [NoChild EXCEPT !.pc = "starting", !.left = n]
    /\ pipe' = [p \in Pipe |-> <<>>]
    /\ scan' = [stdout |-> "on", stderr |-> "eof"]
    /\ UNCHANGED <<logVars, fileVars, now, runs, seen, event, spent>>

\* UpService: two pipes, two scanners, then wg.Wait.
Up ==
    /\ dep.pc = "up" /\ Go("wait")
    /\ \E n \in Outputs : child' = [NoChild EXCEPT !.pc = "starting", !.left = n]
    /\ pipe' = [p \in Pipe |-> <<>>] /\ scan' = [p \in Pipe |-> "on"]
    /\ UNCHANGED <<logVars, fileVars, now, runs, seen, event, spent>>

\* streamPipe: a line is logged; at the end of the output it returns; a line
\* longer than its buffer makes it return as well.
Scan(p) ==
    /\ scan[p] = "on"
    /\ \/ /\ pipe[p] # <<>> /\ Head(pipe[p]) = "line"
          /\ AppendLog(dep.job)
          /\ pipe' = [pipe EXCEPT ![p] = Tail(@)] /\ UNCHANGED scan
       \/ /\ pipe[p] # <<>> /\ Head(pipe[p]) = "long"
          /\ scan' = [scan EXCEPT ![p] = "gaveup"] /\ UNCHANGED <<job, pipe>>
       \/ /\ pipe[p] = <<>> /\ child.pc \in {"ok", "error"}
          /\ scan' = [scan EXCEPT ![p] = "eof"] /\ UNCHANGED <<job, pipe>>
    /\ UNCHANGED <<reader, fileVars, now, dep, child, runs, seen, event, spent>>

Ended == child.pc \in {"ok", "error"}

\* Variant with a bug: nobody waits for the scanners.
WaitedForChild ==
    /\ dep.pc = "wait" /\ Ended
    /\ Go(IF child.pc = "ok" THEN "done" ELSE "failed")
    /\ child' = NoChild
    /\ UNCHANGED <<logVars, fileVars, now, pipe, scan, runs, seen, event, spent>>

\* wg.Wait and cmd.Wait.
Waited ==
    /\ dep.pc = "wait" /\ Ended /\ \A p \in Pipe : scan[p] \in {"eof", "gaveup"}
    /\ Go(IF child.pc = "ok" THEN "done" ELSE "failed")
    /\ child' = NoChild /\ pipe' = [p \in Pipe |-> <<>>]
    /\ scan' = [p \in Pipe |-> "off"]
    /\ UNCHANGED <<logVars, fileVars, now, runs, seen, event, spent>>

\* The job gets its outcome; the container's entry is left to the watcher.
End ==
    /\ dep.pc \in {"failed", "done"}
    /\ Transition(dep.job, IF dep.pc = "done" THEN "success" ELSE "failed")
    /\ dep' = [NoDep EXCEPT !.job = dep.job]
    /\ UNCHANGED <<reader, fileVars, now, upVars, runs, seen, event, spent>>

-----------------------------------------------------------------------------
(* docker compose, the daemon and the watcher.                             *)

\* compose reads the file as it is by now, or refuses it.
ComposeReads ==
    /\ child.pc = "starting"
    /\ child' = [child EXCEPT !.image = file.image,
                   !.pc = IF file = Bad \/ file.image \notin Readable THEN "error"
                          ELSE "running"]
    /\ UNCHANGED <<logVars, fileVars, now, dep, pipe, scan, runs, seen, event, spent>>

Output(p, kind) ==
    /\ child.pc = "running" /\ child.left[p] > 0 /\ Len(pipe[p]) < PipeCap
    /\ pipe' = [pipe EXCEPT ![p] = Append(@, kind)]
    /\ child' = [child EXCEPT !.left[p] = @ - 1]

OutputLine(p) ==
    /\ Output(p, "line")
    /\ UNCHANGED <<logVars, fileVars, now, dep, scan, runs, seen, event, spent>>

\* All printed: the service is replaced, or could not be.
Exit ==
    /\ child.pc = "running" /\ \A p \in Pipe : child.left[p] = 0
    /\ \/ /\ child' = [child EXCEPT !.pc = "ok"] /\ runs' = child.image
       \/ child' = [child EXCEPT !.pc = "error"] /\ UNCHANGED runs
    /\ UNCHANGED <<logVars, fileVars, now, dep, pipe, scan, seen, event, spent>>

\* The start event of the new container.
Learn ==
    /\ seen # runs /\ seen' = runs
    /\ UNCHANGED <<logVars, fileVars, now, dep, upVars, runs, event, spent>>

Pass ==
    /\ now < MaxTime /\ now' = now + 1
    /\ UNCHANGED <<logVars, fileVars, dep, upVars, runs, seen, event, spent>>

-----------------------------------------------------------------------------
(* The world.                                                              *)

Allowed(e) == e \in Outside /\ spent < Limit /\ spent' = spent + 1

\* A webhook names the pushed image, which must be the stored one up to the
\* last colon; the poller names the stored image.
Announce ==
    /\ event = <<>>
    /\ \/ Allowed("push") /\ \E r \in Pushed : NameOf[seen] = NameOf[r] /\ event' = <<r>>
       \/ Allowed("poll") /\ event' = <<seen>>
    /\ UNCHANGED <<logVars, fileVars, now, dep, upVars, runs, seen>>

\* A person saves the file; also one that was cut short is put right.
Edit ==
    /\ Allowed("edit")
    /\ file' = [image |-> IF file = Bad THEN First ELSE file.image, edit |-> spent']
    /\ raced' = IF dep.pc \in {"copy", "fill", "read", "cut", "write"}
                THEN raced \cup {file'} ELSE raced
    /\ UNCHANGED <<logVars, backups, overwrote, now, dep, upVars, runs, seen, event>>

\* A line longer than bufio.MaxScanTokenSize.
OutputLong ==
    /\ Allowed("long") /\ \E p \in Pipe : Output(p, "long")
    /\ UNCHANGED <<logVars, fileVars, now, dep, scan, runs, seen, event>>

\* Variant with a bug: without its copy the deploy goes on.
CallFailsWarned ==
    /\ Allowed("fault")
    /\ dep.pc \in {"copy", "fill", "read", "cut", "write", "up"}
    /\ Go(IF dep.pc \in {"copy", "fill"} THEN "read" ELSE "failed")
    /\ UNCHANGED <<logVars, fileVars, now, upVars, runs, seen, event>>

\* A read, an open or a write fails, or docker cannot be started.
CallFails ==
    /\ Allowed("fault")
    /\ dep.pc \in {"copy", "fill", "read", "cut", "write", "up"}
    /\ Go("failed")
    /\ UNCHANGED <<logVars, fileVars, now, upVars, runs, seen, event>>

\* The process ends and starts again, with no jobs; the service runs what it
\* ran, and the store is listed anew.
Crash ==
    /\ Allowed("crash")
    /\ job' = [j \in Job |-> NoJob]
    /\ reader' = [r \in Reader |-> NoReader]
    /\ dep' = NoDep /\ child' = NoChild /\ pipe' = [p \in Pipe |-> <<>>]
    /\ scan' = [p \in Pipe |-> "off"] /\ seen' = runs /\ event' = <<>>
    /\ UNCHANGED <<fileVars, now, runs>>

Watch(r) ==
    /\ ReaderStep(r)
    /\ UNCHANGED <<fileVars, now, dep, upVars, runs, seen, event, spent>>

Browse(r) ==
    /\ \/ \E j \in Job : Allowed("watch") /\ Attach(r, j)
       \/ Allowed("leave") /\ Leave(r)
    /\ UNCHANGED <<fileVars, now, dep, upVars, runs, seen, event>>

Executor ==
    \/ Skip \/ (\E j \in Job : Begin(j)) \/ Copy \/ Fill \/ Patch \/ CutFile
    \/ WriteFile \/ Up \/ Waited \/ End

ChildStep == ComposeReads \/ Exit \/ \E p \in Pipe : OutputLine(p)

Next ==
    \/ Executor \/ ChildStep \/ Learn \/ Pass
    \/ \E p \in Pipe : Scan(p)
    \/ \E r \in Reader : Watch(r) \/ Browse(r)
    \/ Announce \/ Edit \/ OutputLong \/ CallFails \/ Crash

Spec == Init /\ [][Next]_vars

\* Goroutines run, compose prints and exits, the watcher gets its events.
Fairness ==
    /\ WF_vars(Executor) /\ WF_vars(ChildStep) /\ WF_vars(Learn)
    /\ \A p \in Pipe : WF_vars(Scan(p))
    /\ \A r \in Reader : WF_vars(Watch(r))

FairSpec == Spec /\ Fairness

-----------------------------------------------------------------------------
(* Properties.                                                             *)

\* README: "It saves a backup of your docker-compose.yml before every
\* change": what a deploy has overwritten can be found in the history
\* directory, unless a person saved it after the deploy had made its copy.
BackupKept ==
    \A c \in overwrote \ raced : \E t \in Second : backups[t] = c

\* replaceTag swaps the tag: whatever is announced, the file names an image
\* that Docker can read, of the repository it named at first.
FileUsable ==
    file # Bad => /\ file.image \in Readable
                  /\ Repository[file.image] = Repository[First]

\* Whatever the file names, a host with a port, a path, a digest, as long as
\* it names a tag: the patch changes the tag alone, and the executor, the
\* poller's client, the pull's credentials and the webhook each find in the
\* reference the parts that it was written from.
ReferencesRead ==
    dep.pc = "read" /\ dep.tag # <<>> =>
        \A h \in Hosts, p \in Paths, t \in TagParts, d \in Pins :
            LET r == Whole(h, p, t, d)
                hub == h \in {<<>>, <<"docker.io">>}
            IN  /\ ParseImageRef(r) =
                     [host |-> IF hub THEN Hub ELSE h,
                      name |-> IF hub /\ Len(p) = 1 THEN <<"library", "/">> \o p ELSE p,
                      tag |-> IF t = <<>> THEN <<"latest">> ELSE t]
                /\ RegistryHost(r) = IF h = <<>> THEN Hub ELSE h
                /\ t # <<>> => /\ ImageTag(r) = t
                               /\ ReplaceTag(r, dep.tag) = Whole(h, p, dep.tag, d)
                               /\ d = <<>> => PushedName(r) = Whole(h, p, <<>>, <<>>)

\* A service whose label allows patches only stays on its major and minor
\* version, whatever is pushed and however late the store learns of a deploy.
Line(image) == SubSeq(Semver[TagOf[image]], 1, 2)
StaysInLine ==
    Strategy = "patch" => \A r \in {runs, file.image} \ {<<>>} : Line(r) = Line(First)

\* Nothing is logged to a job once a client was told that it is done
\* (UpService waits for both scanners before it returns).
DoneIsDone ==
    [][\A r \in Reader :
         reader[r].pc = "done" /\ reader'[r].pc = "done" =>
             job'[reader[r].job].seq = job[reader[r].job].seq]_vars

\* A deploy ends, unless a scanner that gave up on a long line leaves compose
\* blocked on a full pipe.
GaveUp == \E p \in Pipe : scan[p] = "gaveup"
DeployEnds == dep.pc # "idle" ~> dep.pc = "idle" \/ GaveUp

\* A client that watches a job is told its outcome or has left.
ClientTold ==
    \A r \in Reader :
        reader[r].pc \in {"replay", "live"}
            ~> reader[r].pc \notin {"replay", "live"} \/ GaveUp
=============================================================================
