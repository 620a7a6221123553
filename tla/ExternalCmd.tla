----------------------------- MODULE ExternalCmd -----------------------------
(***************************************************************************)
(* Running one external command (utils/externalcmd): Run is Start, which   *)
(* opens a pipe and a goroutine per stream somebody listens to and follows *)
(* the log files somebody listens to, and Wait, which has to collect all   *)
(* of them. mock, git, docker and rpmspec run this way; the listeners turn *)
(* output into events and results.                                         *)
(*                                                                         *)
(* A line is only what the reader does with it: it goes to the listener,   *)
(* or does not fit the buffer of bufio.Scanner (64 KiB). Blank lines, which*)
(* are read and dropped, are left out, and so are dry runs, which start    *)
(* nothing, and RunAndGetOutput, which has no listeners. The command may   *)
(* fork descendants that keep its streams open.                            *)
(***************************************************************************)
EXTENDS Naturals, Sequences, FiniteSets

CONSTANTS
  Logs,      \* the log files that may be followed
  PipeSize,  \* lines that a pipe holds
  MaxLines   \* bound: lines written to each stream and each log

ASSUME SizesAssumption == PipeSize \in Nat \ {0} /\ MaxLines \in Nat

Streams == {"stdout", "stderr"}
Kinds == {"text", "long"}

VARIABLES
  listened,   \* the streams with a listener
  followed,   \* the logs with a listener
  pc,         \* look, stdout, stderr, tails, exec, stdio, process, cleanup, join, returned
  result,     \* what Run returns
  cancelled,  \* the context of the command
  stopped,    \* the context of the file listeners, apart from its parent
  child,      \* none, running, succeeded, failed
  held,       \* a descendant of the child has the streams and logs open
  parent,     \* this process has the write ends of the pipes open
  closed,     \* the read ends that are closed
  sent,       \* the lines each stream has taken
  taken,      \* how many of them were read
  reader,     \* the goroutine of each stream
  delivered,  \* how many lines its listener has dealt with
  logged,     \* lines written to each log since Start
  seen,       \* how many of them were read
  follower    \* the goroutine of each log

setup == <<listened, followed>>
caller == <<pc, result, stopped>>
stdio == <<taken, reader, delivered>>
tails == <<seen, follower>>
outside == <<child, held, sent, logged>>
vars == <<setup, caller, cancelled, parent, closed, stdio, tails, outside>>

Init ==
  /\ listened \in SUBSET Streams /\ followed \in SUBSET Logs
  /\ pc = "look" /\ result = "none"
  /\ cancelled = FALSE /\ stopped = FALSE
  /\ child = "none" /\ held = FALSE
  /\ parent = TRUE /\ closed = {}
  /\ sent = [s \in Streams |-> <<>>]
  /\ taken = [s \in Streams |-> 0] /\ delivered = [s \in Streams |-> 0]
  /\ reader = [s \in Streams |-> "off"]
  /\ logged = [l \in Logs |-> 0] /\ seen = [l \in Logs |-> 0]
  /\ follower = [l \in Logs |-> "off"]

Exited == child \in {"succeeded", "failed"}

\* Some process can still write to the streams and the logs.
Alive == child = "running" \/ held

Full(s) == s \notin closed /\ Len(sent[s]) - taken[s] = PipeSize

-----------------------------------------------------------------------------
(* Start.                                                                  *)

Return(r) == pc' = "returned" /\ result' = r

\* preRun: the program is not in the search path.
ProgramMissing ==
  /\ pc = "look"
  /\ Return("error")
  /\ UNCHANGED <<setup, cancelled, stopped, parent, closed, stdio, tails, outside>>

ProgramFound ==
  /\ pc = "look"
  /\ pc' = "stdout"
  /\ UNCHANGED <<setup, result, cancelled, stopped, parent, closed, stdio, tails, outside>>

\* StdoutPipe or StderrPipe and a goroutine, for a stream with a listener.
StartedAlways(s) == "reading"
Started(s) == IF s \in listened THEN "reading" ELSE "off"

OpenPipe(s) ==
  /\ pc = s
  /\ pc' = IF s = "stdout" THEN "stderr" ELSE "tails"
  /\ reader' = [reader EXCEPT ![s] = Started(s)]
  /\ UNCHANGED <<setup, result, cancelled, stopped, parent, closed, taken, delivered, tails, outside>>

\* Start returns at once: a goroutine already started for stdout keeps
\* waiting for a pipe whose write end this process has open.
OpenPipeFails(s) ==
  /\ pc = s /\ s \in listened
  /\ Return("error")
  /\ UNCHANGED <<setup, cancelled, stopped, parent, closed, stdio, tails, outside>>

\* TailFile waits for a file that is not there, and so does not fail.
FollowLogs ==
  /\ pc = "tails"
  /\ pc' = "exec"
  /\ follower' = [l \in Logs |-> IF l \in followed THEN "following" ELSE "off"]
  /\ UNCHANGED <<setup, result, cancelled, stopped, parent, closed, stdio, seen, outside>>

\* The child has its own copies of the write ends.
Exec ==
  /\ pc = "exec" /\ ~cancelled
  /\ child' = "running" /\ parent' = FALSE
  /\ pc' = "stdio"
  /\ UNCHANGED <<setup, result, cancelled, stopped, closed, stdio, tails, held, sent, logged>>

\* Also when the context is done; exec closes both ends of the pipes.
ExecFails ==
  /\ pc = "exec"
  /\ parent' = FALSE /\ closed' = closed \cup listened
  /\ result' = "error" /\ pc' = "cleanup"
  /\ UNCHANGED <<setup, cancelled, stopped, stdio, tails, outside>>

-----------------------------------------------------------------------------
(* Wait.                                                                   *)

\* The wait group of the stream readers: a reader leaves it before it closes
\* its end.
ReadersDone == \A s \in Streams : reader[s] \in {"off", "closing", "done"}
FollowersDone == \A l \in Logs : follower[l] \in {"off", "done"}

\* Before the process, as reaping it closes the pipes.
StdioUnawaited == TRUE
StdioAwaited == ReadersDone

WaitStdio ==
  /\ pc = "stdio" /\ StdioAwaited
  /\ pc' = "process"
  /\ UNCHANGED <<setup, result, cancelled, stopped, parent, closed, stdio, tails, outside>>

\* With a done context even a command that has succeeded may count as killed.
WaitProcess ==
  /\ pc = "process" /\ Exited
  /\ closed' = closed \cup listened
  /\ result' \in (IF child = "succeeded" THEN {"ok"} ELSE {}) \cup (IF child = "failed" \/ cancelled THEN {"error"} ELSE {})
  /\ pc' = "cleanup"
  /\ UNCHANGED <<setup, cancelled, stopped, parent, stdio, tails, outside>>

\* cleanup.
CancelFollowersNot == stopped
CancelFollowers == TRUE

StopFollowers ==
  /\ pc = "cleanup"
  /\ stopped' = CancelFollowers /\ pc' = "join"
  /\ UNCHANGED <<setup, result, cancelled, parent, closed, stdio, tails, outside>>

ReadersJoined == ReadersDone
AllJoined == ReadersDone /\ FollowersDone

Join ==
  /\ pc = "join" /\ AllJoined
  /\ pc' = "returned"
  /\ UNCHANGED <<setup, result, cancelled, stopped, parent, closed, stdio, tails, outside>>

-----------------------------------------------------------------------------
(* processStdio, for each stream.                                          *)

\* Scan: a line that does not fit ends the loop like the end of the output.
Scan(s) ==
  /\ reader[s] = "reading" /\ s \notin closed /\ taken[s] < Len(sent[s])
  /\ taken' = [taken EXCEPT ![s] = @ + 1]
  /\ reader' = [reader EXCEPT ![s] = IF sent[s][taken[s] + 1] = "long" THEN "closing" ELSE "calling"]
  /\ UNCHANGED <<setup, caller, cancelled, parent, closed, delivered, tails, outside>>

ListenerReturns(s) ==
  /\ reader[s] = "calling"
  /\ delivered' = [delivered EXCEPT ![s] = @ + 1]
  /\ reader' = [reader EXCEPT ![s] = "reading"]
  /\ UNCHANGED <<setup, caller, cancelled, parent, closed, taken, tails, outside>>

\* Only when every write end is closed, this process's included.
EndOfOutput(s) == taken[s] = Len(sent[s]) /\ ~parent /\ ~Alive

StopReading(s) ==
  /\ reader[s] = "reading"
  /\ s \in closed \/ EndOfOutput(s)
  /\ reader' = [reader EXCEPT ![s] = "closing"]
  /\ UNCHANGED <<setup, caller, cancelled, parent, closed, taken, delivered, tails, outside>>

LeaveOpen(s) == closed
CloseEnd(s) == closed \cup {s}

\* The deferred reader.Close.
CloseReader(s) ==
  /\ reader[s] = "closing"
  /\ closed' = CloseEnd(s)
  /\ reader' = [reader EXCEPT ![s] = "done"]
  /\ UNCHANGED <<setup, caller, cancelled, parent, taken, delivered, tails, outside>>

-----------------------------------------------------------------------------
(* processFileRealTime, for each log.                                      *)

\* The select takes a line even when the context is done.
Follow(l) ==
  /\ follower[l] = "following" /\ seen[l] < logged[l]
  /\ seen' = [seen EXCEPT ![l] = @ + 1]
  /\ follower' = [follower EXCEPT ![l] = "calling"]
  /\ UNCHANGED <<setup, caller, cancelled, parent, closed, stdio, outside>>

LogListenerReturns(l) ==
  /\ follower[l] = "calling"
  /\ follower' = [follower EXCEPT ![l] = "following"]
  /\ UNCHANGED <<setup, caller, cancelled, parent, closed, stdio, seen, outside>>

FollowingEnds == stopped \/ cancelled

StopFollowing(l) ==
  /\ follower[l] = "following" /\ FollowingEnds
  /\ follower' = [follower EXCEPT ![l] = "done"]
  /\ UNCHANGED <<setup, caller, cancelled, parent, closed, stdio, seen, outside>>

\* The tail closes its channel, as it does for a log that is removed.
TailEnds(l) ==
  /\ follower[l] = "following"
  /\ follower' = [follower EXCEPT ![l] = "done"]
  /\ UNCHANGED <<setup, caller, cancelled, parent, closed, stdio, seen, outside>>

-----------------------------------------------------------------------------
(* The command, its descendants and the user.                              *)

\* Writing to a full pipe blocks.
Write(s, kind) ==
  /\ Alive /\ s \in listened /\ s \notin closed /\ ~Full(s)
  /\ Len(sent[s]) < MaxLines
  /\ sent' = [sent EXCEPT ![s] = Append(@, kind)]
  /\ UNCHANGED <<setup, caller, cancelled, parent, closed, stdio, tails, child, held, logged>>

WriteLog(l) ==
  /\ Alive /\ logged[l] < MaxLines
  /\ logged' = [logged EXCEPT ![l] = @ + 1]
  /\ UNCHANGED <<setup, caller, cancelled, parent, closed, stdio, tails, child, held, sent>>

\* Of its own, by a signal, or by writing to a closed pipe.
ChildExits ==
  /\ child = "running"
  /\ child' \in {"succeeded", "failed"}
  /\ UNCHANGED <<setup, caller, cancelled, parent, closed, stdio, tails, held, sent, logged>>

Fork ==
  /\ child = "running" /\ ~held
  /\ held' = TRUE
  /\ UNCHANGED <<setup, caller, cancelled, parent, closed, stdio, tails, child, sent, logged>>

DescendantsExit ==
  /\ held
  /\ held' = FALSE
  /\ UNCHANGED <<setup, caller, cancelled, parent, closed, stdio, tails, child, sent, logged>>

Interrupt ==
  /\ pc # "returned" /\ ~cancelled
  /\ cancelled' = TRUE
  /\ UNCHANGED <<setup, caller, parent, closed, stdio, tails, outside>>

\* exec.CommandContext kills the process, but not its descendants.
KillChild ==
  /\ cancelled /\ child = "running"
  /\ child' = "failed"
  /\ UNCHANGED <<setup, caller, cancelled, parent, closed, stdio, tails, held, sent, logged>>

-----------------------------------------------------------------------------
Starting ==
  \/ ProgramMissing \/ ProgramFound \/ \E s \in Streams : OpenPipe(s) \/ OpenPipeFails(s)
  \/ FollowLogs \/ Exec \/ ExecFails

Waiting == WaitStdio \/ WaitProcess \/ StopFollowers \/ Join

Reading(s) == Scan(s) \/ ListenerReturns(s) \/ StopReading(s) \/ CloseReader(s)
Following(l) == Follow(l) \/ LogListenerReturns(l) \/ StopFollowing(l)

Environment ==
  \/ \E s \in Streams, kind \in Kinds : Write(s, kind)
  \/ \E l \in Logs : WriteLog(l) \/ TailEnds(l)
  \/ ChildExits \/ Fork \/ DescendantsExit \/ Interrupt

\* The command object is not used again.
Finished == pc = "returned" /\ UNCHANGED vars

Next ==
  \/ Finished
  \/ Starting \/ Waiting \/ Environment \/ KillChild
  \/ \E s \in Streams : Reading(s)
  \/ \E l \in Logs : Following(l)

\* Goroutines run, listeners return, and a kill arrives. Nothing is assumed of
\* the command itself or of its descendants. A select whose two cases stay
\* ready takes each of them at some time.
Fairness ==
  /\ WF_vars(Starting) /\ WF_vars(Waiting) /\ WF_vars(KillChild)
  /\ \A s \in Streams : WF_vars(Reading(s))
  /\ \A l \in Logs : WF_vars(Following(l)) /\ SF_vars(StopFollowing(l))

Spec == Init /\ [][Next]_vars /\ Fairness

-----------------------------------------------------------------------------
TypeOK ==
  /\ listened \in SUBSET Streams /\ followed \in SUBSET Logs
  /\ pc \in Streams \cup {"look", "tails", "exec", "stdio", "process", "cleanup", "join", "returned"}
  /\ result \in {"none", "ok", "error"}
  /\ cancelled \in BOOLEAN /\ stopped \in BOOLEAN /\ held \in BOOLEAN /\ parent \in BOOLEAN
  /\ child \in {"none", "running", "succeeded", "failed"}
  /\ closed \in SUBSET listened
  /\ sent \in [Streams -> Seq(Kinds)]
  /\ taken \in [Streams -> Nat] /\ delivered \in [Streams -> Nat]
  /\ reader \in [Streams -> {"off", "reading", "calling", "closing", "done"}]
  /\ logged \in [Logs -> Nat] /\ seen \in [Logs -> Nat]
  /\ follower \in [Logs -> {"off", "following", "calling", "done"}]
  /\ \A s \in Streams : delivered[s] <= taken[s] /\ taken[s] <= Len(sent[s]) /\ Len(sent[s]) - taken[s] <= PipeSize
  /\ \A l \in Logs : seen[l] <= logged[l]

\* The lines a listener is owed: those before one that does not fit.
Readable(lines) == {i \in DOMAIN lines : \A j \in 1 .. i : lines[j] = "text"}

\* When the command has run and returned, its listeners have seen everything
\* it and its descendants wrote, in time for the result to be used: Wait
\* collects the readers before it lets exec close the pipes.
OutputDelivered ==
  pc = "returned" /\ child # "none" =>
    \A s \in listened : delivered[s] = Cardinality(Readable(sent[s]))

\* Start gave up between the two pipes, and the reader of the first stays.
ReaderAbandoned == child = "none" /\ parent /\ listened = Streams

\* After the command has returned no listener runs any more: callers then end
\* the events that the listeners update, and go on to the next command.
QuietAfterReturn ==
  pc = "returned" =>
    /\ \A s \in Streams : reader[s] # "calling" /\ (reader[s] = "reading" => ReaderAbandoned)
    /\ FollowersDone

\* A command that was cancelled, or has exited, returns, unless a descendant
\* keeps its streams open.
RunReturns == (cancelled \/ Exited) ~> (pc = "returned" \/ held)

\* A command that writes more than a pipe holds is not left hanging: its
\* output is read, or the pipe is closed, even after a line that ends the
\* reader.
ChildNeverStuck == \A s \in Streams : (child = "running" /\ Full(s)) ~> ~(child = "running" /\ Full(s))

=============================================================================
