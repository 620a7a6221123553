--------------------------- MODULE ExternalCmdProofs ---------------------------
(***************************************************************************)
(* The safety properties of ExternalCmd for any logs, any pipe size and    *)
(* any amount of output, from one inductive invariant, IInv. (MaxLines     *)
(* only bounds what is written; no proof step needs it small.)             *)
(***************************************************************************)
EXTENDS ExternalCmd, FiniteSetTheorems, SequenceTheorems, TLAPS

\* Start has neither got to the child nor given up.
Launching == pc \in Streams \cup {"look", "tails", "exec"}

\* The streams whose pipe has been dealt with.
Opened ==
  IF pc = "look" \/ pc = "stdout" THEN {} ELSE IF pc = "stderr" THEN {"stdout"} ELSE Streams

\* As long as this process has the write ends open there is no child and
\* nothing but readers that wait.
LaunchShape ==
  /\ parent => child = "none" /\ closed = {} /\ (Launching \/ pc = "returned")
  /\ Launching =>
       /\ parent
       /\ \A s \in Streams : reader[s] = IF s \in Opened THEN Started(s) ELSE "off"
  /\ parent /\ pc = "returned" =>
       \A s \in Streams : reader[s] = "off" \/ (reader[s] = "reading" /\ listened = Streams)
  /\ parent /\ pc # "exec" => FollowersDone

\* Without a child nothing is written, and nothing read.
NotYetRun ==
  child = "none" =>
    /\ ~held
    /\ \A s \in Streams : sent[s] = <<>> /\ taken[s] = 0 /\ delivered[s] = 0

AllText(s, n) == \A i \in 1 .. n : sent[s][i] = "text"

\* How far the reader of a stream has got. One that has stopped has met a line
\* that does not fit, or the end of all output.
ReaderShape(s) ==
  /\ reader[s] = "off" => taken[s] = 0 /\ delivered[s] = 0
  /\ reader[s] = "reading" => delivered[s] = taken[s] /\ AllText(s, taken[s])
  /\ reader[s] = "calling" => delivered[s] + 1 = taken[s] /\ AllText(s, taken[s])
  /\ reader[s] \in {"closing", "done"} =>
       \/ /\ delivered[s] = taken[s] /\ taken[s] = Len(sent[s])
          /\ AllText(s, taken[s]) /\ ~Alive /\ ~parent
       \/ /\ delivered[s] + 1 = taken[s]
          /\ AllText(s, delivered[s]) /\ sent[s][taken[s]] = "long"

\* A stream without a listener has no reader; once the child has run, one with
\* a listener has, and nobody closes its pipe while it reads.
ListenerShape ==
  /\ \A s \in Streams : s \notin listened => reader[s] = "off"
  /\ child # "none" => \A s \in listened : reader[s] # "off"
  /\ child # "none" => \A s \in closed : reader[s] \in {"closing", "done"}

\* What Wait has behind it.
WaitShape ==
  /\ pc \in {"stdio", "process"} => child # "none"
  /\ pc \in {"process", "cleanup", "join", "returned"} /\ child # "none" => ReadersDone
  /\ pc = "returned" /\ ~parent => ReadersDone
  /\ pc = "returned" => FollowersDone

IInv ==
  /\ TypeOK /\ LaunchShape /\ NotYetRun
  /\ \A s \in Streams : ReaderShape(s)
  /\ ListenerShape /\ WaitShape

-----------------------------------------------------------------------------
(* What the steps have in common.                                          *)

\* Initially nothing is started.
LEMMA InitIInv == Init => IInv
<1> SUFFICES ASSUME Init PROVE IInv
  OBVIOUS
<1> USE DEF Init
<1>1. TypeOK
  <2>1. sent \in [Streams -> Seq(Kinds)] /\ \A s \in Streams : Len(sent[s]) = 0
    BY EmptySeq
  <2>2. /\ taken \in [Streams -> Nat] /\ delivered \in [Streams -> Nat]
        /\ \A s \in Streams : taken[s] = 0 /\ delivered[s] = 0
    OBVIOUS
  <2>3. /\ logged \in [Logs -> Nat] /\ seen \in [Logs -> Nat]
        /\ \A l \in Logs : logged[l] = 0 /\ seen[l] = 0
    OBVIOUS
  <2>4. \A s \in Streams : Len(sent[s]) - taken[s] <= PipeSize
    BY <2>1, <2>2, SizesAssumption
  <2>5. /\ reader \in [Streams -> {"off", "reading", "calling", "closing", "done"}]
        /\ follower \in [Logs -> {"off", "following", "calling", "done"}]
    OBVIOUS
  <2>6. /\ \A s \in Streams : delivered[s] <= taken[s] /\ taken[s] <= Len(sent[s])
        /\ \A l \in Logs : seen[l] <= logged[l]
    BY <2>1, <2>2, <2>3
  <2>7. /\ pc \in Streams \cup {"look", "tails", "exec", "stdio", "process", "cleanup", "join", "returned"}
        /\ closed \in SUBSET listened
    OBVIOUS
  <2> QED BY <2>1, <2>2, <2>3, <2>4, <2>5, <2>6, <2>7 DEF TypeOK
<1>2. LaunchShape
  BY DEF LaunchShape, Launching, Opened, FollowersDone, Streams
<1>3. NotYetRun /\ \A s \in Streams : ReaderShape(s)
  BY DEF NotYetRun, ReaderShape
<1>4. ListenerShape /\ WaitShape
  BY DEF ListenerShape, WaitShape, Streams
<1> QED BY <1>1, <1>2, <1>3, <1>4 DEF IInv

\* A reader's position stays right when nothing of that stream changes and the
\* end of all output stays the end.
LEMMA ReaderFrame ==
  ASSUME NEW s \in Streams, ReaderShape(s),
         reader'[s] = reader[s], taken'[s] = taken[s],
         delivered'[s] = delivered[s], sent'[s] = sent[s],
         ~Alive /\ ~parent => ~Alive' /\ ~parent'
  PROVE  ReaderShape(s)'
BY DEF ReaderShape, AllText

-----------------------------------------------------------------------------
(* Start.                                                                  *)

\* The program is looked for.
LEMMA LookIInv == IInv /\ (ProgramMissing \/ ProgramFound) => IInv'
<1> SUFFICES ASSUME IInv, ProgramMissing \/ ProgramFound PROVE IInv'
  OBVIOUS
<1> USE DEF IInv, ProgramMissing, ProgramFound, Return, setup, stdio, tails, outside
<1>1. TypeOK'
  BY DEF TypeOK, Streams
<1>2. LaunchShape'
  BY DEF LaunchShape, Launching, Opened, FollowersDone, Streams
<1>3. NotYetRun'
  BY DEF NotYetRun
<1>4. \A s \in Streams : ReaderShape(s)'
  BY ReaderFrame DEF Alive
<1>5. ListenerShape'
  BY DEF ListenerShape
<1>6. WaitShape'
  BY DEF WaitShape, LaunchShape, Launching, FollowersDone, Streams
<1> QED BY <1>1, <1>2, <1>3, <1>4, <1>5, <1>6

\* A pipe is opened.
LEMMA OpenPipeIInv ==
  ASSUME NEW s \in Streams, IInv, OpenPipe(s)
  PROVE  IInv'
<1> USE DEF IInv, OpenPipe, setup, tails, outside
<1>1. TypeOK'
  BY DEF TypeOK, Streams, Started
<1>2. LaunchShape'
  <2>1. Launching /\ Launching' /\ parent' /\ child' = "none" /\ closed' = {}
    BY DEF LaunchShape, Launching, Streams
  <2>2. Opened' = Opened \cup {s} /\ s \notin Opened
    BY DEF Opened, Streams
  <2>3. \A t \in Streams : reader'[t] = IF t \in Opened' THEN Started(t)' ELSE "off"
    BY <2>1, <2>2 DEF LaunchShape, TypeOK, Started
  <2>4. FollowersDone'
    BY DEF LaunchShape, Launching, FollowersDone, Streams
  <2> QED BY <2>1, <2>3, <2>4 DEF LaunchShape, Launching, Streams
<1>3. NotYetRun'
  BY DEF NotYetRun
<1>4. child = "none" /\ parent /\ closed = {}
  BY DEF LaunchShape, Launching
<1>5. ASSUME NEW t \in Streams PROVE ReaderShape(t)'
  <2>1. taken'[t] = 0 /\ delivered'[t] = 0
    BY <1>4 DEF NotYetRun
  <2>2. reader'[t] \in {"off", "reading"}
    BY <1>4, <1>5 DEF LaunchShape, Launching, TypeOK, Started
  <2> QED BY <2>1, <2>2 DEF ReaderShape, AllText
<1>6. ListenerShape'
  BY <1>4 DEF ListenerShape, TypeOK, Started
<1>7. WaitShape'
  BY DEF WaitShape, Streams
<1> QED BY <1>1, <1>2, <1>3, <1>5, <1>6, <1>7

\* A pipe cannot be opened.
LEMMA OpenPipeFailsIInv ==
  ASSUME NEW s \in Streams, IInv, OpenPipeFails(s)
  PROVE  IInv'
<1> USE DEF IInv, OpenPipeFails, Return, setup, stdio, tails, outside
<1>1. TypeOK'
  BY DEF TypeOK, Streams
<1>2. LaunchShape'
  <2>1. /\ parent' /\ child' = "none" /\ closed' = {} /\ ~Launching'
        /\ FollowersDone'
    BY DEF LaunchShape, Launching, FollowersDone, Streams
  <2>2. CASE s = "stdout"
    BY <2>1, <2>2 DEF LaunchShape, Launching, Opened, Streams
  <2>3. CASE s = "stderr"
    <3>1. \A t \in Streams : reader[t] = IF t = "stdout" THEN Started(t) ELSE "off"
      BY <2>3 DEF LaunchShape, Launching, Opened, Streams
    <3>2. \A t \in Streams : reader[t] = "off" \/ (reader[t] = "reading" /\ listened = Streams)
      BY <2>3, <3>1 DEF Started, TypeOK, Streams
    <3> QED BY <2>1, <3>2 DEF LaunchShape
  <2> QED BY <2>2, <2>3 DEF Streams
<1>3. NotYetRun'
  BY DEF NotYetRun
<1>4. \A t \in Streams : ReaderShape(t)'
  BY ReaderFrame DEF Alive
<1>5. ListenerShape'
  BY DEF ListenerShape
<1>6. WaitShape'
  BY DEF WaitShape, LaunchShape, Launching, FollowersDone, Streams
<1> QED BY <1>1, <1>2, <1>3, <1>4, <1>5, <1>6

\* The logs are followed.
LEMMA FollowLogsIInv == IInv /\ FollowLogs => IInv'
<1> SUFFICES ASSUME IInv, FollowLogs PROVE IInv'
  OBVIOUS
<1> USE DEF IInv, FollowLogs, setup, stdio, outside
<1>1. TypeOK'
  BY DEF TypeOK
<1>2. LaunchShape'
  <2>1. Launching /\ Launching' /\ parent' /\ child' = "none" /\ closed' = {}
    BY DEF LaunchShape, Launching
  <2>2. Opened' = Opened
    BY DEF Opened, Streams
  <2> QED BY <2>1, <2>2 DEF LaunchShape, Started
<1>3. NotYetRun'
  BY DEF NotYetRun
<1>4. \A s \in Streams : ReaderShape(s)'
  BY ReaderFrame DEF Alive
<1>5. ListenerShape' /\ WaitShape'
  BY DEF ListenerShape, WaitShape
<1> QED BY <1>1, <1>2, <1>3, <1>4, <1>5

\* The child runs: its streams are read from the beginning.
LEMMA ExecIInv == IInv /\ Exec => IInv'
<1> SUFFICES ASSUME IInv, Exec PROVE IInv'
  OBVIOUS
<1> USE DEF IInv, Exec, setup, stdio, tails
<1>0. /\ child = "none" /\ closed = {}
      /\ \A s \in Streams : reader[s] = Started(s)
      /\ \A s \in Streams : taken[s] = 0 /\ delivered[s] = 0
  BY DEF LaunchShape, Launching, Opened, NotYetRun, Streams
<1>1. TypeOK'
  BY DEF TypeOK
<1>2. LaunchShape' /\ NotYetRun'
  BY DEF LaunchShape, Launching, Streams, NotYetRun
<1>3. \A s \in Streams : ReaderShape(s)'
  BY <1>0 DEF ReaderShape, Started, AllText
<1>4. ListenerShape'
  BY <1>0 DEF ListenerShape, Started, TypeOK
<1>5. WaitShape'
  BY DEF WaitShape
<1> QED BY <1>1, <1>2, <1>3, <1>4, <1>5

\* The child cannot be run.
LEMMA ExecFailsIInv == IInv /\ ExecFails => IInv'
<1> SUFFICES ASSUME IInv, ExecFails PROVE IInv'
  OBVIOUS
<1> USE DEF IInv, ExecFails, setup, stdio, tails, outside
<1>0. child = "none"
  BY DEF LaunchShape, Launching
<1>1. TypeOK'
  BY DEF TypeOK
<1>2. LaunchShape' /\ NotYetRun'
  BY DEF LaunchShape, Launching, Streams, NotYetRun
<1>3. \A s \in Streams : ReaderShape(s)'
  BY ReaderFrame DEF Alive
<1>4. ListenerShape' /\ WaitShape'
  BY <1>0 DEF ListenerShape, WaitShape
<1> QED BY <1>1, <1>2, <1>3, <1>4

-----------------------------------------------------------------------------
(* Wait.                                                                   *)

\* The steps of Wait, each of which needs what the one before has settled.
LEMMA WaitingIInv == IInv /\ Waiting => IInv'
<1> SUFFICES ASSUME IInv, Waiting PROVE IInv'
  OBVIOUS
<1> USE DEF IInv, setup, stdio, tails, outside
<1>1. CASE WaitStdio
  <2> USE <1>1 DEF WaitStdio
  <2>1. TypeOK'
    BY DEF TypeOK
  <2>2. LaunchShape' /\ NotYetRun'
    BY DEF LaunchShape, Launching, Streams, NotYetRun
  <2>3. \A s \in Streams : ReaderShape(s)'
    BY ReaderFrame DEF Alive
  <2>4. ListenerShape' /\ WaitShape'
    BY DEF ListenerShape, WaitShape, StdioAwaited, ReadersDone
  <2> QED BY <2>1, <2>2, <2>3, <2>4
<1>2. CASE WaitProcess
  <2> USE <1>2 DEF WaitProcess
  <2>1. TypeOK'
    BY DEF TypeOK
  <2>2. LaunchShape' /\ NotYetRun'
    BY DEF LaunchShape, Launching, Streams, NotYetRun
  <2>3. \A s \in Streams : ReaderShape(s)'
    BY ReaderFrame DEF Alive
  <2>4. ListenerShape'
    BY DEF ListenerShape, WaitShape, ReadersDone, TypeOK
  <2>5. WaitShape'
    BY DEF WaitShape, ReadersDone
  <2> QED BY <2>1, <2>2, <2>3, <2>4, <2>5
<1>3. CASE StopFollowers
  <2> USE <1>3 DEF StopFollowers
  <2>1. TypeOK'
    BY DEF TypeOK, CancelFollowers
  <2>2. LaunchShape' /\ NotYetRun'
    BY DEF LaunchShape, Launching, Streams, NotYetRun
  <2>3. \A s \in Streams : ReaderShape(s)'
    BY ReaderFrame DEF Alive
  <2>4. ListenerShape' /\ WaitShape'
    BY DEF ListenerShape, WaitShape, ReadersDone
  <2> QED BY <2>1, <2>2, <2>3, <2>4
<1>4. CASE Join
  <2> USE <1>4 DEF Join
  <2>1. TypeOK'
    BY DEF TypeOK
  <2>2. LaunchShape' /\ NotYetRun'
    BY DEF LaunchShape, Launching, Streams, NotYetRun
  <2>3. \A s \in Streams : ReaderShape(s)'
    BY ReaderFrame DEF Alive
  <2>4. ListenerShape' /\ WaitShape'
    BY DEF ListenerShape, WaitShape, AllJoined, ReadersDone, FollowersDone
  <2> QED BY <2>1, <2>2, <2>3, <2>4
<1> QED BY <1>1, <1>2, <1>3, <1>4 DEF Waiting

-----------------------------------------------------------------------------
(* The readers.                                                            *)

\* Once there is something to read there is a child, and Start is over.
LEMMA WrittenMeansRun ==
  ASSUME IInv, NEW s \in Streams, Len(sent[s]) > 0
  PROVE  child # "none" /\ ~parent /\ ~Launching
<1>1. child # "none"
  BY EmptySeq DEF IInv, NotYetRun
<1> QED BY <1>1 DEF IInv, LaunchShape

\* A line is taken out of the pipe.
LEMMA ScanIInv ==
  ASSUME NEW s \in Streams, IInv, Scan(s)
  PROVE  IInv'
<1> USE DEF IInv, Scan, setup, caller, tails, outside
<1>0. /\ sent[s] \in Seq(Kinds) /\ taken[s] \in Nat /\ delivered[s] \in Nat
      /\ Len(sent[s]) \in Nat /\ taken[s] + 1 \in 1 .. Len(sent[s])
      /\ sent[s][taken[s] + 1] \in Kinds
  BY LenProperties, ElementOfSeq DEF TypeOK
<1>1. child # "none" /\ ~parent /\ ~Launching
  BY <1>0, WrittenMeansRun
<1>2. /\ taken' = [taken EXCEPT ![s] = taken[s] + 1] /\ reader'[s] \in {"calling", "closing"}
      /\ \A t \in Streams \ {s} : taken'[t] = taken[t] /\ reader'[t] = reader[t]
      /\ taken'[s] = taken[s] + 1
  BY DEF TypeOK
<1>3. TypeOK'
  <2>1. taken' \in [Streams -> Nat]
    BY <1>0, <1>2 DEF TypeOK
  <2>2. reader' \in [Streams -> {"off", "reading", "calling", "closing", "done"}]
    BY DEF TypeOK
  <2>3. \A t \in Streams : delivered'[t] <= taken'[t] /\ taken'[t] <= Len(sent'[t]) /\ Len(sent'[t]) - taken'[t] <= PipeSize
    BY <1>0, <1>2, SizesAssumption DEF TypeOK
  <2> QED BY <2>1, <2>2, <2>3 DEF TypeOK
<1>4. LaunchShape' /\ NotYetRun'
  BY <1>1 DEF LaunchShape, Launching, NotYetRun
<1>5. ASSUME NEW t \in Streams PROVE ReaderShape(t)'
  <2>1. CASE t # s
    BY <1>2, <2>1, ReaderFrame DEF Alive
  <2>2. CASE t = s
    <3>1. delivered[s] = taken[s] /\ AllText(s, taken[s])
      BY DEF ReaderShape
    <3>2. CASE sent[s][taken[s] + 1] = "long"
      <4>1. reader'[s] = "closing"
        BY <3>2 DEF TypeOK
      <4> QED BY <1>0, <1>2, <2>2, <3>1, <3>2, <4>1 DEF ReaderShape, AllText
    <3>3. CASE sent[s][taken[s] + 1] = "text"
      <4>1. reader'[s] = "calling"
        BY <3>3 DEF TypeOK
      <4>2. AllText(s, taken[s] + 1)
        BY <1>0, <3>1, <3>3 DEF AllText
      <4> QED BY <1>0, <1>2, <2>2, <3>1, <4>1, <4>2 DEF ReaderShape, AllText
    <3> QED BY <1>0, <3>2, <3>3 DEF Kinds
  <2> QED BY <2>1, <2>2
<1>6. ListenerShape'
  BY <1>2 DEF ListenerShape, TypeOK
<1>7. WaitShape'
  BY <1>2 DEF WaitShape, ReadersDone, FollowersDone
<1> QED BY <1>3, <1>4, <1>5, <1>6, <1>7

\* The listener has dealt with a line.
LEMMA ListenerReturnsIInv ==
  ASSUME NEW s \in Streams, IInv, ListenerReturns(s)
  PROVE  IInv'
<1> USE DEF IInv, ListenerReturns, setup, caller, tails, outside
<1>0. delivered[s] \in Nat /\ taken[s] = delivered[s] + 1 /\ AllText(s, taken[s])
  BY DEF TypeOK, ReaderShape
<1>1. child # "none" /\ ~parent /\ ~Launching
  <2>1. child # "none"
    BY <1>0 DEF NotYetRun
  <2> QED BY <2>1 DEF LaunchShape
<1>2. /\ delivered'[s] = taken[s] /\ reader'[s] = "reading"
      /\ \A t \in Streams \ {s} : delivered'[t] = delivered[t] /\ reader'[t] = reader[t]
  BY <1>0 DEF TypeOK
<1>3. TypeOK'
  <2>1. delivered' \in [Streams -> Nat]
    BY <1>0 DEF TypeOK
  <2>2. reader' \in [Streams -> {"off", "reading", "calling", "closing", "done"}]
    BY DEF TypeOK
  <2>3. \A t \in Streams : delivered'[t] <= taken'[t] /\ taken'[t] <= Len(sent'[t]) /\ Len(sent'[t]) - taken'[t] <= PipeSize
    BY <1>0, <1>2 DEF TypeOK
  <2> QED BY <2>1, <2>2, <2>3 DEF TypeOK
<1>4. LaunchShape' /\ NotYetRun'
  BY <1>1 DEF LaunchShape, Launching, NotYetRun
<1>5. ASSUME NEW t \in Streams PROVE ReaderShape(t)'
  <2>1. CASE t # s
    BY <1>2, <2>1, ReaderFrame DEF Alive
  <2>2. CASE t = s
    BY <1>0, <1>2, <2>2 DEF ReaderShape, AllText
  <2> QED BY <2>1, <2>2
<1>6. ListenerShape' /\ WaitShape'
  <2>1. s \notin closed
    BY <1>1 DEF ListenerShape
  <2>2. ~ReadersDone
    BY DEF ReadersDone
  <2> QED BY <1>1, <1>2, <2>1, <2>2 DEF ListenerShape, WaitShape, FollowersDone, TypeOK
<1> QED BY <1>3, <1>4, <1>5, <1>6

\* The reader's loop ends: at the end of all output, or because exec closed
\* the pipe of a child that never ran.
LEMMA StopReadingIInv ==
  ASSUME NEW s \in Streams, IInv, StopReading(s)
  PROVE  IInv'
<1> USE DEF IInv, StopReading, setup, caller, tails, outside
<1>1. ~parent /\ ~Alive /\ taken[s] = Len(sent[s])
  <2>1. CASE s \in closed
    <3>1. child = "none" /\ ~parent
      BY <2>1 DEF ListenerShape, LaunchShape
    <3>2. ~held /\ sent[s] = <<>> /\ taken[s] = 0
      BY <3>1 DEF NotYetRun
    <3> QED BY <3>1, <3>2, EmptySeq DEF Alive
  <2>2. CASE EndOfOutput(s)
    BY <2>2 DEF EndOfOutput
  <2> QED BY <2>1, <2>2
<1>2. ~Launching
  BY <1>1 DEF LaunchShape
<1>3. reader'[s] = "closing" /\ \A t \in Streams \ {s} : reader'[t] = reader[t]
  BY DEF TypeOK
<1>4. TypeOK'
  BY DEF TypeOK
<1>5. LaunchShape' /\ NotYetRun'
  BY <1>1, <1>2 DEF LaunchShape, Launching, NotYetRun
<1>6. ASSUME NEW t \in Streams PROVE ReaderShape(t)'
  <2>1. CASE t # s
    BY <1>3, <2>1, ReaderFrame DEF Alive
  <2>2. CASE t = s
    BY <1>1, <1>3, <2>2 DEF ReaderShape, AllText, Alive
  <2> QED BY <2>1, <2>2
<1>7. ListenerShape' /\ WaitShape'
  BY <1>3 DEF ListenerShape, WaitShape, ReadersDone, FollowersDone, TypeOK
<1> QED BY <1>4, <1>5, <1>6, <1>7

\* The reader closes its end of the pipe.
LEMMA CloseReaderIInv ==
  ASSUME NEW s \in Streams, IInv, CloseReader(s)
  PROVE  IInv'
<1> USE DEF IInv, CloseReader, CloseEnd, setup, caller, tails, outside
<1>1. ~parent /\ ~Launching /\ s \in listened
  <2>1. parent => reader[s] \in {"off", "reading"}
    BY DEF LaunchShape, Started
  <2> QED BY <2>1 DEF LaunchShape, ListenerShape
<1>2. reader'[s] = "done" /\ \A t \in Streams \ {s} : reader'[t] = reader[t]
  BY DEF TypeOK
<1>3. TypeOK'
  BY <1>1 DEF TypeOK
<1>4. LaunchShape' /\ NotYetRun'
  BY <1>1 DEF LaunchShape, Launching, NotYetRun
<1>5. ASSUME NEW t \in Streams PROVE ReaderShape(t)'
  <2>1. CASE t # s
    BY <1>2, <2>1, ReaderFrame DEF Alive
  <2>2. CASE t = s
    BY <1>2, <2>2 DEF ReaderShape, AllText, Alive
  <2> QED BY <2>1, <2>2
<1>6. ListenerShape' /\ WaitShape'
  BY <1>2 DEF ListenerShape, WaitShape, ReadersDone, FollowersDone, TypeOK
<1> QED BY <1>3, <1>4, <1>5, <1>6

-----------------------------------------------------------------------------
(* The followers of the logs, and the command and its surroundings.        *)

\* A step that only concerns the followers, none of which starts again.
LEMMA FollowerIInv ==
  ASSUME IInv,
         UNCHANGED <<setup, caller, cancelled, parent, closed, stdio, child, held, sent>>,
         logged' \in [Logs -> Nat], seen' \in [Logs -> Nat],
         follower' \in [Logs -> {"off", "following", "calling", "done"}],
         \A l \in Logs : seen'[l] <= logged'[l],
         FollowersDone => FollowersDone'
  PROVE  IInv'
<1> USE DEF IInv, setup, caller, stdio
<1>1. TypeOK'
  BY DEF TypeOK
<1>2. LaunchShape' /\ NotYetRun'
  BY DEF LaunchShape, Launching, Opened, NotYetRun, Started
<1>3. \A s \in Streams : ReaderShape(s)'
  BY ReaderFrame DEF Alive
<1>4. ListenerShape' /\ WaitShape'
  BY DEF ListenerShape, WaitShape, ReadersDone
<1> QED BY <1>1, <1>2, <1>3, <1>4

\* The steps of a follower, and of the tail it reads from.
LEMMA FollowingIInv ==
  ASSUME NEW l \in Logs, IInv, Following(l) \/ TailEnds(l) \/ WriteLog(l)
  PROVE  IInv'
<1>0. TypeOK
  BY DEF IInv
<1>1. CASE Follow(l)
  BY <1>0, <1>1, FollowerIInv DEF Follow, TypeOK, FollowersDone, outside
<1>2. CASE LogListenerReturns(l)
  BY <1>0, <1>2, FollowerIInv DEF LogListenerReturns, TypeOK, FollowersDone, outside
<1>3. CASE StopFollowing(l) \/ TailEnds(l)
  BY <1>0, <1>3, FollowerIInv DEF StopFollowing, TailEnds, TypeOK, FollowersDone, outside
<1>4. CASE WriteLog(l)
  BY <1>0, <1>4, FollowerIInv DEF WriteLog, TypeOK, FollowersDone, tails
<1> QED BY <1>1, <1>2, <1>3, <1>4 DEF Following

\* A line is written: the readers that have stopped were not owed it.
LEMMA WriteIInv ==
  ASSUME NEW s \in Streams, NEW kind \in Kinds, IInv, Write(s, kind)
  PROVE  IInv'
<1> USE DEF IInv, Write, setup, caller, stdio, tails
<1>0. /\ sent[s] \in Seq(Kinds) /\ Len(sent[s]) \in Nat /\ taken[s] \in Nat /\ delivered[s] \in Nat
      /\ delivered[s] <= taken[s] /\ taken[s] <= Len(sent[s]) /\ Len(sent[s]) - taken[s] <= PipeSize
  BY LenProperties DEF TypeOK
<1>1. child # "none" /\ Alive
  BY DEF NotYetRun, Alive
<1>2. /\ sent'[s] \in Seq(Kinds) /\ Len(sent'[s]) = Len(sent[s]) + 1
      /\ \A i \in 1 .. Len(sent[s]) : sent'[s][i] = sent[s][i]
      /\ \A t \in Streams \ {s} : sent'[t] = sent[t]
  <2>1. sent'[s] = Append(sent[s], kind) /\ \A t \in Streams \ {s} : sent'[t] = sent[t]
    BY DEF TypeOK
  <2> QED BY <1>0, <2>1, AppendProperties
<1>3. TypeOK'
  <2>1. sent' \in [Streams -> Seq(Kinds)]
    BY <1>0, AppendProperties DEF TypeOK
  <2>2. Len(sent[s]) - taken[s] # PipeSize
    BY DEF Full
  <2>3. \A t \in Streams : delivered'[t] <= taken'[t] /\ taken'[t] <= Len(sent'[t]) /\ Len(sent'[t]) - taken'[t] <= PipeSize
    <3> TAKE t \in Streams
    <3>0. taken' = taken /\ delivered' = delivered /\ PipeSize \in Nat
      BY SizesAssumption
    <3>1. CASE t = s
      <4>1. taken[s] <= Len(sent[s]) + 1 /\ (Len(sent[s]) + 1) - taken[s] <= PipeSize
        BY <1>0, <2>2, <3>0
      <4> QED BY <1>0, <1>2, <3>0, <3>1, <4>1
    <3>2. CASE t # s
      BY <1>2, <3>2 DEF TypeOK
    <3> QED BY <3>1, <3>2
  <2> QED BY <2>1, <2>3 DEF TypeOK
<1>4. LaunchShape' /\ NotYetRun'
  BY <1>1 DEF LaunchShape, Launching, NotYetRun
<1>5. ASSUME NEW t \in Streams PROVE ReaderShape(t)'
  <2>1. CASE t # s
    BY <1>2, <2>1, ReaderFrame DEF Alive
  <2>2. CASE t = s
    <3>1. ASSUME NEW n \in 0 .. Len(sent[s]), AllText(s, n) PROVE AllText(s, n)'
      BY <1>0, <1>2, <3>1 DEF AllText
    <3>2. reader[s] \in {"closing", "done"} =>
            /\ delivered[s] + 1 = taken[s]
            /\ AllText(s, delivered[s]) /\ sent[s][taken[s]] = "long"
      BY <1>1 DEF ReaderShape
    <3>3. reader[s] \in {"closing", "done"} =>
            /\ delivered[s] + 1 = taken[s]
            /\ AllText(s, delivered[s])' /\ sent'[s][taken[s]] = "long"
      BY <1>0, <1>2, <3>1, <3>2
    <3>4. AllText(s, taken[s]) => AllText(s, taken[s])'
      BY <1>0, <3>1
    <3> QED BY <2>2, <3>3, <3>4 DEF ReaderShape
  <2> QED BY <2>1, <2>2
<1>6. ListenerShape' /\ WaitShape'
  BY DEF ListenerShape, WaitShape, ReadersDone, FollowersDone
<1> QED BY <1>3, <1>4, <1>5, <1>6

\* The command and its descendants come and go: nobody who has stopped writing
\* starts again.
LEMMA ChildIInv ==
  ASSUME IInv, ChildExits \/ Fork \/ DescendantsExit \/ KillChild \/ Interrupt
  PROVE  IInv'
<1> USE DEF IInv, ChildExits, Fork, DescendantsExit, KillChild, Interrupt, setup, caller, stdio, tails, outside
<1>1. ~Alive => ~Alive'
  BY DEF Alive
<1>2. child' = child \/ (child = "running" /\ child' \in {"succeeded", "failed"})
  OBVIOUS
<1>3. TypeOK'
  <2>1. /\ listened' = listened /\ followed' = followed /\ pc' = pc /\ result' = result
        /\ stopped' = stopped /\ parent' = parent /\ closed' = closed
    OBVIOUS
  <2>2. /\ sent' = sent /\ taken' = taken /\ delivered' = delivered /\ reader' = reader
        /\ logged' = logged /\ seen' = seen /\ follower' = follower
    OBVIOUS
  <2>3. child' \in {"none", "running", "succeeded", "failed"}
    BY <1>2 DEF TypeOK
  <2>4. held' \in BOOLEAN /\ cancelled' \in BOOLEAN
    <3>1. held' \in {TRUE, FALSE, held} /\ cancelled' \in {TRUE, cancelled}
      OBVIOUS
    <3> QED BY <3>1 DEF TypeOK
  <2> HIDE DEF ChildExits, Fork, DescendantsExit, KillChild, Interrupt, setup, caller, stdio, tails, outside
  <2> QED BY <2>1, <2>2, <2>3, <2>4 DEF TypeOK
<1>4. LaunchShape' /\ NotYetRun'
  BY <1>2 DEF LaunchShape, Launching, Opened, NotYetRun, Started, FollowersDone
<1>5. \A s \in Streams : ReaderShape(s)'
  BY <1>1, ReaderFrame
<1>6. ListenerShape' /\ WaitShape'
  BY <1>2 DEF ListenerShape, WaitShape, ReadersDone, FollowersDone
<1> QED BY <1>3, <1>4, <1>5, <1>6

-----------------------------------------------------------------------------
(* The invariant, and what follows from it.                                *)

\* Every step, and every stuttering step, preserves the invariant.
LEMMA NextIInv == IInv /\ [Next]_vars => IInv'
<1> SUFFICES ASSUME IInv, [Next]_vars PROVE IInv'
  OBVIOUS
<1>1. CASE UNCHANGED vars
  BY <1>1, FollowerIInv DEF vars, setup, caller, stdio, tails, outside, IInv, TypeOK, FollowersDone
<1>2. CASE Starting
  BY <1>2, LookIInv, OpenPipeIInv, OpenPipeFailsIInv, FollowLogsIInv, ExecIInv, ExecFailsIInv DEF Starting
<1>3. CASE Waiting
  BY <1>3, WaitingIInv
<1>4. CASE Environment \/ KillChild
  BY <1>4, WriteIInv, FollowingIInv, ChildIInv DEF Environment
<1>5. CASE \E s \in Streams : Reading(s)
  BY <1>5, ScanIInv, ListenerReturnsIInv, StopReadingIInv, CloseReaderIInv DEF Reading
<1>6. CASE \E l \in Logs : Following(l)
  BY <1>6, FollowingIInv
<1> QED BY <1>1, <1>2, <1>3, <1>4, <1>5, <1>6 DEF Next, Finished

\* The invariant holds in every reachable state.
THEOREM Invariance == Spec => []IInv
<1>1. Init => IInv
  BY InitIInv
<1>2. IInv /\ [Next]_vars => IInv'
  BY NextIInv
<1> QED BY <1>1, <1>2, PTL DEF Spec

\* Every variable keeps its type, no listener is ahead of its reader, no reader
\* ahead of what was written, and no pipe holds more than it can.
THEOREM TypeCorrect == Spec => []TypeOK
<1>1. IInv => TypeOK
  BY DEF IInv
<1> QED BY <1>1, Invariance, PTL

\* The readable lines are those before the first that does not fit.
LEMMA CountReadable ==
  ASSUME NEW s \in Streams, sent[s] \in Seq(Kinds), NEW n \in 0 .. Len(sent[s]), AllText(s, n),
         n = Len(sent[s]) \/ sent[s][n + 1] = "long"
  PROVE  Cardinality(Readable(sent[s])) = n
<1>1. Len(sent[s]) \in Nat /\ DOMAIN sent[s] = 1 .. Len(sent[s])
  BY LenProperties
<1>2. Readable(sent[s]) = 1 .. n
  BY <1>1 DEF Readable, AllText
<1> QED BY <1>2, FS_Interval

\* When a command that ran has returned, its listeners have dealt with every
\* line it and its descendants wrote before one that does not fit.
THEOREM EverythingDelivered == Spec => []OutputDelivered
<1>1. IInv => OutputDelivered
  <2> SUFFICES ASSUME IInv, pc = "returned", child # "none", NEW s \in listened
               PROVE  delivered[s] = Cardinality(Readable(sent[s]))
    BY DEF OutputDelivered
  <2>1. /\ s \in Streams /\ sent[s] \in Seq(Kinds) /\ delivered[s] \in Nat /\ taken[s] \in Nat
        /\ delivered[s] <= taken[s] /\ taken[s] <= Len(sent[s]) /\ Len(sent[s]) \in Nat
    BY LenProperties DEF IInv, TypeOK
  <2>2. reader[s] \in {"closing", "done"}
    BY <2>1 DEF IInv, WaitShape, ReadersDone, ListenerShape
  <2>3. /\ AllText(s, delivered[s])
        /\ delivered[s] = Len(sent[s]) \/ sent[s][delivered[s] + 1] = "long"
    BY <2>1, <2>2 DEF IInv, ReaderShape
  <2> QED BY <2>1, <2>3, CountReadable
<1> QED BY <1>1, Invariance, PTL

\* After the command has returned no listener runs any more, and only a reader
\* that Start abandoned between its two pipes is still there.
THEOREM QuietAtLast == Spec => []QuietAfterReturn
<1>1. IInv => QuietAfterReturn
  <2> SUFFICES ASSUME IInv, pc = "returned" PROVE QuietAfterReturn
    BY DEF QuietAfterReturn
  <2>1. CASE parent
    BY <2>1 DEF IInv, LaunchShape, WaitShape, QuietAfterReturn, ReaderAbandoned
  <2>2. CASE ~parent
    BY <2>2 DEF IInv, WaitShape, ReadersDone, QuietAfterReturn
  <2> QED BY <2>1, <2>2
<1> QED BY <1>1, Invariance, PTL

=============================================================================
