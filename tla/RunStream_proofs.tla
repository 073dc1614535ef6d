--------------------------- MODULE RunStream_proofs ---------------------------
(* Theorems about RunStream, for any number of watchers, readers, chunks and *)
(* crashes: its types, its four invariants, its action property, and that    *)
(* its row implements RunRecord.                                             *)
EXTENDS RunStream, SequenceTheorems, TLAPS

USE StreamAssumption

-----------------------------------------------------------------------------
(* Streams of chunks.                                                        *)

LEMMA EmptyStream == <<>> \in Stream /\ Len(<<>>) = 0
  BY DEF Stream

LEMMA StreamAppend ==
  ASSUME NEW s \in Stream, NEW n \in Chunks
  PROVE  Append(s, n) \in Stream /\ Len(Append(s, n)) = Len(s) + 1 /\ Len(s) \in Nat
  BY DEF Stream

LEMMA StreamTail ==
  ASSUME NEW s \in Stream, s # <<>>
  PROVE  /\ Head(s) \in Chunks
         /\ Tail(s) \in Stream
         /\ Len(Tail(s)) = Len(s) - 1
         /\ Len(s) \in Nat
  BY DEF Stream

LEMMA TruncateType ==
  ASSUME NEW logs \in Stream
  PROVE  truncateLogs(logs) \in Stream
  BY SubSeqProperties DEF truncateLogs, Stream

-----------------------------------------------------------------------------
(* Type correctness is inductive once the outcome is known to be chosen      *)
(* before MarkTrackerFinal copies it to the tracker.                         *)

OutcomeChosen ==
  pipe.pc \in {"captured", "committed", "trackerFinal", "announced", "closed"}
    => pipe.outcome \in Final

\* A chunk is in the log goroutine's hand until it has been broadcast.
MsgChosen == logger.pc \in {"append", "lookup", "send"} => logger.msg \in Chunks

TypeInv == TypeOK /\ OutcomeChosen /\ MsgChosen

LEMMA TypeInit == Init => TypeInv
<1> SUFFICES ASSUME Init PROVE TypeInv
  OBVIOUS
<1> USE EmptyStream DEF Init, RowStatus, Final
<1>1. RowType
  BY DEF RowType, NoRow
<1>2. TrackerType
  BY DEF TrackerType, NoTracker, NodeStatus
<1>3. PipeType
  BY DEF PipeType, PipePC
<1>4. ChanType
  BY DEF ChanType
<1>5. LoggerType
  BY DEF LoggerType, LoggerPC
<1>6. WatchType
  BY DEF WatchType, WatchPC, Told, NodeStatus
<1>7. ReaderType
  BY DEF ReaderType, NoAnswer
<1>. QED
  BY <1>1, <1>2, <1>3, <1>4, <1>5, <1>6, <1>7 DEF TypeInv, TypeOK, OutcomeChosen, MsgChosen

\* A broadcast changes what watchers were told and drops clients.
LEMMA BroadcastType ==
  ASSUME TrackerType, WatchType, NEW s \in Told, broadcastStatus(s), tracked' = tracked
  PROVE  TrackerType' /\ WatchType'
  BY DEF TrackerType, WatchType, broadcastStatus, tellStatus, Reachable

LEMMA TypeStep == TypeInv /\ [Next]_vars => TypeInv'
<1> SUFFICES ASSUME TypeInv, [Next]_vars PROVE TypeInv'
  OBVIOUS
<1>t. /\ RowType /\ TrackerType /\ PipeType /\ ChanType /\ LoggerType
      /\ WatchType /\ ReaderType /\ crashes \in 0..MaxCrashes
      /\ OutcomeChosen /\ MsgChosen
  BY DEF TypeInv, TypeOK
<1>u. SUFFICES /\ RowType' /\ TrackerType' /\ PipeType' /\ ChanType' /\ LoggerType'
               /\ WatchType' /\ ReaderType' /\ (crashes \in 0..MaxCrashes)'
               /\ OutcomeChosen' /\ MsgChosen'
  BY DEF TypeInv, TypeOK
<1>f. /\ row' = row => RowType'
      /\ UNCHANGED <<tracked, tracker>> => TrackerType'
      /\ pipe' = pipe => PipeType' /\ OutcomeChosen'
      /\ chan' = chan => ChanType'
      /\ logger' = logger => LoggerType' /\ MsgChosen'
      /\ ws' = ws => WatchType'
      /\ reader' = reader => ReaderType'
  BY <1>t DEF RowType, TrackerType, PipeType, ChanType, LoggerType, WatchType,
              ReaderType, OutcomeChosen, MsgChosen
<1>1. CASE InsertRun
  <2>1. RowType'
    BY <1>1, <1>t, EmptyStream DEF InsertRun, RowType, Goto, RowStatus
  <2>2. PipeType' /\ OutcomeChosen'
    BY <1>1, <1>t DEF InsertRun, PipeType, Goto, PipePC, OutcomeChosen
  <2>. QED
    BY <1>1, <1>t, <1>f, <2>1, <2>2 DEF InsertRun
<1>2. CASE CreateTracker
  <2>1. TrackerType'
    BY <1>2, <1>t DEF CreateTracker, TrackerType
  <2>2. PipeType' /\ OutcomeChosen'
    BY <1>2, <1>t DEF CreateTracker, PipeType, Goto, PipePC, OutcomeChosen
  <2>. QED
    BY <1>2, <1>t, <1>f, <2>1, <2>2 DEF CreateTracker
<1>3. CASE MarkRowRunning
  <2>1. RowType'
    BY <1>3, <1>t DEF MarkRowRunning, RowType, RowStatus
  <2>2. PipeType' /\ OutcomeChosen'
    BY <1>3, <1>t DEF MarkRowRunning, PipeType, Goto, PipePC, OutcomeChosen
  <2>. QED
    BY <1>3, <1>t, <1>f, <2>1, <2>2 DEF MarkRowRunning
<1>4. CASE MarkTrackerRunning
  <2>1. TrackerType'
    BY <1>4, <1>t DEF MarkTrackerRunning, TrackerType, RowStatus
  <2>2. PipeType' /\ OutcomeChosen'
    BY <1>4, <1>t DEF MarkTrackerRunning, PipeType, Goto, PipePC, OutcomeChosen
  <2>. QED
    BY <1>4, <1>t, <1>f, <2>1, <2>2 DEF MarkTrackerRunning
<1>5. CASE AnnounceRunning
  <2>1. TrackerType' /\ WatchType'
    BY <1>5, <1>t, BroadcastType DEF AnnounceRunning, Told, RowStatus, PipeType, OutcomeChosen
  <2>2. PipeType' /\ OutcomeChosen'
    BY <1>5, <1>t DEF AnnounceRunning, PipeType, PipePC, OutcomeChosen
  <2>3. ChanType'
    BY <1>5, <1>t DEF AnnounceRunning, ChanType
  <2>4. LoggerType' /\ MsgChosen'
    BY <1>5, <1>t DEF AnnounceRunning, LoggerType, LoggerPC, MsgChosen
  <2>. QED
    BY <1>5, <1>t, <1>f, <2>1, <2>2, <2>3, <2>4 DEF AnnounceRunning
<1>6. CASE EmitLog
  <2>0. pipe.emitted + 1 \in 0..MaxChunks /\ pipe.emitted + 1 \in Chunks
    BY <1>6, <1>t DEF EmitLog, PipeType, Chunks
  <2>1. PipeType' /\ OutcomeChosen'
    BY <1>6, <1>t, <2>0 DEF EmitLog, PipeType, OutcomeChosen
  <2>b. chan.buf \in Stream /\ chan'.buf = Append(chan.buf, pipe.emitted + 1)
    BY <1>6, <1>t DEF EmitLog, ChanType
  <2>c. chan'.buf \in Stream /\ Len(chan'.buf) = Len(chan.buf) + 1
    BY <2>0, <2>b, StreamAppend
  <2>d. Len(chan.buf) \in Nat /\ Len(chan.buf) < ChanCap
    BY <1>6, <2>b, <2>0, StreamAppend DEF EmitLog
  <2>e. chan' = [chan EXCEPT !.buf = chan'.buf] /\ chan \in [buf : Stream, open : BOOLEAN]
    BY <1>6, <1>t, <2>b DEF EmitLog, ChanType
  <2>2. ChanType'
    BY <2>c, <2>d, <2>e DEF ChanType
  <2>. QED
    BY <1>6, <1>t, <1>f, <2>1, <2>2 DEF EmitLog
<1>7. CASE EmitNodeStatus
  <2>1. TrackerType'
    BY <1>7, <1>t DEF EmitNodeStatus, TrackerType, Reachable
  <2>2. WatchType'
    <3>1. PICK s \in NodeStatus : tellNode(s)
      BY <1>7 DEF EmitNodeStatus
    <3>. QED
      BY <3>1, <1>t DEF WatchType, tellNode
  <2>. QED
    BY <1>7, <1>t, <1>f, <2>1, <2>2 DEF EmitNodeStatus
<1>8. CASE AnnounceCleanup
  <2>1. TrackerType' /\ WatchType'
    BY <1>8, <1>t, BroadcastType DEF AnnounceCleanup, Told, RowStatus, PipeType, OutcomeChosen
  <2>. QED
    BY <1>8, <1>t, <1>f, <2>1 DEF AnnounceCleanup
<1>9. CASE CaptureLogs
  <2>1. PipeType' /\ OutcomeChosen'
    BY <1>9, <1>t, TruncateType DEF CaptureLogs, PipeType, PipePC, TrackerType, OutcomeChosen
  <2>. QED
    BY <1>9, <1>t, <1>f, <2>1 DEF CaptureLogs
<1>10. CASE CommitRow
  <2>1. RowType'
    BY <1>10, <1>t DEF CommitRow, RowType, PipeType, OutcomeChosen, RowStatus, Goto
  <2>2. PipeType' /\ OutcomeChosen'
    BY <1>10, <1>t DEF CommitRow, PipeType, Goto, PipePC, OutcomeChosen
  <2>. QED
    BY <1>10, <1>t, <1>f, <2>1, <2>2 DEF CommitRow
<1>11. CASE MarkTrackerFinal
  <2>1. TrackerType'
    BY <1>11, <1>t DEF MarkTrackerFinal, TrackerType, OutcomeChosen, RowStatus, Goto
  <2>2. PipeType' /\ OutcomeChosen'
    BY <1>11, <1>t DEF MarkTrackerFinal, PipeType, Goto, PipePC, OutcomeChosen
  <2>. QED
    BY <1>11, <1>t, <1>f, <2>1, <2>2 DEF MarkTrackerFinal
<1>12. CASE AnnounceFinal
  <2>1. TrackerType' /\ WatchType'
    BY <1>12, <1>t, BroadcastType DEF AnnounceFinal, Told, RowStatus, PipeType, OutcomeChosen
  <2>2. PipeType' /\ OutcomeChosen'
    BY <1>12, <1>t DEF AnnounceFinal, PipeType, PipePC, OutcomeChosen
  <2>. QED
    BY <1>12, <1>t, <1>f, <2>1, <2>2 DEF AnnounceFinal
<1>13. CASE CloseLog
  <2>1. ChanType'
    BY <1>13, <1>t DEF CloseLog, ChanType
  <2>2. PipeType' /\ OutcomeChosen'
    BY <1>13, <1>t DEF CloseLog, PipeType, Goto, PipePC, OutcomeChosen
  <2>. QED
    BY <1>13, <1>t, <1>f, <2>1, <2>2 DEF CloseLog
<1>14. CASE ExpireTracker
  <2>1. TrackerType'
    BY <1>14, <1>t DEF ExpireTracker, TrackerType
  <2>2. PipeType' /\ OutcomeChosen'
    BY <1>14, <1>t DEF ExpireTracker, PipeType, OutcomeChosen
  <2>3. WatchType'
    BY <1>14, <1>t DEF ExpireTracker, WatchType, WatchPC
  <2>. QED
    BY <1>14, <1>t, <1>f, <2>1, <2>2, <2>3 DEF ExpireTracker
<1>15. CASE LogReceive
  <2>b. /\ chan.buf \in Stream /\ chan.buf # <<>> /\ chan'.buf = Tail(chan.buf)
        /\ Len(chan.buf) <= ChanCap
    BY <1>15, <1>t DEF LogReceive, ChanType
  <2>c. chan'.buf \in Stream /\ Len(chan'.buf) = Len(chan.buf) - 1 /\ Len(chan.buf) \in Nat
    BY <2>b, StreamTail
  <2>d. chan' = [chan EXCEPT !.buf = chan'.buf] /\ chan \in [buf : Stream, open : BOOLEAN]
    BY <1>15, <1>t, <2>b DEF LogReceive, ChanType
  <2>e. Len(chan'.buf) <= ChanCap
    BY <2>b, <2>c
  <2>1. ChanType'
    BY <2>c, <2>d, <2>e DEF ChanType
  <2>2. LoggerType' /\ MsgChosen'
    BY <1>15, <1>t, <2>b, StreamTail DEF LogReceive, LoggerType, LoggerPC, ChanType, MsgChosen
  <2>. QED
    BY <1>15, <1>t, <1>f, <2>1, <2>2 DEF LogReceive
<1>16. CASE LogAppend
  <2>0. Append(tracker.logs, logger.msg) \in Stream
    BY <1>16, <1>t, StreamAppend DEF LogAppend, TrackerType, MsgChosen
  <2>1. TrackerType'
    BY <1>16, <1>t, <2>0 DEF LogAppend, TrackerType
  <2>2. LoggerType' /\ MsgChosen'
    BY <1>16, <1>t DEF LogAppend, LoggerType, LoggerPC, MsgChosen
  <2>. QED
    BY <1>16, <1>t, <1>f, <2>1, <2>2 DEF LogAppend
<1>17. CASE LogLookup
  <2>1. LoggerType' /\ MsgChosen'
    BY <1>17, <1>t DEF LogLookup, LoggerType, LoggerPC, MsgChosen
  <2>. QED
    BY <1>17, <1>t, <1>f, <2>1 DEF LogLookup
<1>18. CASE LogSend
  <2>1. TrackerType'
    BY <1>18, <1>t DEF LogSend, TrackerType, Reachable
  <2>2. LoggerType' /\ MsgChosen'
    BY <1>18, <1>t DEF LogSend, LoggerType, LoggerPC, MsgChosen
  <2>0. \A c \in Watchers : Append(ws[c].heard, logger.msg) \in Stream
    BY <1>18, <1>t, StreamAppend DEF LogSend, WatchType, MsgChosen
  <2>3. WatchType'
    BY <1>18, <1>t, <2>0 DEF LogSend, WatchType, tellLog
  <2>. QED
    BY <1>18, <1>t, <1>f, <2>1, <2>2, <2>3 DEF LogSend
<1>19. CASE LogDone
  <2>1. LoggerType' /\ MsgChosen'
    BY <1>19, <1>t DEF LogDone, LoggerType, LoggerPC, MsgChosen
  <2>. QED
    BY <1>19, <1>t, <1>f, <2>1 DEF LogDone
<1>20. CASE \E c \in Watchers : Watcher(c)
  <2> PICK c \in Watchers : Watcher(c)
    BY <1>20
  <2>f. WatcherOnly
    BY DEF Watcher, Dial, LookUpTracker, Attach, ServeRow, Leave, Reap
  <2>s. TrackerType' /\ WatchType'
    <3>1. CASE Dial(c)
      BY <3>1, <1>t, <2>f DEF Dial, WatcherOnly, TrackerType, WatchType, WatchPC
    <3>2. CASE LookUpTracker(c)
      BY <3>2, <1>t, <2>f DEF LookUpTracker, WatcherOnly, TrackerType, WatchType, WatchPC
    <3>3. CASE Attach(c)
      BY <3>3, <1>t, <2>f DEF Attach, WatcherOnly, TrackerType, WatchType, WatchPC, Told
    <3>4. CASE ServeRow(c)
      <4>1. row.logs \in Stream /\ row.status \in Told
        BY <1>t DEF RowType, Told
      <4>2. WatchType'
        BY <3>4, <1>t, <4>1 DEF ServeRow, WatchType, WatchPC
      <4>. QED
        BY <3>4, <1>t, <2>f, <4>2 DEF ServeRow, WatcherOnly, TrackerType
    <3>5. CASE Leave(c)
      BY <3>5, <1>t, <2>f DEF Leave, WatcherOnly, TrackerType, WatchType, WatchPC
    <3>6. CASE Reap(c)
      BY <3>6, <1>t, <2>f DEF Reap, WatcherOnly, TrackerType, WatchType
    <3>. QED
      BY <3>1, <3>2, <3>3, <3>4, <3>5, <3>6 DEF Watcher
  <2>. QED
    BY <2>f, <2>s, <1>t, <1>f DEF WatcherOnly
<1>21. CASE \E r \in Readers : Reader(r)
  <2> PICK r \in Readers : Reader(r)
    BY <1>21
  <2>f. ReaderOnly
    BY DEF Reader, ReadRow, ReadTracker, ReadAgain
  <2>1. ReaderType'
    <3>1. CASE ReadRow(r)
      BY <3>1, <1>t DEF ReadRow, ReaderType, RowType
    <3>2. CASE ReadTracker(r)
      BY <3>2, <1>t DEF ReadTracker, ReaderType, TrackerType
    <3>3. CASE ReadAgain(r)
      BY <3>3, <1>t, EmptyStream DEF ReadAgain, ReaderType, NoAnswer
    <3>. QED
      BY <3>1, <3>2, <3>3 DEF Reader
  <2>. QED
    BY <2>f, <2>1, <1>t, <1>f DEF ReaderOnly
<1>22. CASE Crash
  <2>1. TrackerType'
    BY <1>22, EmptyStream DEF Crash, TrackerType, NoTracker, RowStatus, NodeStatus
  <2>2. PipeType' /\ OutcomeChosen'
    BY <1>22, <1>t DEF Crash, PipeType, PipePC, OutcomeChosen
  <2>3. ChanType' /\ LoggerType' /\ MsgChosen'
    BY <1>22, <1>t, EmptyStream DEF Crash, ChanType, LoggerType, LoggerPC, MsgChosen
  <2>4. WatchType'
    BY <1>22, <1>t DEF Crash, WatchType, WatchPC
  <2>5. ReaderType' /\ (crashes \in 0..MaxCrashes)'
    BY <1>22, <1>t, EmptyStream DEF Crash, ReaderType, NoAnswer
  <2>. QED
    BY <1>22, <1>f, <2>1, <2>2, <2>3, <2>4, <2>5 DEF Crash
<1>23. CASE UNCHANGED vars
  BY <1>23, <1>t, <1>f DEF vars
<1>. QED
  BY <1>1, <1>2, <1>3, <1>4, <1>5, <1>6, <1>7, <1>8, <1>9, <1>10, <1>11, <1>12,
     <1>13, <1>14, <1>15, <1>16, <1>17, <1>18, <1>19, <1>20, <1>21, <1>22, <1>23
     DEF Next, Pipeline, Logger

\* Every value the processes of a run hold has its type, for any number of
\* watchers, readers, chunks and crashes (RunTracker, pipeline_runs, logChan).
THEOREM TypeCorrect == Spec => []TypeOK
<1>1. Spec => []TypeInv
  BY TypeInit, TypeStep, PTL DEF Spec
<1>. QED
  BY <1>1, PTL DEF TypeInv

-----------------------------------------------------------------------------
(* The invariants the properties of RunStream rest on.  Each says how two    *)
(* of the processes are placed to each other: the row and the pipeline       *)
(* goroutine, the tracker's status and what watchers were told, the three    *)
(* places a chunk can be in, and how far a watcher is behind the log.        *)

\* Before the goroutine runs, and before its outcome is in the row.
Early == {"none", "inserted", "created", "rowRunning", "trackerRunning"}
Undecided == Early \cup {"running", "captured"}
Decided == {"committed", "trackerFinal", "announced", "closed"}

\* The row as far as the pipeline goroutine has come.
RowInv ==
  /\ pipe.pc = "none" => row = NoRow
  /\ pipe.pc \in {"inserted", "created"} => row.status = "PENDING"
  /\ pipe.pc \in Undecided \ {"none"} => row.status \in {"PENDING", "RUNNING"}
  /\ pipe.pc \in Undecided => row.status \notin Final /\ row.logs = <<>>
  /\ row.status \in Final => row.logs = pipe.captured
  /\ ~DBMayFail /\ pipe.pc \in Decided => row.status = pipe.outcome

\* The tracker's status, and what watchers were told of it.
StatusInv ==
  /\ pipe.pc \in Undecided \cup {"committed"} => tracker.status \in {"PENDING", "RUNNING"}
  /\ pipe.pc \in {"trackerFinal", "announced", "closed"} => tracker.status = pipe.outcome
  /\ pipe.pc = "dead" => tracker.status = "PENDING"

Announced ==
  {"PENDING", "RUNNING"}
    \cup (IF pipe.pc \in Early THEN {} ELSE {"CLEANUP"})
    \cup (IF pipe.pc \in {"trackerFinal", "announced", "closed"} THEN {pipe.outcome} ELSE {})

Fresh(c) == ws[c].pc \in {"off", "dialled", "found", "missed"} =>
              ws[c].told = "nothing" /\ ws[c].heard = <<>>

ToldInv ==
  /\ \A c \in Watchers : Fresh(c)
  /\ \A c \in Watchers : ws[c].pc = "watching" /\ pipe.pc # "dead" => ws[c].told \in Announced

\* Chunks are numbered in the order they are sent: first those in the tracker's
\* log, then the one in the log goroutine's hand, then those in logChan.
Numbered(s, from) == \A i \in 1..Len(s) : s[i] = from + i

InHand == IF logger.pc = "append" THEN 1 ELSE 0

LogInv ==
  /\ Numbered(tracker.logs, 0)
  /\ Numbered(chan.buf, Len(tracker.logs) + InHand)
  /\ pipe.pc # "dead" => pipe.emitted = Len(tracker.logs) + InHand + Len(chan.buf)
  /\ logger.pc = "append" => logger.msg = Len(tracker.logs) + 1
  /\ logger.pc \in {"lookup", "send"} => logger.msg = Len(tracker.logs) /\ tracker.logs # <<>>
  /\ pipe.pc \in Early \cup {"dead"} => logger.pc = "none"
  /\ pipe.pc = "dead" => ~tracked

\* What a watcher has heard, and how far it is behind the tracker's log.
Unbroken(h) ==
  /\ h # <<>> => h[1] = 1 /\ Len(h) <= h[Len(h)] + 1
  /\ \A i \in 1..(Len(h) - 1) : h[i + 1] \in {h[i], h[i] + 1}

LastOf(h) == IF h = <<>> THEN 0 ELSE h[Len(h)]

UpTo(h, n) ==
  IF logger.pc \in {"lookup", "send"}
  THEN LastOf(h) = n - 1 \/ (LastOf(h) = n /\ Len(h) = n)
  ELSE LastOf(h) = n

Heard == tracked \/ logger.pc = "send" \/ pipe.pc \in Early

HeardInv ==
  /\ \A c \in Watchers : Attached(c) => Unbroken(ws[c].heard)
  /\ Heard => \A c \in Reachable : UpTo(ws[c].heard, Len(tracker.logs))

\* The log an outcome is stored with, and what readers have seen of it.
CapturedInv ==
  /\ pipe.pc = "captured" => pipe.captured \in Record!AtRestLogs(pipe.emitted)
  /\ pipe.captured # <<>> /\ pipe.pc # "dead" =>
       pipe.captured[Len(pipe.captured)] <= Len(tracker.logs)

ReadInv ==
  /\ pipe.pc \in Undecided => \A r \in Readers : reader[r].status \notin Final
  /\ \A r \in Readers : reader[r].pc = "row" /\ reader[r].status \in Final =>
                          reader[r].logs = pipe.captured
  /\ OutcomeReadHasLog
-----------------------------------------------------------------------------
(* Initially, everything is empty.                                           *)

LEMMA InvInit ==
  Init => RowInv /\ StatusInv /\ ToldInv /\ LogInv /\ HeardInv /\ CapturedInv /\ ReadInv
          /\ NodeViewCurrent
<1> SUFFICES ASSUME Init
             PROVE  RowInv /\ StatusInv /\ ToldInv /\ LogInv /\ HeardInv /\ CapturedInv /\ ReadInv
                    /\ NodeViewCurrent
  OBVIOUS
<1> USE DEF Init, NoRow, NoTracker, NoAnswer, Final, Early, Undecided, Decided
<1>1. RowInv /\ StatusInv /\ ToldInv
  BY DEF RowInv, StatusInv, ToldInv, Fresh
<1>2. LogInv
  BY DEF LogInv, Numbered, InHand
<1>3. HeardInv /\ NodeViewCurrent
  BY DEF HeardInv, NodeViewCurrent, Attached, Reachable
<1>4. CapturedInv /\ ReadInv
  BY DEF CapturedInv, ReadInv, OutcomeReadHasLog
<1>. QED
  BY <1>1, <1>2, <1>3, <1>4

-----------------------------------------------------------------------------
(* The row.                                                                  *)

\* What the log goroutine, the watchers and the readers never touch.
LEMMA Aside ==
  ASSUME Logger \/ (\E c \in Watchers : Watcher(c)) \/ (\E r \in Readers : Reader(r))
         \/ EmitNodeStatus \/ AnnounceCleanup \/ UNCHANGED vars
  PROVE  row' = row /\ pipe' = pipe
<1>1. CASE Logger
  BY <1>1 DEF Logger, LogReceive, LogAppend, LogLookup, LogSend, LogDone
<1>2. CASE \E c \in Watchers : Watcher(c)
  BY <1>2 DEF Watcher, WatcherOnly, Dial, LookUpTracker, Attach, ServeRow, Leave, Reap
<1>3. CASE \E r \in Readers : Reader(r)
  BY <1>3 DEF Reader, ReaderOnly, ReadRow, ReadTracker, ReadAgain
<1>4. CASE EmitNodeStatus \/ AnnounceCleanup \/ UNCHANGED vars
  BY <1>4 DEF EmitNodeStatus, AnnounceCleanup, vars
<1>. QED
  BY <1>1, <1>2, <1>3, <1>4

LEMMA RowStep ==
  ASSUME TypeInv, RowInv, [Next]_vars
  PROVE  RowInv'
<1> USE DEF TypeInv, TypeOK, RowType, PipeType, OutcomeChosen, RowInv, NoRow, RowStatus, Final,
            Early, Undecided, Decided, Goto
<1>1. CASE row' = row /\ pipe' = pipe
  BY <1>1
<1>2. CASE InsertRun
  BY <1>2 DEF InsertRun
<1>3. CASE CreateTracker
  BY <1>3 DEF CreateTracker
<1>4. CASE MarkRowRunning
  BY <1>4 DEF MarkRowRunning
<1>5. CASE MarkTrackerRunning
  BY <1>5 DEF MarkTrackerRunning
<1>6. CASE AnnounceRunning
  BY <1>6 DEF AnnounceRunning
<1>7. CASE EmitLog
  BY <1>7 DEF EmitLog
<1>8. CASE CaptureLogs
  BY <1>8 DEF CaptureLogs
<1>9. CASE CommitRow
  BY <1>9 DEF CommitRow
<1>10. CASE MarkTrackerFinal \/ CloseLog
  BY <1>10 DEF MarkTrackerFinal, CloseLog
<1>11. CASE AnnounceFinal
  BY <1>11 DEF AnnounceFinal
<1>12. CASE ExpireTracker
  BY <1>12 DEF ExpireTracker
<1>13. CASE Crash
  BY <1>13 DEF Crash
<1>. QED
  BY <1>1, <1>2, <1>3, <1>4, <1>5, <1>6, <1>7, <1>8, <1>9, <1>10, <1>11, <1>12, <1>13, Aside
     DEF Next, Pipeline

-----------------------------------------------------------------------------
(* The statuses.                                                             *)

\* What a watcher of the page is told lags behind the tracker, never ahead.
LEMMA StatusStep ==
  ASSUME TypeInv, StatusInv, [Next]_vars
  PROVE  StatusInv'
<1> USE DEF TypeInv, TypeOK, PipeType, OutcomeChosen, StatusInv, Final,
            Early, Undecided, Goto
<1>1. CASE tracker'.status = tracker.status /\ pipe' = pipe
  BY <1>1
<1>2. CASE InsertRun
  BY <1>2 DEF InsertRun
<1>3. CASE CreateTracker
  BY <1>3 DEF CreateTracker
<1>4. CASE MarkRowRunning
  BY <1>4 DEF MarkRowRunning
<1>5. CASE MarkTrackerRunning
  BY <1>5 DEF MarkTrackerRunning, TrackerType
<1>6. CASE AnnounceRunning
  BY <1>6 DEF AnnounceRunning, broadcastStatus, TrackerType
<1>7. CASE EmitLog
  BY <1>7 DEF EmitLog
<1>8. CASE CaptureLogs
  BY <1>8 DEF CaptureLogs
<1>9. CASE CommitRow
  BY <1>9 DEF CommitRow
<1>10. CASE MarkTrackerFinal
  BY <1>10 DEF MarkTrackerFinal, TrackerType
<1>11. CASE AnnounceFinal
  BY <1>11 DEF AnnounceFinal, broadcastStatus, TrackerType
<1>12. CASE ExpireTracker \/ CloseLog
  BY <1>12 DEF ExpireTracker, CloseLog
<1>13. CASE Crash
  BY <1>13 DEF Crash, NoTracker
<1>14. CASE Logger
  BY <1>1, <1>14, Aside DEF Logger, LogReceive, LogAppend, LogLookup, LogSend, LogDone, TrackerType
<1>15. CASE \E c \in Watchers : Watcher(c)
  BY <1>1, <1>15, Aside DEF Watcher, Dial, LookUpTracker, Attach, ServeRow, Leave, Reap, TrackerType
<1>16. CASE (\E r \in Readers : Reader(r)) \/ UNCHANGED vars
  BY <1>1, <1>16, Aside DEF Reader, ReaderOnly, ReadRow, ReadTracker, ReadAgain, vars
<1>17. CASE EmitNodeStatus \/ AnnounceCleanup
  BY <1>1, <1>17, Aside DEF EmitNodeStatus, AnnounceCleanup, broadcastStatus, TrackerType
<1>. QED
  BY <1>2, <1>3, <1>4, <1>5, <1>6, <1>7, <1>8, <1>9, <1>10, <1>11, <1>12, <1>13, <1>14, <1>15,
     <1>16, <1>17 DEF Next, Pipeline

\* A broadcast reaches those that are registered and watching.
LEMMA ToldBroadcast ==
  ASSUME WatchType, ToldInv, NEW s, broadcastStatus(s),
         pipe'.pc # "dead" => pipe.pc # "dead" /\ Announced \subseteq Announced' /\ s \in Announced'
  PROVE  ToldInv'
<1> USE DEF WatchType, broadcastStatus, tellStatus, Reachable
<1>1. ASSUME NEW c \in Watchers PROVE Fresh(c)'
  <2>1. Fresh(c)
    BY DEF ToldInv
  <2>. QED
    BY <2>1 DEF Fresh
<1>2. ASSUME NEW c \in Watchers, ws'[c].pc = "watching", pipe'.pc # "dead"
      PROVE  ws'[c].told \in Announced'
  <2>1. ws[c].pc = "watching" /\ ws'[c].told \in {ws[c].told, s}
    BY <1>2
  <2>. QED
    BY <1>2, <2>1 DEF ToldInv
<1>. QED
  BY <1>1, <1>2 DEF ToldInv

\* A step that neither starts nor tells a watcher anything.
LEMMA ToldAside ==
  ASSUME ToldInv,
         \A c \in Watchers :
           \/ ws'[c] = ws[c]
           \/ ws[c].pc = "watching" /\ ws'[c].pc \in {"watching", "left", "closed"}
                /\ ws'[c].told = ws[c].told,
         pipe'.pc # "dead" => pipe.pc # "dead" /\ Announced \subseteq Announced'
  PROVE  ToldInv'
<1>1. ASSUME NEW c \in Watchers PROVE Fresh(c)'
  <2>1. Fresh(c)
    BY DEF ToldInv
  <2>. QED
    BY <2>1 DEF Fresh
<1>2. ASSUME NEW c \in Watchers, ws'[c].pc = "watching", pipe'.pc # "dead"
      PROVE  ws'[c].told \in Announced'
  BY <1>2 DEF ToldInv
<1>. QED
  BY <1>1, <1>2 DEF ToldInv

LEMMA ToldStep ==
  ASSUME TypeInv, StatusInv, ToldInv, [Next]_vars
  PROVE  ToldInv'
<1>t. WatchType /\ TrackerType /\ PipeType /\ OutcomeChosen
  BY DEF TypeInv, TypeOK
<1>2. ASSUME pipe' = pipe PROVE Announced' = Announced /\ pipe'.pc = pipe.pc
  BY <1>2 DEF Announced
<1>3. ASSUME InsertRun \/ CreateTracker \/ MarkRowRunning \/ MarkTrackerRunning \/ EmitLog
             \/ CaptureLogs \/ CommitRow \/ MarkTrackerFinal \/ CloseLog
      PROVE  ToldInv'
  <2>1. ws' = ws
    BY <1>3 DEF InsertRun, CreateTracker, MarkRowRunning, MarkTrackerRunning, EmitLog,
                CaptureLogs, CommitRow, MarkTrackerFinal, CloseLog
  <2>2. pipe.pc # "dead" /\ Announced \subseteq Announced'
    BY <1>3, <1>t
       DEF InsertRun, CreateTracker, MarkRowRunning, MarkTrackerRunning, EmitLog, CaptureLogs,
           CommitRow, MarkTrackerFinal, CloseLog, Goto, Announced, Early, PipeType
  <2>. QED
    BY <2>1, <2>2, ToldAside
<1>4. ASSUME AnnounceRunning PROVE ToldInv'
  <2>1. broadcastStatus("RUNNING") /\ pipe.pc = "trackerRunning" /\ pipe'.pc = "running"
    BY <1>4, <1>t DEF AnnounceRunning, PipeType
  <2>2. Announced \subseteq Announced' /\ "RUNNING" \in Announced'
    BY <2>1 DEF Announced, Early
  <2>. QED
    BY <2>1, <2>2, <1>t, ToldBroadcast
<1>5. ASSUME AnnounceCleanup PROVE ToldInv'
  <2>1. broadcastStatus("CLEANUP") /\ pipe.pc = "running" /\ pipe' = pipe
    BY <1>5 DEF AnnounceCleanup
  <2>2. Announced' = Announced /\ "CLEANUP" \in Announced
    BY <2>1, <1>2 DEF Announced, Early
  <2>. QED
    BY <2>1, <2>2, <1>t, ToldBroadcast
<1>6. ASSUME AnnounceFinal PROVE ToldInv'
  <2>1. /\ broadcastStatus(pipe.outcome)
        /\ pipe.pc = "trackerFinal" /\ pipe'.pc = "announced" /\ pipe'.outcome = pipe.outcome
    BY <1>6, <1>t DEF AnnounceFinal, PipeType
  <2>2. Announced \subseteq Announced' /\ pipe.outcome \in Announced'
    BY <2>1 DEF Announced, Early
  <2>. QED
    BY <2>1, <2>2, <1>t, ToldBroadcast
<1>7. ASSUME ExpireTracker PROVE ToldInv'
  <2>1. \A c \in Watchers :
          \/ ws'[c] = ws[c]
          \/ ws[c].pc = "watching" /\ ws'[c].pc = "closed" /\ ws'[c].told = ws[c].told
    BY <1>7, <1>t DEF ExpireTracker, WatchType, Reachable
  <2>2. Announced' = Announced /\ pipe'.pc = pipe.pc
    BY <1>7, <1>t DEF ExpireTracker, Announced, PipeType
  <2>. QED
    BY <2>1, <2>2, ToldAside
<1>8. ASSUME Crash PROVE ToldInv'
  <2>1. pipe'.pc = "dead" /\ \A c \in Watchers : ws'[c] = ws[c] \/ ws'[c].pc = "closed"
    BY <1>8, <1>t DEF Crash, WatchType, PipeType
  <2>. QED
    BY <2>1 DEF ToldInv, Fresh
<1>9. ASSUME EmitNodeStatus \/ LogSend PROVE ToldInv'
  <2>1. \A c \in Watchers :
          \/ ws'[c] = ws[c]
          \/ ws[c].pc = "watching" /\ ws'[c].pc = "watching" /\ ws'[c].told = ws[c].told
    <3>1. CASE LogSend
      BY <3>1, <1>t DEF LogSend, tellLog, Reachable, WatchType
    <3>2. CASE EmitNodeStatus
      BY <3>2, <1>t DEF EmitNodeStatus, tellNode, Reachable, WatchType
    <3>. QED
      BY <1>9, <3>1, <3>2
  <2>2. pipe' = pipe
    BY <1>9 DEF EmitNodeStatus, LogSend
  <2>. QED
    BY <2>1, <2>2, <1>2, ToldAside
<1>10. ASSUME NEW c \in Watchers, Watcher(c) PROVE ToldInv'
  <2>1. pipe' = pipe
    BY <1>10, Aside
  <2>3. \A d \in Watchers \ {c} : ws'[d] = ws[d]
    BY <1>10, <1>t DEF Watcher, Dial, LookUpTracker, Attach, ServeRow, Leave, Reap, WatchType
  <2>4. Fresh(c)
    BY DEF ToldInv
  <2>5. CASE Dial(c) \/ LookUpTracker(c) \/ ServeRow(c)
    <3>1. ws'[c].pc # "watching"
      BY <2>5, <1>t DEF Dial, LookUpTracker, ServeRow, WatchType
    <3>2. Fresh(c)'
      BY <2>4, <2>5, <1>t DEF Dial, LookUpTracker, ServeRow, WatchType, Fresh
    <3>3. \A d \in Watchers \ {c} : Fresh(d)'
      BY <2>3 DEF ToldInv, Fresh
    <3>. QED
      BY <2>1, <2>3, <3>1, <3>2, <3>3, <1>2 DEF ToldInv
  <2>6. CASE Attach(c)
    <3>1. ws'[c].pc = "watching" /\ ws'[c].told = tracker.status
      BY <2>6, <1>t DEF Attach, WatchType
    <3>2. pipe.pc # "dead" => tracker.status \in Announced
      BY <1>t DEF StatusInv, Announced, Early, Undecided, PipeType, PipePC
    <3>3. \A d \in Watchers : Fresh(d)'
      BY <2>3, <3>1 DEF ToldInv, Fresh
    <3>. QED
      BY <2>1, <2>3, <3>1, <3>2, <3>3, <1>2 DEF ToldInv
  <2>7. CASE Leave(c) \/ Reap(c)
    <3>1. \/ ws'[c] = ws[c]
          \/ ws[c].pc = "watching" /\ ws'[c].pc = "left" /\ ws'[c].told = ws[c].told
      BY <2>7, <1>t DEF Leave, Reap, WatchType
    <3>. QED
      BY <2>1, <2>3, <3>1, <1>2, ToldAside
  <2>. QED
    BY <1>10, <2>5, <2>6, <2>7 DEF Watcher
<1>11. ASSUME ws' = ws, pipe' = pipe PROVE ToldInv'
  BY <1>11, <1>2, ToldAside
<1>12. ASSUME LogReceive \/ LogAppend \/ LogLookup \/ LogDone \/ (\E r \in Readers : Reader(r))
              \/ UNCHANGED vars
       PROVE  ws' = ws /\ pipe' = pipe
  BY <1>12 DEF LogReceive, LogAppend, LogLookup, LogDone, Reader, ReaderOnly, ReadRow,
               ReadTracker, ReadAgain, vars
<1>. QED
  BY <1>3, <1>4, <1>5, <1>6, <1>7, <1>8, <1>9, <1>10, <1>11, <1>12 DEF Next, Pipeline, Logger

\* The status a watcher has been told changes only forward.
LEMMA ForwardStep ==
  ASSUME TypeInv, StatusInv, ToldInv, [Next]_vars, NEW c \in Watchers
  PROVE  /\ ToldRank(ws'[c].told) >= ToldRank(ws[c].told)
         /\ ws[c].told \in Final => ws'[c].told = ws[c].told
<1>t. WatchType /\ TrackerType /\ PipeType /\ OutcomeChosen /\ RowType
  BY DEF TypeInv, TypeOK
<1>r. \A told \in Told : ToldRank(told) \in 0..4
  BY DEF Told, RowStatus, Final, ToldRank
<1>h. ws[c].pc = "watching" /\ pipe.pc # "dead" => ws[c].told \in Announced
  BY DEF ToldInv
<1>n. ws[c].told \in Told
  BY <1>t DEF WatchType
<1>1. CASE ws'[c].told = ws[c].told
  BY <1>1, <1>r, <1>n
<1>2. ASSUME NEW s, broadcastStatus(s), ws'[c].told # ws[c].told
      PROVE  ws[c].pc = "watching" /\ ws'[c].told = s
  BY <1>2, <1>t DEF broadcastStatus, tellStatus, Reachable, WatchType
<1>3. CASE AnnounceRunning
  <2>1. broadcastStatus("RUNNING") /\ pipe.pc \in Early
    BY <1>3 DEF AnnounceRunning, Early
  <2>2. CASE ws'[c].told # ws[c].told
    <3>1. ws'[c].told = "RUNNING" /\ ws[c].told \in {"PENDING", "RUNNING"}
      BY <2>1, <2>2, <1>2, <1>h DEF Announced, Early
    <3>. QED
      BY <3>1 DEF ToldRank, Final
  <2>. QED
    BY <1>1, <2>2
<1>4. CASE AnnounceCleanup
  <2>1. broadcastStatus("CLEANUP") /\ pipe.pc = "running"
    BY <1>4 DEF AnnounceCleanup
  <2>2. CASE ws'[c].told # ws[c].told
    <3>1. ws'[c].told = "CLEANUP" /\ ws[c].told \in {"PENDING", "RUNNING", "CLEANUP"}
      BY <2>1, <2>2, <1>2, <1>h DEF Announced, Early
    <3>. QED
      BY <3>1 DEF ToldRank, Final
  <2>. QED
    BY <1>1, <2>2
<1>5. CASE AnnounceFinal
  <2>1. broadcastStatus(pipe.outcome) /\ pipe.pc = "trackerFinal" /\ pipe.outcome \in Final
    BY <1>5, <1>t DEF AnnounceFinal, OutcomeChosen
  <2>2. CASE ws'[c].told # ws[c].told
    <3>1. /\ ws'[c].told = pipe.outcome
          /\ ws[c].told \in {"PENDING", "RUNNING", "CLEANUP", pipe.outcome}
      BY <2>1, <2>2, <1>2, <1>h DEF Announced
    <3>. QED
      BY <2>1, <3>1 DEF ToldRank, Final
  <2>. QED
    BY <1>1, <2>2
<1>6. CASE \E d \in Watchers : Attach(d) \/ ServeRow(d)
  <2>1. PICK d \in Watchers : Attach(d) \/ ServeRow(d)
    BY <1>6
  <2>2. CASE d # c
    BY <2>1, <2>2, <1>1, <1>t DEF Attach, ServeRow, WatchType
  <2>3. CASE d = c
    <3>1. ws[c].told = "nothing" /\ ws'[c].told \in Told
      BY <2>1, <2>3, <1>t DEF Attach, ServeRow, WatchType, ToldInv, Fresh, TrackerType, RowType, Told
    <3>. QED
      BY <3>1, <1>r DEF ToldRank, Final
  <2>. QED
    BY <2>2, <2>3
<1>7. CASE InsertRun \/ CreateTracker \/ MarkRowRunning \/ MarkTrackerRunning \/ EmitLog
           \/ CaptureLogs \/ CommitRow \/ MarkTrackerFinal \/ CloseLog \/ LogReceive \/ LogAppend
           \/ LogLookup \/ LogDone \/ (\E r \in Readers : Reader(r)) \/ UNCHANGED vars
  <2>1. ws' = ws
    BY <1>7 DEF InsertRun, CreateTracker, MarkRowRunning, MarkTrackerRunning, EmitLog, CaptureLogs,
                CommitRow, MarkTrackerFinal, CloseLog, LogReceive, LogAppend, LogLookup, LogDone,
                Reader, ReaderOnly, ReadRow, ReadTracker, ReadAgain, vars
  <2>. QED
    BY <2>1, <1>1
<1>8. CASE EmitNodeStatus
  BY <1>8, <1>1, <1>t DEF EmitNodeStatus, tellNode, Reachable, WatchType
<1>11. CASE LogSend
  BY <1>11, <1>1, <1>t DEF LogSend, tellLog, Reachable, WatchType
<1>9. CASE ExpireTracker \/ Crash
  BY <1>9, <1>1, <1>t DEF ExpireTracker, Crash, WatchType
<1>10. CASE \E d \in Watchers : Dial(d) \/ LookUpTracker(d) \/ Leave(d) \/ Reap(d)
  BY <1>10, <1>1, <1>t DEF Dial, LookUpTracker, Leave, Reap, WatchType
<1>. QED
  BY <1>3, <1>4, <1>5, <1>6, <1>7, <1>8, <1>9, <1>10, <1>11
     DEF Next, Pipeline, Logger, Watcher

\* The tracker's status is an outcome only once the row has it.
LEMMA CommittedStep ==
  ASSUME TypeInv, RowInv, StatusInv, ToldOutcomeIsCommitted, [Next]_vars
  PROVE  ToldOutcomeIsCommitted'
<1>t. WatchType /\ TrackerType /\ PipeType /\ OutcomeChosen /\ RowType
  BY DEF TypeInv, TypeOK
<1> SUFFICES ASSUME ~DBMayFail, NEW c \in Watchers, ws'[c].told \in Final
             PROVE  row'.status = ws'[c].told
  BY DEF ToldOutcomeIsCommitted
<1>c. ws[c].told \in Final => row.status = ws[c].told
  BY DEF ToldOutcomeIsCommitted
<1>d. tracker.status \in Final => row.status = tracker.status
  BY <1>t DEF StatusInv, RowInv, Decided, Undecided, Early, PipeType, PipePC, Final
<1>1. CASE ws'[c].told = ws[c].told /\ row' = row
  BY <1>1, <1>c
<1>2. CASE InsertRun \/ MarkRowRunning \/ CommitRow
  <2>1. ws' = ws /\ pipe.pc \in Undecided
    BY <1>2 DEF InsertRun, MarkRowRunning, CommitRow, Goto, Undecided, Early
  <2>. QED
    BY <2>1, <1>c DEF RowInv
<1>3. CASE CreateTracker \/ MarkTrackerRunning \/ EmitLog \/ CaptureLogs \/ MarkTrackerFinal
           \/ CloseLog \/ LogReceive \/ LogAppend \/ LogLookup \/ LogDone
           \/ (\E r \in Readers : Reader(r)) \/ UNCHANGED vars
  BY <1>3, <1>1
     DEF CreateTracker, MarkTrackerRunning, EmitLog, CaptureLogs, MarkTrackerFinal, CloseLog,
         LogReceive, LogAppend, LogLookup, LogDone, Reader, ReaderOnly, ReadRow, ReadTracker,
         ReadAgain, vars
<1>4. CASE AnnounceRunning \/ AnnounceCleanup \/ AnnounceFinal
  <2>1. /\ row' = row
        /\ \/ broadcastStatus("RUNNING") \/ broadcastStatus("CLEANUP")
           \/ broadcastStatus(pipe.outcome) /\ pipe.pc = "trackerFinal"
    BY <1>4 DEF AnnounceRunning, AnnounceCleanup, AnnounceFinal
  <2>2. \/ ws'[c].told \in {ws[c].told, "RUNNING", "CLEANUP"}
        \/ ws'[c].told = pipe.outcome /\ pipe.pc = "trackerFinal"
    <3>1. CASE broadcastStatus("RUNNING")
      BY <3>1, <1>t DEF broadcastStatus, tellStatus, WatchType
    <3>2. CASE broadcastStatus("CLEANUP")
      BY <3>2, <1>t DEF broadcastStatus, tellStatus, WatchType
    <3>3. CASE broadcastStatus(pipe.outcome) /\ pipe.pc = "trackerFinal"
      BY <3>3, <1>t DEF broadcastStatus, tellStatus, WatchType
    <3>. QED
      BY <2>1, <3>1, <3>2, <3>3
  <2>. QED
    BY <2>1, <2>2, <1>c DEF RowInv, Decided, Final
<1>5. CASE EmitNodeStatus
  BY <1>5, <1>1, <1>t DEF EmitNodeStatus, tellNode, WatchType
<1>6. CASE LogSend
  BY <1>6, <1>1, <1>t DEF LogSend, tellLog, WatchType
<1>7. CASE ExpireTracker \/ Crash
  BY <1>7, <1>1, <1>t DEF ExpireTracker, Crash, WatchType
<1>8. CASE \E d \in Watchers : Watcher(d)
  <2>1. PICK d \in Watchers : Watcher(d)
    BY <1>8
  <2>2. row' = row
    BY <1>8, Aside
  <2>3. CASE d # c \/ Dial(d) \/ LookUpTracker(d) \/ Leave(d) \/ Reap(d)
    BY <2>1, <2>2, <2>3, <1>1, <1>t
       DEF Watcher, Dial, LookUpTracker, Attach, ServeRow, Leave, Reap, WatchType
  <2>4. CASE d = c /\ Attach(d)
    BY <2>2, <2>4, <1>d, <1>t DEF Attach, WatchType
  <2>5. CASE d = c /\ ServeRow(d)
    BY <2>2, <2>5, <1>t DEF ServeRow, WatchType
  <2>. QED
    BY <2>1, <2>3, <2>4, <2>5 DEF Watcher
<1>. QED
  BY <1>2, <1>3, <1>4, <1>5, <1>6, <1>7, <1>8 DEF Next, Pipeline, Logger

-----------------------------------------------------------------------------
(* The node status.                                                          *)

LEMMA NodeStep ==
  ASSUME TypeInv, NodeViewCurrent, [Next]_vars
  PROVE  NodeViewCurrent'
<1>t. WatchType /\ TrackerType
  BY DEF TypeInv, TypeOK
<1> USE DEF NodeViewCurrent, Reachable, WatchType, TrackerType
<1>1. CASE ws' = ws /\ tracker'.node = tracker.node /\ tracker'.clients \subseteq tracker.clients
  BY <1>1
<1>2. CASE InsertRun \/ CreateTracker \/ MarkRowRunning \/ EmitLog \/ CaptureLogs
           \/ CommitRow \/ CloseLog \/ LogReceive \/ LogLookup \/ LogDone
           \/ (\E r \in Readers : Reader(r)) \/ UNCHANGED vars
  BY <1>1, <1>2
     DEF InsertRun, CreateTracker, MarkRowRunning, EmitLog, CaptureLogs, CommitRow, CloseLog,
         LogReceive, LogLookup, LogDone, Reader, ReaderOnly, ReadRow, ReadTracker, ReadAgain, vars
<1>3. CASE MarkTrackerRunning \/ MarkTrackerFinal \/ LogAppend
  BY <1>1, <1>3, <1>t DEF MarkTrackerRunning, MarkTrackerFinal, LogAppend
<1>4. ASSUME NEW s, broadcastStatus(s) PROVE NodeViewCurrent'
  BY <1>4, <1>t DEF broadcastStatus, tellStatus
<1>5. CASE AnnounceRunning \/ AnnounceCleanup \/ AnnounceFinal
  BY <1>4, <1>5 DEF AnnounceRunning, AnnounceCleanup, AnnounceFinal
<1>6. CASE EmitNodeStatus
  <2>1. PICK s : tellNode(s) /\ tracker' = [tracker EXCEPT !.node = s, !.clients = Reachable]
    BY <1>6 DEF EmitNodeStatus
  <2>. QED
    BY <2>1, <1>t DEF tellNode
<1>7. CASE LogSend
  BY <1>7, <1>t DEF LogSend, tellLog
<1>8. CASE ExpireTracker
  BY <1>8, <1>t DEF ExpireTracker
<1>9. CASE Crash
  BY <1>9, <1>t DEF Crash, NoTracker
<1>10. CASE \E c \in Watchers : Watcher(c)
  <2>1. PICK c \in Watchers : Watcher(c)
    BY <1>10
  <2>2. CASE Dial(c) \/ LookUpTracker(c) \/ ServeRow(c) \/ Leave(c)
    BY <2>2, <1>t DEF Dial, LookUpTracker, ServeRow, Leave
  <2>3. CASE Attach(c)
    BY <2>3, <1>t DEF Attach
  <2>4. CASE Reap(c)
    BY <2>4, <1>t DEF Reap
  <2>. QED
    BY <2>1, <2>2, <2>3, <2>4 DEF Watcher
<1>. QED
  BY <1>2, <1>3, <1>5, <1>6, <1>7, <1>8, <1>9, <1>10 DEF Next, Pipeline, Logger

-----------------------------------------------------------------------------
(* The log.                                                                  *)

LEMMA NumberedAppend ==
  ASSUME NEW s \in Stream, NEW from \in Nat, Numbered(s, from), NEW n \in Chunks,
         n = from + Len(s) + 1
  PROVE  Numbered(Append(s, n), from)
<1>1. /\ Len(Append(s, n)) = Len(s) + 1 /\ Len(s) \in Nat
      /\ \A i \in 1..Len(s) : Append(s, n)[i] = s[i]
      /\ Append(s, n)[Len(s) + 1] = n
  BY AppendProperties DEF Stream
<1> SUFFICES ASSUME NEW i \in 1..(Len(s) + 1) PROVE Append(s, n)[i] = from + i
  BY <1>1 DEF Numbered
<1>2. CASE i \in 1..Len(s)
  BY <1>1, <1>2 DEF Numbered
<1>3. CASE i = Len(s) + 1
  BY <1>1, <1>3
<1>. QED
  BY <1>1, <1>2, <1>3

LEMMA NumberedTail ==
  ASSUME NEW s \in Stream, s # <<>>, NEW from \in Nat, Numbered(s, from)
  PROVE  Head(s) = from + 1 /\ Numbered(Tail(s), from + 1)
<1>1. /\ Len(Tail(s)) = Len(s) - 1 /\ Len(s) \in Nat /\ Len(s) > 0
      /\ \A i \in 1..Len(Tail(s)) : Tail(s)[i] = s[i + 1]
      /\ Head(s) = s[1]
  BY HeadTailProperties DEF Stream
<1>. QED
  BY <1>1 DEF Numbered

\* The chunks of a run are the numbers from 1 to what it has emitted, in the log,
\* in the log goroutine's hand and in logChan, one after the other.
LEMMA LogStep ==
  ASSUME TypeInv, LogInv, [Next]_vars
  PROVE  LogInv'
<1>t. WatchType /\ TrackerType /\ PipeType /\ ChanType /\ LoggerType /\ MsgChosen
  BY DEF TypeInv, TypeOK
<1>l. Len(tracker.logs) \in Nat /\ InHand \in {0, 1} /\ Len(chan.buf) \in Nat
      /\ Len(tracker.logs) + InHand \in Nat
  BY <1>t DEF TrackerType, ChanType, Stream, InHand
<1>1. ASSUME tracker'.logs = tracker.logs, logger' = logger, chan'.buf = chan.buf,
             pipe'.pc # "dead" => pipe.pc # "dead" /\ pipe'.emitted = pipe.emitted,
             pipe'.pc \in Early \cup {"dead"} => pipe.pc \in Early \cup {"dead"},
             pipe'.pc = "dead" => ~tracked'
      PROVE  LogInv'
  BY <1>1 DEF LogInv, InHand
<1>2. CASE InsertRun \/ CreateTracker \/ MarkRowRunning \/ CaptureLogs \/ CommitRow
  <2>1. /\ tracker' = tracker /\ logger' = logger /\ chan' = chan
        /\ pipe'.pc # "dead" /\ pipe.pc # "dead" /\ pipe'.emitted = pipe.emitted
        /\ pipe'.pc \in Early => pipe.pc \in Early
    BY <1>2, <1>t
       DEF InsertRun, CreateTracker, MarkRowRunning, CaptureLogs, CommitRow, Goto, PipeType, Early
  <2>. QED
    BY <1>1, <2>1
<1>3. CASE MarkTrackerRunning \/ MarkTrackerFinal \/ CloseLog
  <2>1. /\ tracker'.logs = tracker.logs /\ logger' = logger /\ chan'.buf = chan.buf
        /\ pipe'.pc # "dead" /\ pipe.pc # "dead" /\ pipe'.emitted = pipe.emitted
        /\ pipe'.pc \in Early => pipe.pc \in Early
    BY <1>3, <1>t
       DEF MarkTrackerRunning, MarkTrackerFinal, CloseLog, Goto, PipeType, TrackerType, ChanType, Early
  <2>. QED
    BY <1>1, <2>1
<1>4. CASE AnnounceCleanup \/ AnnounceFinal \/ EmitNodeStatus
  <2>1. tracker'.logs = tracker.logs
    BY <1>4, <1>t DEF AnnounceCleanup, AnnounceFinal, EmitNodeStatus, broadcastStatus, TrackerType
  <2>2. /\ logger' = logger /\ chan' = chan
        /\ pipe'.pc # "dead" /\ pipe.pc # "dead" /\ pipe'.emitted = pipe.emitted
        /\ pipe'.pc \notin Early
    BY <1>4, <1>t DEF AnnounceCleanup, AnnounceFinal, EmitNodeStatus, PipeType, Early
  <2>. QED
    BY <1>1, <2>1, <2>2
<1>5. CASE AnnounceRunning
  <2>1. /\ tracker'.logs = tracker.logs /\ chan'.buf = chan.buf
        /\ pipe.pc \in Early /\ pipe'.pc = "running" /\ pipe'.emitted = pipe.emitted
        /\ logger'.pc = "recv"
    BY <1>5, <1>t
       DEF AnnounceRunning, broadcastStatus, TrackerType, ChanType, PipeType, LoggerType, Early
  <2>2. logger.pc = "none" /\ pipe.pc # "dead"
    BY <2>1 DEF LogInv, Early
  <2>. QED
    BY <2>1, <2>2 DEF LogInv, InHand, Early
<1>6. CASE EmitLog
  <2>0. pipe.emitted \in Nat /\ pipe.emitted + 1 \in Chunks
    BY <1>6, <1>t DEF EmitLog, PipeType, Chunks
  <2>1. /\ pipe.pc = "running" /\ pipe'.pc = "running" /\ pipe'.emitted = pipe.emitted + 1
        /\ chan'.buf = Append(chan.buf, pipe.emitted + 1)
        /\ tracker' = tracker /\ logger' = logger
    BY <1>6, <1>t DEF EmitLog, PipeType, ChanType
  <2>2. pipe.emitted = Len(tracker.logs) + InHand + Len(chan.buf)
    BY <2>1 DEF LogInv
  <2>3. Numbered(chan'.buf, Len(tracker.logs) + InHand) /\ Len(chan'.buf) = Len(chan.buf) + 1
    <3>1. Numbered(chan.buf, Len(tracker.logs) + InHand) /\ chan.buf \in Stream
      BY <1>t DEF LogInv, ChanType
    <3>2. pipe.emitted + 1 = Len(tracker.logs) + InHand + Len(chan.buf) + 1
      BY <2>1, <2>2
    <3>3. Numbered(Append(chan.buf, pipe.emitted + 1), Len(tracker.logs) + InHand)
      BY <3>1, <3>2, <2>0, <1>l, NumberedAppend
    <3>. QED
      BY <3>1, <3>3, <2>0, <2>1, StreamAppend
  <2>4. Len(tracker'.logs) = Len(tracker.logs) /\ InHand' = InHand
    BY <2>1 DEF InHand
  <2>5. pipe'.emitted = Len(tracker'.logs) + InHand' + Len(chan'.buf)
    <3> DEFINE l == Len(tracker.logs)  h == InHand  b == Len(chan.buf)
    <3>1. l \in Nat /\ h \in Nat /\ b \in Nat
      BY <1>l
    <3>2. pipe'.emitted = l + h + b + 1
      BY <2>1, <2>2
    <3>3. Len(tracker'.logs) = l /\ InHand' = h /\ Len(chan'.buf) = b + 1
      BY <2>3, <2>4
    <3> HIDE DEF l, h, b
    <3>. QED
      BY <3>1, <3>2, <3>3
  <2>6. Numbered(chan'.buf, Len(tracker'.logs) + InHand')
    BY <2>3, <2>4
  <2>. QED
    BY <2>1, <2>5, <2>6 DEF LogInv, Early
<1>7. CASE ExpireTracker
  <2>1. /\ tracker' = tracker /\ logger' = logger /\ chan' = chan
        /\ pipe'.pc = pipe.pc /\ pipe'.emitted = pipe.emitted /\ ~tracked'
    BY <1>7, <1>t DEF ExpireTracker, PipeType
  <2>. QED
    BY <1>1, <2>1
<1>8. CASE LogReceive
  <2>1. /\ logger.pc = "recv" /\ chan.buf # <<>> /\ chan.buf \in Stream
        /\ logger'.pc = "append" /\ logger'.msg = Head(chan.buf) /\ chan'.buf = Tail(chan.buf)
        /\ tracker' = tracker /\ pipe' = pipe /\ tracked' = tracked
    BY <1>8, <1>t DEF LogReceive, ChanType
  <2>2. InHand = 0 /\ InHand' = 1
    BY <2>1 DEF InHand
  <2>3. Numbered(chan.buf, Len(tracker.logs))
    BY <2>2, <1>l DEF LogInv
  <2>4. Head(chan.buf) = Len(tracker.logs) + 1 /\ Numbered(Tail(chan.buf), Len(tracker.logs) + 1)
    BY <2>1, <2>3, <1>l, NumberedTail
  <2>5. Len(chan'.buf) = Len(chan.buf) - 1
    BY <2>1, StreamTail
  <2>6. pipe.pc # "dead" => pipe'.emitted = Len(tracker'.logs) + InHand' + Len(chan'.buf)
    <3> DEFINE l == Len(tracker.logs)  b == Len(chan.buf)
    <3>1. l \in Nat /\ b \in Nat
      BY <1>l
    <3>2. pipe.pc # "dead" => pipe'.emitted = l + 0 + b
      BY <2>1, <2>2 DEF LogInv
    <3>3. Len(tracker'.logs) = l /\ InHand' = 1 /\ Len(chan'.buf) = b - 1
      BY <2>1, <2>2, <2>5
    <3> HIDE DEF l, b
    <3>. QED
      BY <3>1, <3>2, <3>3
  <2>7. Numbered(chan'.buf, Len(tracker'.logs) + InHand')
    BY <2>1, <2>2, <2>4
  <2>. QED
    BY <2>1, <2>4, <2>6, <2>7 DEF LogInv
<1>9. CASE LogAppend
  <2>1. /\ logger.pc = "append" /\ logger'.pc = "lookup" /\ logger'.msg = logger.msg
        /\ tracker'.logs = Append(tracker.logs, logger.msg)
        /\ pipe' = pipe /\ chan' = chan /\ tracked' = tracked
    BY <1>9, <1>t DEF LogAppend, TrackerType, LoggerType
  <2>2. InHand = 1 /\ InHand' = 0
    BY <2>1 DEF InHand
  <2>3. logger.msg = Len(tracker.logs) + 1 /\ logger.msg \in Chunks /\ tracker.logs \in Stream
    BY <2>1, <1>t DEF LogInv, MsgChosen, TrackerType
  <2>4. Numbered(tracker'.logs, 0)
    BY <2>1, <2>3, <1>l, NumberedAppend DEF LogInv
  <2>5. Len(tracker'.logs) = Len(tracker.logs) + 1 /\ tracker'.logs # <<>>
    BY <2>1, <2>3, StreamAppend, AppendProperties DEF Stream
  <2>6. pipe.pc # "dead" => pipe'.emitted = Len(tracker'.logs) + InHand' + Len(chan'.buf)
    <3> DEFINE l == Len(tracker.logs)  b == Len(chan.buf)
    <3>1. l \in Nat /\ b \in Nat
      BY <1>l
    <3>2. pipe.pc # "dead" => pipe'.emitted = l + 1 + b
      BY <2>1, <2>2 DEF LogInv
    <3>3. Len(tracker'.logs) = l + 1 /\ InHand' = 0 /\ Len(chan'.buf) = b
      BY <2>1, <2>2, <2>5
    <3> HIDE DEF l, b
    <3>. QED
      BY <3>1, <3>2, <3>3
  <2>7. Numbered(chan'.buf, Len(tracker'.logs) + InHand')
    BY <2>1, <2>2, <2>5, <1>l DEF LogInv
  <2>. QED
    BY <2>1, <2>3, <2>4, <2>5, <2>6, <2>7 DEF LogInv
<1>10. CASE LogLookup \/ LogSend \/ LogDone
  <2>1. tracker'.logs = tracker.logs
    BY <1>10, <1>t DEF LogLookup, LogSend, LogDone, TrackerType
  <2>2. /\ pipe' = pipe /\ chan' = chan /\ tracked' = tracked /\ logger'.msg = logger.msg
        /\ logger.pc \in {"recv", "lookup", "send"} /\ logger'.pc \in {"recv", "send", "done"}
        /\ logger'.pc = "send" => logger.pc = "lookup"
    BY <1>10, <1>t DEF LogLookup, LogSend, LogDone, LoggerType
  <2>3. InHand = 0 /\ InHand' = 0
    BY <2>2 DEF InHand
  <2>. QED
    BY <2>1, <2>2, <2>3 DEF LogInv
<1>11. CASE \E c \in Watchers : Watcher(c)
  <2>1. tracker'.logs = tracker.logs
    BY <1>11, <1>t DEF Watcher, Dial, LookUpTracker, Attach, ServeRow, Leave, Reap, TrackerType
  <2>2. WatcherOnly
    BY <1>11 DEF Watcher, Dial, LookUpTracker, Attach, ServeRow, Leave, Reap
  <2>. QED
    BY <2>1, <2>2, <1>1 DEF WatcherOnly, LogInv
<1>12. CASE (\E r \in Readers : Reader(r)) \/ UNCHANGED vars
  <2>1. UNCHANGED <<tracked, tracker, pipe, chan, logger>>
    BY <1>12 DEF Reader, ReaderOnly, ReadRow, ReadTracker, ReadAgain, vars
  <2>. QED
    BY <2>1, <1>1 DEF LogInv
<1>13. CASE Crash
  <2>1. /\ tracker'.logs = <<>> /\ logger'.pc = "none" /\ chan'.buf = <<>> /\ ~tracked'
        /\ pipe'.pc = "dead"
    BY <1>13, <1>t DEF Crash, NoTracker, PipeType
  <2>. QED
    BY <2>1 DEF LogInv, Numbered, InHand
<1>. QED
  BY <1>2, <1>3, <1>4, <1>5, <1>6, <1>7, <1>8, <1>9, <1>10, <1>11, <1>12, <1>13
     DEF Next, Pipeline, Logger

-----------------------------------------------------------------------------
(* What watchers hear.                                                       *)

LEMMA WholeLogUnbroken ==
  ASSUME NEW s \in Stream, Numbered(s, 0)
  PROVE  Unbroken(s) /\ LastOf(s) = Len(s)
<1>1. Len(s) \in Nat /\ (s # <<>> => Len(s) > 0) /\ (s = <<>> => Len(s) = 0)
  BY DEF Stream
<1>2. \A i \in 1..Len(s) : s[i] = i
  BY <1>1 DEF Numbered
<1>3. LastOf(s) = Len(s)
  BY <1>1, <1>2 DEF LastOf
<1>4. s # <<>> => s[1] = 1 /\ Len(s) <= s[Len(s)] + 1
  BY <1>1, <1>2
<1>5. \A i \in 1..(Len(s) - 1) : s[i + 1] \in {s[i], s[i] + 1}
  BY <1>1, <1>2
<1>. QED
  BY <1>3, <1>4, <1>5 DEF Unbroken

LEMMA HearNext ==
  ASSUME NEW h \in Stream, Unbroken(h), NEW n \in Chunks,
         LastOf(h) = n - 1 \/ (LastOf(h) = n /\ Len(h) = n)
  PROVE  Unbroken(Append(h, n)) /\ LastOf(Append(h, n)) = n
<1> DEFINE g == Append(h, n)
<1>1. /\ Len(g) = Len(h) + 1 /\ Len(h) \in Nat /\ g # <<>>
      /\ \A i \in 1..Len(h) : g[i] = h[i]
      /\ g[Len(h) + 1] = n
      /\ h # <<>> => Len(h) > 0
      /\ h = <<>> => Len(h) = 0
  BY AppendProperties DEF Stream
<1>2. n \in Nat
  BY DEF Chunks
<1>3. LastOf(g) = n
  BY <1>1 DEF LastOf
<1>4. g[1] = 1
  <2>1. CASE h = <<>>
    <3>1. LastOf(h) = 0 /\ Len(h) = 0 /\ n >= 1
      BY <2>1, <1>1 DEF LastOf, Chunks
    <3>2. n = 1
      BY <3>1, <1>2
    <3>. QED
      BY <3>1, <3>2, <1>1
  <2>2. CASE h # <<>>
    BY <2>2, <1>1 DEF Unbroken
  <2>. QED
    BY <2>1, <2>2
<1>5. Len(g) <= g[Len(g)] + 1
  <2>1. CASE h = <<>>
    BY <2>1, <1>1, <1>2
  <2>2. CASE h # <<>> /\ LastOf(h) = n - 1
    <3>1. h[Len(h)] = n - 1 /\ Len(h) <= h[Len(h)] + 1
      BY <2>2 DEF LastOf, Unbroken
    <3>. QED
      BY <3>1, <1>1, <1>2
  <2>3. CASE Len(h) = n
    BY <2>3, <1>1, <1>2
  <2>. QED
    BY <2>1, <2>2, <2>3
<1>6. ASSUME NEW i \in 1..(Len(g) - 1) PROVE g[i + 1] \in {g[i], g[i] + 1}
  <2>1. CASE i \in 1..(Len(h) - 1)
    BY <2>1, <1>1 DEF Unbroken
  <2>2. CASE i = Len(h)
    <3>1. h # <<>> /\ g[i] = LastOf(h) /\ g[i + 1] = n
      BY <2>2, <1>1 DEF LastOf
    <3>. QED
      BY <3>1, <1>2
  <2>. QED
    BY <2>1, <2>2, <1>1
<1> HIDE DEF g
<1>7. Unbroken(g)
  BY <1>1, <1>4, <1>5, <1>6 DEF Unbroken
<1>. QED
  BY <1>3, <1>7 DEF g

\* A step that lets no watcher hear anything, and does not change how far behind
\* those are that are registered.
LEMMA HeardAside ==
  ASSUME HeardInv, TrackerType,
         \A c \in Watchers : /\ ws'[c].heard = ws[c].heard
                             /\ ws'[c].pc \in {"watching", "left", "closed"} =>
                                  Attached(c) \/ ws[c].heard = <<>>,
         Reachable' \subseteq Reachable,
         Reachable' # {} => /\ tracker'.logs = tracker.logs
                            /\ logger'.pc \in {"lookup", "send"} <=> logger.pc \in {"lookup", "send"}
                            /\ Heard' => Heard
  PROVE  HeardInv'
<1>1. ASSUME NEW c \in Watchers, Attached(c)' PROVE Unbroken(ws'[c].heard)
  <2>1. CASE Attached(c)
    BY <2>1 DEF HeardInv
  <2>2. CASE ws[c].heard = <<>>
    BY <2>2 DEF Unbroken
  <2>. QED
    BY <1>1, <2>1, <2>2 DEF Attached
<1>2. ASSUME Heard', NEW c \in Reachable' PROVE UpTo(ws[c].heard, Len(tracker.logs))'
  <2>0. c \in Reachable /\ Reachable \subseteq Watchers
    BY <1>2 DEF Reachable, TrackerType
  <2>1. c \in Reachable /\ Heard /\ tracker'.logs = tracker.logs /\ ws'[c].heard = ws[c].heard
        /\ (logger'.pc \in {"lookup", "send"} <=> logger.pc \in {"lookup", "send"})
    BY <1>2, <2>0
  <2>2. UpTo(ws[c].heard, Len(tracker.logs))
    BY <2>1 DEF HeardInv
  <2>. QED
    BY <1>2, <2>1, <2>2 DEF UpTo
<1>. QED
  BY <1>1, <1>2 DEF HeardInv, Unbroken

LEMMA HeardStep ==
  ASSUME TypeInv, ToldInv, LogInv, HeardInv, [Next]_vars
  PROVE  HeardInv'
<1>t. WatchType /\ TrackerType /\ PipeType /\ LoggerType /\ MsgChosen
  BY DEF TypeInv, TypeOK
<1>1. ASSUME ws' = ws, tracker'.clients \subseteq tracker.clients, tracker'.logs = tracker.logs,
             logger'.pc \in {"lookup", "send"} <=> logger.pc \in {"lookup", "send"},
             Heard' => Heard
      PROVE  HeardInv'
  BY <1>1, <1>t, HeardAside DEF Reachable, Attached
<1>2. CASE InsertRun \/ MarkRowRunning \/ CaptureLogs \/ CommitRow \/ EmitLog
  BY <1>1, <1>2, <1>t
     DEF InsertRun, MarkRowRunning, CaptureLogs, CommitRow, EmitLog, Goto, Heard, Early, PipeType
<1>3. CASE MarkTrackerRunning \/ MarkTrackerFinal \/ CloseLog
  <2>1. /\ ws' = ws /\ tracker'.clients = tracker.clients /\ tracker'.logs = tracker.logs
        /\ logger' = logger /\ tracked' = tracked
    BY <1>3, <1>t DEF MarkTrackerRunning, MarkTrackerFinal, CloseLog, TrackerType
  <2>2. Heard' => Heard
    BY <1>3, <2>1, <1>t
       DEF MarkTrackerRunning, MarkTrackerFinal, CloseLog, Goto, Heard, Early, PipeType
  <2>. QED
    BY <2>1, <2>2, <1>1
<1>4. CASE CreateTracker
  BY <1>1, <1>4, <1>t DEF CreateTracker, Goto, Heard, Early, PipeType
<1>5. ASSUME NEW s, broadcastStatus(s), tracked' = tracked,
             logger'.pc \in {"lookup", "send"} <=> logger.pc \in {"lookup", "send"},
             Heard' => Heard
      PROVE  HeardInv'
  <2>1. \A c \in Watchers : ws'[c].heard = ws[c].heard /\ ws'[c].pc = ws[c].pc
    BY <1>5, <1>t DEF broadcastStatus, tellStatus, WatchType
  <2>2. tracker'.clients \subseteq tracker.clients /\ tracker'.logs = tracker.logs
    BY <1>5, <1>t DEF broadcastStatus, Reachable, TrackerType
  <2>3. Reachable' \subseteq Reachable
    BY <2>1, <2>2, <1>t DEF Reachable, TrackerType
  <2>. QED
    BY <1>5, <2>1, <2>2, <2>3, <1>t, HeardAside DEF Attached
<1>6. CASE AnnounceRunning
  <2>1. broadcastStatus("RUNNING") /\ tracked' = tracked /\ pipe.pc = "trackerRunning"
        /\ logger'.pc = "recv"
    BY <1>6, <1>t DEF AnnounceRunning, LoggerType
  <2>2. logger.pc = "none" /\ Heard
    BY <2>1 DEF LogInv, Early, Heard
  <2>. QED
    BY <2>1, <2>2, <1>5
<1>7. CASE AnnounceCleanup
  BY <1>5, <1>7 DEF AnnounceCleanup, Heard
<1>8. CASE AnnounceFinal
  <2>1. broadcastStatus(pipe.outcome) /\ tracked' = tracked /\ logger' = logger
        /\ pipe'.pc = "announced"
    BY <1>8, <1>t DEF AnnounceFinal, PipeType
  <2>2. Heard' => Heard
    BY <2>1 DEF Heard, Early
  <2>. QED
    BY <2>1, <2>2, <1>5
<1>9. CASE EmitNodeStatus
  <2>1. \A c \in Watchers : ws'[c].heard = ws[c].heard /\ ws'[c].pc = ws[c].pc
    BY <1>9, <1>t DEF EmitNodeStatus, tellNode, WatchType
  <2>2. tracker'.clients \subseteq tracker.clients /\ tracker'.logs = tracker.logs
    BY <1>9, <1>t DEF EmitNodeStatus, Reachable, TrackerType
  <2>3. Reachable' \subseteq Reachable
    BY <2>1, <2>2, <1>t DEF Reachable, TrackerType
  <2>4. tracked' = tracked /\ logger' = logger /\ pipe' = pipe
    BY <1>9 DEF EmitNodeStatus
  <2>. QED
    BY <2>1, <2>2, <2>3, <2>4, <1>t, HeardAside DEF Attached, Heard
<1>10. CASE ExpireTracker \/ Crash
  <2>1. Reachable' = {}
    <3>1. CASE ExpireTracker
      BY <3>1, <1>t DEF ExpireTracker, Reachable, WatchType, TrackerType
    <3>2. CASE Crash
      BY <3>2 DEF Crash, NoTracker, Reachable
    <3>. QED
      BY <1>10, <3>1, <3>2
  <2>2. \A c \in Watchers : /\ ws'[c].heard = ws[c].heard
                            /\ \/ ws'[c].pc = ws[c].pc
                               \/ ws[c].pc \in {"dialled", "found", "missed", "watching"}
    BY <1>10, <1>t DEF ExpireTracker, Crash, Reachable, WatchType
  <2>3. \A c \in Watchers : Fresh(c)
    BY DEF ToldInv
  <2>. QED
    BY <2>1, <2>2, <2>3, <1>t, HeardAside DEF Attached, Fresh
<1>11. CASE LogReceive \/ LogDone
  BY <1>1, <1>11, <1>t DEF LogReceive, LogDone, LoggerType, Heard
<1>12. CASE LogAppend
  <2>1. /\ ws' = ws /\ tracker'.clients = tracker.clients
        /\ logger.pc = "append" /\ logger'.pc = "lookup" /\ tracked' = tracked /\ pipe' = pipe
    BY <1>12, <1>t DEF LogAppend, TrackerType, LoggerType
  <2>2. Len(tracker'.logs) = Len(tracker.logs) + 1 /\ Len(tracker.logs) \in Nat
    BY <1>12, <1>t, StreamAppend DEF LogAppend, TrackerType, MsgChosen
  <2>3. Reachable' = Reachable /\ (Heard' => Heard)
    BY <2>1 DEF Reachable, Heard
  <2>4. ASSUME Heard', NEW c \in Reachable' PROVE UpTo(ws[c].heard, Len(tracker.logs))'
    <3>1. UpTo(ws[c].heard, Len(tracker.logs))
      BY <2>3, <2>4 DEF HeardInv
    <3>2. LastOf(ws'[c].heard) = Len(tracker'.logs) - 1
      BY <3>1, <2>1, <2>2 DEF UpTo
    <3>. QED
      BY <3>2, <2>1 DEF UpTo
  <2>5. \A c \in Watchers : Attached(c)' => Unbroken(ws[c].heard)'
    BY <2>1 DEF HeardInv, Attached, Unbroken
  <2>. QED
    BY <2>4, <2>5 DEF HeardInv
<1>13. CASE LogLookup
  <2>1. /\ ws' = ws /\ tracker' = tracker /\ tracked' = tracked /\ pipe' = pipe
        /\ logger.pc = "lookup" /\ logger'.pc = IF tracked THEN "send" ELSE "recv"
    BY <1>13, <1>t DEF LogLookup, LoggerType
  <2>2. CASE tracked
    BY <2>1, <2>2, <1>1 DEF Heard
  <2>3. CASE ~tracked
    <3>1. ~Heard'
      BY <2>1, <2>3 DEF Heard, LogInv
    <3>2. \A c \in Watchers : Attached(c)' => Unbroken(ws[c].heard)'
      BY <2>1 DEF HeardInv, Attached, Unbroken
    <3>. QED
      BY <3>1, <3>2 DEF HeardInv
  <2>. QED
    BY <2>2, <2>3
<1>14. CASE LogSend
  <2>1. /\ logger.pc = "send" /\ logger'.pc = "recv" /\ tracker'.logs = tracker.logs
        /\ tracker'.clients = Reachable /\ logger.msg \in Chunks
    BY <1>14, <1>t DEF LogSend, TrackerType, LoggerType, MsgChosen
  <2>2. logger.msg = Len(tracker.logs) /\ Heard
    BY <2>1 DEF LogInv, Heard
  <2>3. \A c \in Watchers : ws'[c].pc = ws[c].pc
    BY <1>14, <1>t DEF LogSend, tellLog, WatchType
  <2>4. \A c \in Watchers : ws'[c].heard = IF c \in Reachable THEN Append(ws[c].heard, logger.msg)
                                           ELSE ws[c].heard
    BY <1>14, <1>t DEF LogSend, tellLog, WatchType
  <2>5. Reachable' \subseteq Reachable /\ Reachable \subseteq Watchers
    BY <2>1, <1>t DEF Reachable, TrackerType
  <2>6. ASSUME NEW c \in Reachable
        PROVE  Unbroken(ws'[c].heard) /\ LastOf(ws'[c].heard) = Len(tracker.logs)
    <3>1. c \in Watchers /\ ws[c].pc = "watching" /\ ws[c].heard \in Stream
      BY <2>5, <1>t DEF Reachable, WatchType
    <3>2. Unbroken(ws[c].heard)
      BY <3>1 DEF HeardInv, Attached
    <3>3. UpTo(ws[c].heard, Len(tracker.logs))
      BY <2>2 DEF HeardInv
    <3>4. \/ LastOf(ws[c].heard) = logger.msg - 1
          \/ LastOf(ws[c].heard) = logger.msg /\ Len(ws[c].heard) = logger.msg
      BY <3>3, <2>1, <2>2 DEF UpTo
    <3>. QED
      BY <3>1, <3>2, <3>4, <2>1, <2>2, <2>4, HearNext
  <2>7. ASSUME NEW c \in Watchers, Attached(c)' PROVE Unbroken(ws[c].heard)'
    <3>1. Attached(c)
      BY <2>3, <2>7 DEF Attached
    <3>2. Unbroken(ws'[c].heard)
      BY <3>1, <2>4, <2>6 DEF HeardInv
    <3>. QED
      BY <3>2 DEF Unbroken
  <2>8. \A c \in Reachable' : UpTo(ws[c].heard, Len(tracker.logs))'
    BY <2>1, <2>5, <2>6 DEF UpTo
  <2>. QED
    BY <2>7, <2>8 DEF HeardInv
<1>15. CASE \E c \in Watchers : Dial(c) \/ LookUpTracker(c) \/ ServeRow(c) \/ Leave(c) \/ Reap(c)
  <2>1. PICK c \in Watchers : Dial(c) \/ LookUpTracker(c) \/ ServeRow(c) \/ Leave(c) \/ Reap(c)
    BY <1>15
  <2>2. tracker'.clients \subseteq tracker.clients /\ tracker'.logs = tracker.logs
        /\ logger' = logger /\ tracked' = tracked /\ pipe' = pipe
    BY <2>1, <1>t DEF Dial, LookUpTracker, ServeRow, Leave, Reap, WatcherOnly, TrackerType
  <2>3. \A d \in Watchers : /\ ws'[d].pc = "watching" => ws[d].pc = "watching"
                            /\ Attached(d)' => Attached(d) /\ ws'[d].heard = ws[d].heard
    <3>1. CASE Dial(c)
      BY <3>1, <1>t DEF Dial, WatchType, Attached
    <3>2. CASE LookUpTracker(c)
      BY <3>2, <1>t DEF LookUpTracker, WatchType, Attached
    <3>3. CASE ServeRow(c)
      BY <3>3, <1>t DEF ServeRow, WatchType, Attached
    <3>4. CASE Leave(c)
      BY <3>4, <1>t DEF Leave, WatchType, Attached
    <3>5. CASE Reap(c)
      BY <3>5, <1>t DEF Reap, Attached
    <3>. QED
      BY <2>1, <3>1, <3>2, <3>3, <3>4, <3>5
  <2>4. Reachable' \subseteq Reachable /\ (Heard' <=> Heard) /\ Reachable \subseteq Watchers
    BY <2>2, <2>3, <1>t DEF Reachable, Heard, TrackerType
  <2>5. ASSUME NEW d \in Watchers, Attached(d)' PROVE Unbroken(ws[d].heard)'
    BY <2>3, <2>5 DEF HeardInv, Unbroken
  <2>6. ASSUME Heard', NEW d \in Reachable' PROVE UpTo(ws[d].heard, Len(tracker.logs))'
    <3>1. UpTo(ws[d].heard, Len(tracker.logs))
      BY <2>4, <2>6 DEF HeardInv
    <3>2. ws'[d].heard = ws[d].heard
      BY <2>3, <2>4, <2>6 DEF Reachable, Attached
    <3>. QED
      BY <3>1, <3>2, <2>2 DEF UpTo
  <2>. QED
    BY <2>5, <2>6 DEF HeardInv
<1>16. CASE \E c \in Watchers : Attach(c)
  <2>1. PICK c \in Watchers : Attach(c)
    BY <1>16
  <2>2. /\ ws'[c].pc = "watching" /\ ws'[c].heard = tracker.logs
        /\ tracker'.clients = tracker.clients \cup {c} /\ tracker'.logs = tracker.logs
        /\ logger' = logger /\ tracked' = tracked /\ pipe' = pipe
    BY <2>1, <1>t DEF Attach, WatcherOnly, WatchType, TrackerType
  <2>3. \A d \in Watchers \ {c} : ws'[d] = ws[d]
    BY <2>1, <1>t DEF Attach, WatchType
  <2>4. tracker.logs \in Stream /\ Unbroken(tracker.logs) /\ LastOf(tracker.logs) = Len(tracker.logs)
    BY <1>t, WholeLogUnbroken DEF LogInv, TrackerType
  <2>5. ASSUME NEW d \in Watchers, Attached(d)' PROVE Unbroken(ws[d].heard)'
    <3>1. Unbroken(ws'[d].heard)
      BY <2>2, <2>3, <2>4, <2>5 DEF HeardInv, Attached
    <3>. QED
      BY <3>1 DEF Unbroken
  <2>6. ASSUME Heard', NEW d \in Reachable' PROVE UpTo(ws[d].heard, Len(tracker.logs))'
    <3>1. CASE d = c
      BY <3>1, <2>2, <2>4 DEF UpTo
    <3>2. CASE d # c
      <4>1. d \in Reachable /\ ws'[d] = ws[d] /\ Heard
        BY <3>2, <2>2, <2>3, <2>6, <1>t DEF Reachable, TrackerType, Heard
      <4>2. UpTo(ws[d].heard, Len(tracker.logs))
        BY <4>1 DEF HeardInv
      <4>. QED
        BY <4>1, <4>2, <2>2 DEF UpTo
    <3>. QED
      BY <3>1, <3>2
  <2>. QED
    BY <2>5, <2>6 DEF HeardInv
<1>17. CASE (\E r \in Readers : Reader(r)) \/ UNCHANGED vars
  <2>1. UNCHANGED <<tracked, tracker, pipe, logger, ws>>
    BY <1>17 DEF Reader, ReaderOnly, ReadRow, ReadTracker, ReadAgain, vars
  <2>. QED
    BY <2>1, <1>1 DEF Heard
<1>. QED
  BY <1>2, <1>3, <1>4, <1>6, <1>7, <1>8, <1>9, <1>10, <1>11, <1>12, <1>13, <1>14, <1>15, <1>16,
     <1>17 DEF Next, Pipeline, Logger, Watcher

-----------------------------------------------------------------------------
(* The log stored with an outcome, and what readers see of it.               *)

\* A truncated log is a window of the output that ends where the log ends.
LEMMA TruncatedLog ==
  ASSUME NEW s \in Stream, Numbered(s, 0), NEW n \in Nat, Len(s) <= n
  PROVE  /\ truncateLogs(s) \in Record!AtRestLogs(n)
         /\ truncateLogs(s) # <<>> =>
              truncateLogs(s)[Len(truncateLogs(s))] = Len(s) /\ Len(s) > 0
<1> DEFINE b == Len(s)
           t == truncateLogs(s)
<1>1. b \in Nat /\ b <= n /\ (s # <<>> => b > 0) /\ MaxAtRest \in Nat \ {0}
  BY DEF Stream
<1>2. \A i \in 1..b : s[i] = i
  BY <1>1 DEF Numbered
<1>3. CASE b <= MaxAtRest
  <2>1. t = s
    BY <1>3 DEF truncateLogs
  <2>2. s = [i \in 1..b |-> s[i]]
    BY DEF Stream
  <2>3. Record!Window(1, b) = [i \in 1..b |-> i]
    BY <1>1 DEF Record!Window
  <2>4. s = Record!Window(1, b)
    BY <1>2, <2>2, <2>3
  <2>5. b \in 0..(IF n < MaxAtRest THEN n ELSE MaxAtRest)
    BY <1>1, <1>3
  <2>. QED
    BY <1>1, <1>2, <2>1, <2>4, <2>5 DEF Record!AtRestLogs
<1>4. CASE b > MaxAtRest
  <2>1. t = SubSeq(s, b - MaxAtRest + 1, b)
    BY <1>1, <1>4 DEF truncateLogs
  <2>2. \A i \in (b - MaxAtRest + 1)..b : s[i] \in Nat
    BY <1>1, <1>2, <1>4
  <2>3. /\ t \in Seq(Nat)
        /\ Len(t) = MaxAtRest
        /\ \A i \in 1..MaxAtRest : t[i] = s[b - MaxAtRest + 1 + i - 1]
    <3>1. b - MaxAtRest + 1 \in Int /\ b \in Int /\ b - MaxAtRest + 1 <= b
          /\ b - (b - MaxAtRest + 1) + 1 = MaxAtRest
      BY <1>1
    <3>. QED
      BY <2>1, <2>2, <3>1, SubSeqProperties
  <2>4. \A i \in 1..MaxAtRest : t[i] = b + 1 - MaxAtRest + i - 1
    BY <1>1, <1>2, <1>4, <2>3
  <2>5. Record!Window(b + 1 - MaxAtRest, b) = [i \in 1..MaxAtRest |-> b + 1 - MaxAtRest + i - 1]
    <3>1. b + 1 - (b + 1 - MaxAtRest) = MaxAtRest
      BY <1>1
    <3>. QED
      BY <3>1 DEF Record!Window
  <2>6. t = [i \in 1..MaxAtRest |-> t[i]]
    BY <2>3
  <2>7. t = Record!Window(b + 1 - MaxAtRest, b)
    BY <2>4, <2>5, <2>6
  <2>8. b \in MaxAtRest..n
    BY <1>1, <1>4
  <2>9. t[Len(t)] = b /\ b > 0
    BY <1>1, <1>4, <2>3, <2>4
  <2>. QED
    BY <2>7, <2>8, <2>9 DEF Record!AtRestLogs
<1>. QED
  BY <1>1, <1>3, <1>4

LEMMA CapturedStep ==
  ASSUME TypeInv, LogInv, CapturedInv, [Next]_vars
  PROVE  CapturedInv'
<1>t. TrackerType /\ PipeType /\ ChanType /\ LoggerType /\ MsgChosen
  BY DEF TypeInv, TypeOK
<1>1. ASSUME pipe'.captured = pipe.captured, pipe'.pc # "captured",
             pipe'.pc # "dead" => pipe.pc # "dead" /\ tracker'.logs = tracker.logs
      PROVE  CapturedInv'
  BY <1>1 DEF CapturedInv
<1>2. ASSUME pipe'.captured = pipe.captured, pipe'.pc = pipe.pc, tracker'.logs = tracker.logs,
             pipe'.emitted = pipe.emitted
      PROVE  CapturedInv'
  BY <1>2 DEF CapturedInv
<1>3. CASE InsertRun \/ CreateTracker \/ MarkRowRunning \/ CommitRow \/ CloseLog
  BY <1>1, <1>3, <1>t
     DEF InsertRun, CreateTracker, MarkRowRunning, CommitRow, CloseLog, Goto, PipeType
<1>4. CASE MarkTrackerRunning \/ MarkTrackerFinal
  BY <1>1, <1>4, <1>t DEF MarkTrackerRunning, MarkTrackerFinal, Goto, PipeType, TrackerType
<1>5. CASE AnnounceRunning \/ AnnounceFinal
  BY <1>1, <1>5, <1>t DEF AnnounceRunning, AnnounceFinal, broadcastStatus, PipeType, TrackerType
<1>6. CASE EmitLog
  BY <1>1, <1>6, <1>t DEF EmitLog, PipeType
<1>7. CASE EmitNodeStatus \/ AnnounceCleanup
  BY <1>2, <1>7, <1>t DEF EmitNodeStatus, AnnounceCleanup, broadcastStatus, TrackerType
<1>8. CASE CaptureLogs
  <2>1. /\ tracker' = tracker /\ pipe'.emitted = pipe.emitted
        /\ pipe'.captured = truncateLogs(tracker.logs) /\ pipe.pc = "running"
    BY <1>8, <1>t DEF CaptureLogs, PipeType
  <2>2. tracker.logs \in Stream /\ Numbered(tracker.logs, 0) /\ Len(tracker.logs) \in Nat
    BY <1>t DEF LogInv, TrackerType, Stream
  <2>3. Len(tracker.logs) <= pipe.emitted /\ pipe.emitted \in Nat
    <3>1. pipe.emitted = Len(tracker.logs) + InHand + Len(chan.buf)
      BY <2>1 DEF LogInv
    <3>2. InHand \in Nat /\ Len(chan.buf) \in Nat /\ pipe.emitted \in Nat
      BY <1>t DEF InHand, PipeType, ChanType, Stream
    <3> DEFINE l == Len(tracker.logs)
               h == InHand
               w == Len(chan.buf)
    <3>3. l \in Nat /\ h \in Nat /\ w \in Nat /\ pipe.emitted = l + h + w
      BY <2>2, <3>1, <3>2
    <3> HIDE DEF l, h, w
    <3>4. l <= pipe.emitted
      BY <3>3
    <3>. QED
      BY <3>2, <3>4 DEF l
  <2>. QED
    BY <2>1, <2>2, <2>3, TruncatedLog DEF CapturedInv
<1>9. CASE ExpireTracker
  BY <1>2, <1>9, <1>t DEF ExpireTracker, PipeType
<1>10. CASE LogAppend
  <2>1. /\ pipe' = pipe /\ tracker'.logs = Append(tracker.logs, logger.msg)
        /\ logger.msg \in Chunks
    BY <1>10, <1>t DEF LogAppend, TrackerType, MsgChosen
  <2>2. Len(tracker'.logs) = Len(tracker.logs) + 1 /\ Len(tracker.logs) \in Nat
    BY <2>1, <1>t, StreamAppend DEF TrackerType
  <2>3. pipe.captured # <<>> => pipe.captured[Len(pipe.captured)] \in Nat
    BY <1>t DEF PipeType, Stream, Chunks
  <2>4. pipe.captured # <<>> /\ pipe.pc # "dead" =>
          pipe.captured[Len(pipe.captured)] <= Len(tracker.logs) + 1
    BY <2>2, <2>3 DEF CapturedInv
  <2>. QED
    BY <2>1, <2>2, <2>4 DEF CapturedInv
<1>11. CASE LogReceive \/ LogLookup \/ LogDone
  BY <1>2, <1>11 DEF LogReceive, LogLookup, LogDone
<1>12. CASE LogSend
  BY <1>2, <1>12, <1>t DEF LogSend, TrackerType
<1>13. CASE \E c \in Watchers : Watcher(c)
  <2>1. pipe' = pipe /\ tracker'.logs = tracker.logs
    BY <1>13, <1>t
       DEF Watcher, WatcherOnly, Dial, LookUpTracker, Attach, ServeRow, Leave, Reap, TrackerType
  <2>. QED
    BY <2>1, <1>2
<1>14. CASE (\E r \in Readers : Reader(r)) \/ UNCHANGED vars
  <2>1. pipe' = pipe /\ tracker' = tracker
    BY <1>14 DEF Reader, ReaderOnly, ReadRow, ReadTracker, ReadAgain, vars
  <2>. QED
    BY <2>1, <1>2
<1>15. CASE Crash
  BY <1>1, <1>15, <1>t DEF Crash, PipeType
<1>. QED
  BY <1>3, <1>4, <1>5, <1>6, <1>7, <1>8, <1>9, <1>10, <1>11, <1>12, <1>13, <1>14, <1>15
     DEF Next, Pipeline, Logger

LEMMA ReadStep ==
  ASSUME TypeInv, RowInv, LogInv, CapturedInv, ReadInv, [Next]_vars
  PROVE  ReadInv'
<1>t. TrackerType /\ PipeType /\ ReaderType /\ RowType
  BY DEF TypeInv, TypeOK
<1>u. OutcomeReadHasLog
  BY DEF ReadInv
<1>1. ASSUME reader' = reader, pipe'.captured = pipe.captured,
             pipe'.pc \in Undecided => pipe.pc \in Undecided
      PROVE  ReadInv'
  BY <1>1, <1>u DEF ReadInv, OutcomeReadHasLog
<1>2. CASE InsertRun \/ CreateTracker \/ MarkRowRunning \/ MarkTrackerRunning \/ CommitRow
           \/ MarkTrackerFinal \/ CloseLog
  BY <1>1, <1>2, <1>t
     DEF InsertRun, CreateTracker, MarkRowRunning, MarkTrackerRunning, CommitRow,
         MarkTrackerFinal, CloseLog, Goto, PipeType, Undecided, Early
<1>3. CASE AnnounceRunning \/ AnnounceFinal \/ EmitLog \/ ExpireTracker
  BY <1>1, <1>3, <1>t
     DEF AnnounceRunning, AnnounceFinal, EmitLog, ExpireTracker, PipeType, Undecided, Early
<1>4. CASE CaptureLogs
  <2>1. reader' = reader /\ pipe.pc \in Undecided
    BY <1>4 DEF CaptureLogs, Undecided
  <2>2. \A r \in Readers : reader[r].status \notin Final
    BY <2>1 DEF ReadInv
  <2>. QED
    BY <2>1, <2>2 DEF ReadInv, OutcomeReadHasLog
<1>5. CASE EmitNodeStatus \/ AnnounceCleanup \/ Logger \/ (\E c \in Watchers : Watcher(c))
           \/ UNCHANGED vars
  <2>1. pipe' = pipe
    BY <1>5, Aside
  <2>2. reader' = reader
    BY <1>5
       DEF EmitNodeStatus, AnnounceCleanup, Logger, LogReceive, LogAppend, LogLookup, LogSend,
           LogDone, Watcher, WatcherOnly, Dial, LookUpTracker, Attach, ServeRow, Leave, Reap, vars
  <2>. QED
    BY <2>1, <2>2, <1>1
<1>6. CASE Crash
  BY <1>6, <1>t
     DEF Crash, ReadInv, OutcomeReadHasLog, PipeType, NoAnswer, Undecided, Early, Final
<1>7. CASE \E r \in Readers : Reader(r)
  <2> PICK r \in Readers : Reader(r)
    BY <1>7
  <2>1. pipe' = pipe /\ row' = row
    BY <1>7, Aside
  <2>2. \A s \in Readers \ {r} : reader'[s] = reader[s]
    BY <1>t DEF Reader, ReadRow, ReadTracker, ReadAgain, ReaderType
  <2>3. CASE ReadRow(r)
    <3>1. reader'[r] = [pc |-> "row", status |-> row.status, logs |-> row.logs]
      BY <2>3, <1>t DEF ReadRow, ReaderType
    <3>. QED
      BY <2>1, <2>2, <3>1, <1>u DEF ReadInv, OutcomeReadHasLog, RowInv
  <2>4. CASE ReadTracker(r)
    <3>1. /\ reader[r].pc = "row"
          /\ reader'[r].pc = "answered" /\ reader'[r].status = reader[r].status
          /\ reader'[r].logs = IF tracked THEN tracker.logs ELSE reader[r].logs
      BY <2>4, <1>t DEF ReadTracker, ReaderType
    <3>2. ASSUME reader[r].status \in Final, pipe.captured # <<>>
          PROVE  /\ reader'[r].logs # <<>>
                 /\ reader'[r].logs[Len(reader'[r].logs)] >= pipe.captured[Len(pipe.captured)]
      <4>1. pipe.captured[Len(pipe.captured)] \in Chunks
        BY <3>2, <1>t DEF PipeType, Stream
      <4>2. CASE tracked
        <5>1. reader'[r].logs = tracker.logs /\ Numbered(tracker.logs, 0)
              /\ Len(tracker.logs) \in Nat
          BY <3>1, <4>2, <1>t DEF LogInv, TrackerType, Stream
        <5>2. pipe.captured[Len(pipe.captured)] <= Len(tracker.logs)
          BY <3>2, <4>2 DEF LogInv, CapturedInv
        <5>3. Len(tracker.logs) >= 1
          BY <4>1, <5>1, <5>2 DEF Chunks
        <5>4. tracker.logs[Len(tracker.logs)] = Len(tracker.logs) /\ tracker.logs # <<>>
          BY <5>1, <5>3 DEF Numbered
        <5>. QED
          BY <4>1, <5>1, <5>2, <5>4 DEF Chunks
      <4>3. CASE ~tracked
        BY <3>1, <3>2, <4>1, <4>3 DEF ReadInv, Chunks
      <4>. QED
        BY <4>2, <4>3
    <3>3. OutcomeReadHasLog'
      BY <2>1, <2>2, <3>1, <3>2, <1>u DEF OutcomeReadHasLog
    <3>. QED
      BY <2>1, <2>2, <3>1, <3>3 DEF ReadInv
  <2>5. CASE ReadAgain(r)
    <3>1. reader'[r] = NoAnswer
      BY <2>5, <1>t DEF ReadAgain, ReaderType
    <3>. QED
      BY <2>1, <2>2, <3>1, <1>u DEF ReadInv, OutcomeReadHasLog, NoAnswer, Final
  <2>. QED
    BY <2>3, <2>4, <2>5 DEF Reader
<1>. QED
  BY <1>2, <1>3, <1>4, <1>5, <1>6, <1>7 DEF Next, Pipeline

-----------------------------------------------------------------------------
(* The six invariants hold together; TypeInv is proved on its own.           *)

IInv ==
  /\ TypeInv
  /\ RowInv /\ StatusInv /\ ToldInv /\ LogInv /\ HeardInv /\ CapturedInv /\ ReadInv

LEMMA IInvInit == Init => IInv
  BY TypeInit, InvInit DEF IInv

LEMMA IInvStep == IInv /\ [Next]_vars => IInv'
  BY TypeStep, RowStep, StatusStep, ToldStep, LogStep, HeardStep, CapturedStep, ReadStep
     DEF IInv

LEMMA IInvHolds == Spec => []IInv
  BY IInvInit, IInvStep, PTL DEF Spec

\* Whatever a watcher hears starts at the first chunk, skips none and repeats
\* at most one, whenever it attaches (handleWebSocket, broadcastToTracker).
THEOREM HeardUnbroken == Spec => []StreamUnbroken
<1>1. IInv => StreamUnbroken
  BY DEF IInv, HeardInv, Unbroken, StreamUnbroken
<1>. QED
  BY <1>1, IInvHolds, PTL

\* A watcher told SUCCESS or FAILED was told what the row holds, as long as the
\* database takes the UPDATE (onComplete's order of commit and broadcast).
THEOREM ToldCommitted == Spec => []ToldOutcomeIsCommitted
<1>1. Init => ToldOutcomeIsCommitted
  BY DEF Init, ToldOutcomeIsCommitted, Final
<1>2. IInv /\ ToldOutcomeIsCommitted /\ [Next]_vars => ToldOutcomeIsCommitted'
  BY CommittedStep DEF IInv
<1>. QED
  BY <1>1, <1>2, IInvHolds, PTL DEF Spec

\* A registered watcher's node status is the tracker's (broadcastNodeStatus and
\* the replay in handleWebSocket).
THEOREM NodesCurrent == Spec => []NodeViewCurrent
<1>1. Init => NodeViewCurrent
  BY InvInit
<1>2. TypeInv /\ NodeViewCurrent /\ [Next]_vars => NodeViewCurrent'
  BY NodeStep
<1>3. IInv => TypeInv
  BY DEF IInv
<1>. QED
  BY <1>1, <1>2, <1>3, IInvHolds, PTL DEF Spec

\* An answer of GET /api/runs/{id} that shows an outcome carries at least the
\* log stored with it, although row and tracker are read at two moments.
THEOREM OutcomeHasLog == Spec => []OutcomeReadHasLog
<1>1. IInv => OutcomeReadHasLog
  BY DEF IInv, ReadInv
<1>. QED
  BY <1>1, IInvHolds, PTL

\* On one connection the status only moves forward, and an outcome once told
\* stays (the catch-up and the broadcasts of handleDeploy together).
THEOREM StatusForward == Spec => StatusMovesForward
<1>1. IInv /\ [Next]_vars =>
        [\A c \in Watchers :
           /\ ToldRank(ws'[c].told) >= ToldRank(ws[c].told)
           /\ ws[c].told \in Final => ws'[c].told = ws[c].told]_vars
  BY ForwardStep DEF IInv
<1>. QED
  BY <1>1, IInvHolds, PTL DEF Spec, StatusMovesForward

-----------------------------------------------------------------------------
(* The row implements RunRecord.                                             *)

LEMMA RecordStarts == Init => Record!RecordInit
  BY DEF Init, NoRow, Record!RecordInit

LEMMA RecordStep ==
  ASSUME IInv, [Next]_vars
  PROVE  [Record!RecordNext]_(Record!rvars)
<1>t. RowType /\ PipeType /\ OutcomeChosen /\ RowInv /\ CapturedInv
  BY DEF IInv, TypeInv, TypeOK
<1> USE DEF Record!RecordNext, Record!rvars
<1>1. CASE row' = row /\ pipe'.emitted = pipe.emitted
  BY <1>1
<1>2. CASE InsertRun
  <2>1. row.status = "none" /\ row'.status = "PENDING" /\ row'.logs = row.logs
        /\ pipe'.emitted = pipe.emitted
    BY <1>2, <1>t DEF InsertRun, Goto, RowInv, NoRow, PipeType
  <2>. QED
    BY <2>1 DEF Record!Accept
<1>3. CASE MarkRowRunning
  <2>1. pipe'.emitted = pipe.emitted /\ row.status = "PENDING"
    BY <1>3, <1>t DEF MarkRowRunning, Goto, RowInv, PipeType
  <2>2. CASE row' = [row EXCEPT !.status = "RUNNING"]
    BY <2>1, <2>2, <1>t DEF RowType, Record!Start
  <2>. QED
    BY <1>3, <2>1, <2>2, <1>1 DEF MarkRowRunning
<1>4. CASE EmitLog
  <2>1. row' = row /\ pipe'.emitted = pipe.emitted + 1
    BY <1>4, <1>t DEF EmitLog, PipeType
  <2>2. row.status \in {"PENDING", "RUNNING"}
    BY <1>4, <1>t DEF EmitLog, RowInv, Undecided
  <2>. QED
    BY <2>1, <2>2 DEF Record!Produce
<1>5. CASE CommitRow
  <2>1. pipe'.emitted = pipe.emitted /\ row.status \in {"PENDING", "RUNNING"}
        /\ pipe.outcome \in Final /\ pipe.captured \in Record!AtRestLogs(pipe.emitted)
    BY <1>5, <1>t DEF CommitRow, Goto, RowInv, Undecided, PipeType, OutcomeChosen, CapturedInv
  <2>2. CASE row' = [status |-> pipe.outcome, logs |-> pipe.captured]
    BY <2>1, <2>2 DEF Record!Finish, Record!Outcome, Final
  <2>. QED
    BY <1>5, <2>1, <2>2, <1>1 DEF CommitRow
<1>6. CASE CreateTracker \/ MarkTrackerRunning \/ MarkTrackerFinal \/ CloseLog
  BY <1>6, <1>1, <1>t
     DEF CreateTracker, MarkTrackerRunning, MarkTrackerFinal, CloseLog, Goto, PipeType
<1>7. CASE AnnounceRunning \/ CaptureLogs \/ AnnounceFinal \/ ExpireTracker \/ Crash
  BY <1>7, <1>1, <1>t
     DEF AnnounceRunning, CaptureLogs, AnnounceFinal, ExpireTracker, Crash, PipeType
<1>8. CASE Logger \/ (\E c \in Watchers : Watcher(c)) \/ (\E r \in Readers : Reader(r))
           \/ EmitNodeStatus \/ AnnounceCleanup \/ UNCHANGED vars
  BY <1>8, <1>1, Aside
<1>. QED
  BY <1>2, <1>3, <1>4, <1>5, <1>6, <1>7, <1>8 DEF Next, Pipeline

\* RunStream implements RunRecord: the row goes from accepted to an outcome for
\* good, and the log stored with it is a window of the run's output
\* (onComplete's UPDATE, truncateLogs).
THEOREM RowImplementsRecord == Spec => RowIsRecord
<1>1. IInv /\ [Next]_vars => [Record!RecordNext]_(Record!rvars)
  BY RecordStep
<1>. QED
  BY <1>1, RecordStarts, IInvHolds, PTL DEF Spec, RowIsRecord, Record!RecordSpec

=============================================================================
