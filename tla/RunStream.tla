------------------------------ MODULE RunStream ------------------------------
(****************************************************************************)
(* One pipeline run, from the INSERT of its row to the removal of its       *)
(* RunTracker (src/apps/api/main.go: handleDeploy, handlePlan and           *)
(* handleDestroy share this code line for line).                            *)
(*                                                                          *)
(* Five kinds of process act on the run:                                    *)
(*   - the pipeline goroutine: marks the run RUNNING, emits log chunks and  *)
(*     node statuses, and completes the run;                                *)
(*   - the log goroutine: takes chunks from logChan, appends each to the    *)
(*     tracker's log and then, in a second critical section, broadcasts it; *)
(*   - the cleanup timer, which closes the watchers and drops the tracker;  *)
(*   - WebSocket watchers (handleWebSocket and their read loops);           *)
(*   - readers of GET /api/runs/{id} (handleGetRunByID).                    *)
(* A critical section under tracker.Lock() or trackersMutex is one action:  *)
(* no code touches that state outside its lock.  Everything between two     *)
(* critical sections can be interleaved with the other processes.           *)
(*                                                                          *)
(* A log chunk is its position in the run's output: chunk n is the n-th     *)
(* string sent to logChan.                                                  *)
(****************************************************************************)
EXTENDS Naturals, Sequences, FiniteSets

CONSTANTS
  Watchers,     \* WebSocket connections
  Readers,      \* callers of GET /api/runs/{id}
  NodeStates,   \* node statuses the pipeline reports
  MaxChunks,    \* bound: chunks a run emits
  ChanCap,      \* capacity of logChan (100 in the code)
  MaxAtRest,    \* chunks that fit in maxPipelineLogBytes
  MaxCrashes,   \* bound: API process crashes
  DBMayFail     \* TRUE when the UPDATEs of pipeline_runs may fail

ASSUME StreamAssumption ==
  /\ MaxChunks \in Nat
  /\ ChanCap \in Nat \ {0}
  /\ MaxAtRest \in Nat \ {0}
  /\ MaxCrashes \in Nat
  /\ "none" \notin NodeStates
  /\ DBMayFail \in BOOLEAN

VARIABLES
  row,       \* the pipeline_runs row: [status, logs]
  tracked,   \* trackers[runID] exists
  tracker,   \* the RunTracker; goroutines keep their pointer after its removal
  pipe,      \* the request handler, then the pipeline goroutine
  chan,      \* logChan: [buf, open]
  logger,    \* the log goroutine: [pc, msg]
  ws,        \* per watcher: [pc, heard, told, node]
  reader,    \* per reader: [pc, status, logs]
  crashes

vars == <<row, tracked, tracker, pipe, chan, logger, ws, reader, crashes>>

Final     == {"SUCCESS", "FAILED"}
RowStatus == {"PENDING", "RUNNING"} \cup Final
Told      == {"nothing", "none", "CLEANUP"} \cup RowStatus
NodeStatus == {"none"} \cup NodeStates

PipePC == {"none", "inserted", "created", "rowRunning", "trackerRunning",
           "running", "captured", "committed", "trackerFinal", "announced",
           "closed", "dead"}
LoggerPC == {"none", "recv", "append", "lookup", "send", "done"}
WatchPC  == {"off", "dialled", "found", "missed",
             "watching", "served", "left", "closed"}

NoRow     == [status |-> "none", logs |-> <<>>]
NoTracker == [status |-> "PENDING", logs |-> <<>>, node |-> "none",
              clients |-> {}]

NoAnswer  == [pc |-> "idle", status |-> "none", logs |-> <<>>]

\* A mutant: one chunk too many.
M_truncateLogs(logs) ==
  IF Len(logs) <= MaxAtRest
  THEN logs
  ELSE SubSeq(logs, Len(logs) - MaxAtRest, Len(logs))

\* truncateLogs: the last MaxAtRest chunks.
truncateLogs(logs) ==
  IF Len(logs) <= MaxAtRest
  THEN logs
  ELSE SubSeq(logs, Len(logs) - MaxAtRest + 1, Len(logs))

Init ==
  /\ row = NoRow
  /\ tracked = FALSE
  /\ tracker = NoTracker
  /\ pipe = [pc |-> "none", outcome |-> "none", captured |-> <<>>,
             total |-> 0, emitted |-> 0, timer |-> FALSE]
  /\ chan = [buf |-> <<>>, open |-> FALSE]
  /\ logger = [pc |-> "none", msg |-> 0]
  /\ ws = [c \in Watchers |->
             [pc |-> "off", heard |-> <<>>, told |-> "nothing", node |-> "none"]]
  /\ reader = [r \in Readers |-> NoAnswer]
  /\ crashes = 0

-----------------------------------------------------------------------------
(* The broadcasts.  A write to a connection that is no longer open fails,   *)
(* and the broadcast then deletes that client from the tracker.             *)

Reachable == {c \in tracker.clients : ws[c].pc = "watching"}

tellLog(m) ==
  ws' = [c \in Watchers |->
           IF c \in Reachable THEN [ws[c] EXCEPT !.heard = Append(@, m)]
           ELSE ws[c]]

tellStatus(s) ==
  ws' = [c \in Watchers |->
           IF c \in Reachable THEN [ws[c] EXCEPT !.told = s] ELSE ws[c]]

tellNode(s) ==
  ws' = [c \in Watchers |->
           IF c \in Reachable THEN [ws[c] EXCEPT !.node = s] ELSE ws[c]]

\* broadcastToTracker(runID, "status_change", s).  The pipeline goroutine only
\* calls it before the cleanup timer is armed, so its lookup finds the tracker.
broadcastStatus(s) ==
  /\ tellStatus(s)
  /\ tracker' = [tracker EXCEPT !.clients = Reachable]

Goto(from, to) == pipe.pc = from /\ pipe' = [pipe EXCEPT !.pc = to]

WatcherOnly == UNCHANGED <<row, tracked, pipe, chan, logger, reader, crashes>>

-----------------------------------------------------------------------------
(* Mutated definitions: each breaks one property below.                     *)

\* The copy a new watcher catches up on was taken one chunk ago.
M_Attach_Stale(c) ==
  /\ ws[c].pc = "found"
  /\ ws' = [ws EXCEPT ![c] =
              [pc |-> "watching", told |-> tracker.status, node |-> tracker.node,
               heard |-> SubSeq(tracker.logs, 1, Len(tracker.logs) - 1)]]
  /\ tracker' = [tracker EXCEPT !.clients = @ \cup {c}]
  /\ WatcherOnly

\* A new watcher is not replayed the node statuses.
M_Attach_NoReplay(c) ==
  /\ ws[c].pc = "found"
  /\ ws' = [ws EXCEPT ![c] = [pc |-> "watching", heard |-> tracker.logs,
                              told |-> tracker.status, node |-> "none"]]
  /\ tracker' = [tracker EXCEPT !.clients = @ \cup {c}]
  /\ WatcherOnly

\* The outcome is broadcast before it is committed.
M_CaptureLogs ==
  /\ pipe.pc = "running"
  /\ pipe.emitted = pipe.total
  /\ \E s \in Final :
       /\ pipe' = [pipe EXCEPT !.pc = "captured", !.outcome = s,
                               !.captured = truncateLogs(tracker.logs)]
       /\ broadcastStatus(s)
  /\ UNCHANGED <<row, tracked, chan, logger, reader, crashes>>

\* The CLEANUP callback may arrive after the outcome.
M_AnnounceCleanup ==
  /\ pipe.pc \in {"running", "announced"}
  /\ broadcastStatus("CLEANUP")
  /\ UNCHANGED <<row, tracked, pipe, chan, logger, reader, crashes>>

\* The outcome is committed without the log.
M_CommitRow ==
  /\ Goto("captured", "committed")
  /\ \/ row' = [row EXCEPT !.status = pipe.outcome]
     \/ (DBMayFail /\ row' = row)
  /\ UNCHANGED <<tracked, tracker, chan, logger, ws, reader, crashes>>

\* The log goroutine is not started.
M_AnnounceRunning ==
  /\ pipe.pc = "trackerRunning"
  /\ \E n \in 0..MaxChunks :
       pipe' = [pipe EXCEPT !.pc = "running", !.total = n]
  /\ broadcastStatus("RUNNING")
  /\ chan' = [chan EXCEPT !.open = TRUE]
  /\ UNCHANGED <<row, tracked, logger, reader, crashes>>

\* The tracker keeps RUNNING when the run ends.
M_MarkTrackerFinal ==
  /\ Goto("committed", "trackerFinal")
  /\ UNCHANGED <<row, tracked, tracker, chan, logger, ws, reader, crashes>>

\* A missing tracker ends the log goroutine instead of the one broadcast.
M_LogLookup ==
  /\ logger.pc = "lookup"
  /\ logger' = [logger EXCEPT !.pc = IF tracked THEN "send" ELSE "done"]
  /\ UNCHANGED <<row, tracked, tracker, pipe, chan, ws, reader, crashes>>

-----------------------------------------------------------------------------
(* The request handler and the pipeline goroutine.                          *)

\* INSERT ... status 'PENDING', logs ''.
InsertRun ==
  /\ Goto("none", "inserted")
  /\ row' = [status |-> "PENDING", logs |-> <<>>]
  /\ UNCHANGED <<tracked, tracker, chan, logger, ws, reader, crashes>>

\* trackers[runID] = tracker, then the response.
CreateTracker ==
  /\ Goto("inserted", "created")
  /\ tracked' = TRUE
  /\ UNCHANGED <<row, tracker, chan, logger, ws, reader, crashes>>

\* UPDATE ... status = 'RUNNING', its error discarded.
MarkRowRunning ==
  /\ Goto("created", "rowRunning")
  /\ \/ row' = [row EXCEPT !.status = "RUNNING"]
     \/ (DBMayFail /\ row' = row)
  /\ UNCHANGED <<tracked, tracker, chan, logger, ws, reader, crashes>>

MarkTrackerRunning ==
  /\ Goto("rowRunning", "trackerRunning")
  /\ tracker' = [tracker EXCEPT !.status = "RUNNING"]
  /\ UNCHANGED <<row, tracked, chan, logger, ws, reader, crashes>>

\* Broadcast RUNNING, make logChan, start the log goroutine and the pipeline,
\* whose commands will print some number of chunks.
AnnounceRunning ==
  /\ pipe.pc = "trackerRunning"
  /\ \E n \in 0..MaxChunks :
       pipe' = [pipe EXCEPT !.pc = "running", !.total = n]
  /\ broadcastStatus("RUNNING")
  /\ chan' = [chan EXCEPT !.open = TRUE]
  /\ logger' = [logger EXCEPT !.pc = "recv"]
  /\ UNCHANGED <<row, tracked, reader, crashes>>

\* RunPipeline sends one chunk; a full logChan blocks it.
EmitLog ==
  /\ pipe.pc = "running"
  /\ pipe.emitted < pipe.total
  /\ Len(chan.buf) < ChanCap
  /\ pipe' = [pipe EXCEPT !.emitted = @ + 1]
  /\ chan' = [chan EXCEPT !.buf = Append(@, pipe.emitted + 1)]
  /\ UNCHANGED <<row, tracked, tracker, logger, ws, reader, crashes>>

\* broadcastNodeStatus: remembered and sent in one critical section.
EmitNodeStatus ==
  /\ pipe.pc = "running"
  /\ \E s \in NodeStatus \ {"none", tracker.node} :
       /\ tellNode(s)
       /\ tracker' = [tracker EXCEPT !.node = s, !.clients = Reachable]
  /\ UNCHANGED <<row, tracked, pipe, chan, logger, reader, crashes>>

\* onStatusChange("CLEANUP"): broadcast, but tracker.status stays RUNNING.
AnnounceCleanup ==
  /\ pipe.pc = "running"
  /\ broadcastStatus("CLEANUP")
  /\ UNCHANGED <<row, tracked, pipe, chan, logger, reader, crashes>>

\* onComplete, first critical section: read and truncate the tracker's log.  All
\* chunks have been sent to logChan, not all need have reached the tracker.
CaptureLogs ==
  /\ pipe.pc = "running"
  /\ pipe.emitted = pipe.total
  /\ \E s \in Final :
       pipe' = [pipe EXCEPT !.pc = "captured", !.outcome = s,
                            !.captured = truncateLogs(tracker.logs)]
  /\ UNCHANGED <<row, tracked, tracker, chan, logger, ws, reader, crashes>>

\* UPDATE ... status, logs; an error is logged and the run goes on.
CommitRow ==
  /\ Goto("captured", "committed")
  /\ \/ row' = [status |-> pipe.outcome, logs |-> pipe.captured]
     \/ (DBMayFail /\ row' = row)
  /\ UNCHANGED <<tracked, tracker, chan, logger, ws, reader, crashes>>

MarkTrackerFinal ==
  /\ Goto("committed", "trackerFinal")
  /\ tracker' = [tracker EXCEPT !.status = pipe.outcome]
  /\ UNCHANGED <<row, tracked, chan, logger, ws, reader, crashes>>

\* Broadcast the outcome, then arm the two-second cleanup timer.
AnnounceFinal ==
  /\ pipe.pc = "trackerFinal"
  /\ pipe' = [pipe EXCEPT !.pc = "announced", !.timer = TRUE]
  /\ broadcastStatus(pipe.outcome)
  /\ UNCHANGED <<row, tracked, chan, logger, reader, crashes>>

\* RunPipeline returns: its deferred close(logChan).
CloseLog ==
  /\ Goto("announced", "closed")
  /\ chan' = [chan EXCEPT !.open = FALSE]
  /\ UNCHANGED <<row, tracked, tracker, logger, ws, reader, crashes>>

\* The timer fires: close every client, delete the tracker.  The clients map
\* itself is left alone; the read loops empty it.
ExpireTracker ==
  /\ pipe.timer
  /\ pipe' = [pipe EXCEPT !.timer = FALSE]
  /\ tracked' = FALSE
  /\ ws' = [c \in Watchers |->
              IF c \in Reachable THEN [ws[c] EXCEPT !.pc = "closed"] ELSE ws[c]]
  /\ UNCHANGED <<row, tracker, chan, logger, reader, crashes>>

-----------------------------------------------------------------------------
(* The log goroutine: for msg := range logChan.                             *)

LogReceive ==
  /\ logger.pc = "recv"
  /\ chan.buf # <<>>
  /\ logger' = [pc |-> "append", msg |-> Head(chan.buf)]
  /\ chan' = [chan EXCEPT !.buf = Tail(@)]
  /\ UNCHANGED <<row, tracked, tracker, pipe, ws, reader, crashes>>

LogAppend ==
  /\ logger.pc = "append"
  /\ tracker' = [tracker EXCEPT !.logs = Append(@, logger.msg)]
  /\ logger' = [logger EXCEPT !.pc = "lookup"]
  /\ UNCHANGED <<row, tracked, pipe, chan, ws, reader, crashes>>

\* broadcastToTracker looks the tracker up; a removed one ends the broadcast.
LogLookup ==
  /\ logger.pc = "lookup"
  /\ logger' = [logger EXCEPT !.pc = IF tracked THEN "send" ELSE "recv"]
  /\ UNCHANGED <<row, tracked, tracker, pipe, chan, ws, reader, crashes>>

LogSend ==
  /\ logger.pc = "send"
  /\ tellLog(logger.msg)
  /\ tracker' = [tracker EXCEPT !.clients = Reachable]
  /\ logger' = [logger EXCEPT !.pc = "recv"]
  /\ UNCHANGED <<row, tracked, pipe, chan, reader, crashes>>

LogDone ==
  /\ logger.pc = "recv"
  /\ chan.buf = <<>>
  /\ ~chan.open
  /\ logger' = [logger EXCEPT !.pc = "done"]
  /\ UNCHANGED <<row, tracked, tracker, pipe, chan, ws, reader, crashes>>

-----------------------------------------------------------------------------
(* Watchers: handleWebSocket.                                               *)

\* The run's row must exist; access control is the business of another module.
Dial(c) ==
  /\ ws[c].pc = "off"
  /\ row # NoRow
  /\ ws' = [ws EXCEPT ![c].pc = "dialled"]
  /\ tracker' = tracker
  /\ WatcherOnly

LookUpTracker(c) ==
  /\ ws[c].pc = "dialled"
  /\ ws' = [ws EXCEPT ![c].pc = IF tracked THEN "found" ELSE "missed"]
  /\ tracker' = tracker
  /\ WatcherOnly

\* Register and catch up on log, status and node status, all under the lock.
Attach(c) ==
  /\ ws[c].pc = "found"
  /\ ws' = [ws EXCEPT ![c] = [pc |-> "watching", heard |-> tracker.logs,
                              told |-> tracker.status, node |-> tracker.node]]
  /\ tracker' = [tracker EXCEPT !.clients = @ \cup {c}]
  /\ WatcherOnly

\* No tracker: send the row's log and status and hang up.
ServeRow(c) ==
  /\ ws[c].pc = "missed"
  /\ ws' = [ws EXCEPT ![c] = [pc |-> "served", heard |-> row.logs,
                              told |-> row.status, node |-> @.node]]
  /\ tracker' = tracker
  /\ WatcherOnly

\* The browser closes the connection.
Leave(c) ==
  /\ ws[c].pc = "watching"
  /\ ws' = [ws EXCEPT ![c].pc = "left"]
  /\ tracker' = tracker
  /\ WatcherOnly

\* The read loop sees the error and deletes the client.
Reap(c) ==
  /\ ws[c].pc \in {"left", "closed"}
  /\ c \in tracker.clients
  /\ tracker' = [tracker EXCEPT !.clients = @ \ {c}]
  /\ ws' = ws
  /\ WatcherOnly

-----------------------------------------------------------------------------
(* The readers: handleGetRunByID reads the row, then prefers the log of the *)
(* tracker if there is one.                                                 *)

ReaderOnly ==
  UNCHANGED <<row, tracked, tracker, pipe, chan, logger, ws, crashes>>

ReadRow(r) ==
  /\ reader[r].pc = "idle"
  /\ row # NoRow
  /\ reader' = [reader EXCEPT ![r] =
                  [pc |-> "row", status |-> row.status, logs |-> row.logs]]
  /\ ReaderOnly

ReadTracker(r) ==
  /\ reader[r].pc = "row"
  /\ reader' = [reader EXCEPT ![r].pc = "answered",
                              ![r].logs = IF tracked THEN tracker.logs ELSE @]
  /\ ReaderOnly

\* A new request.
ReadAgain(r) ==
  /\ reader[r].pc = "answered"
  /\ reader' = [reader EXCEPT ![r] = NoAnswer]
  /\ ReaderOnly

-----------------------------------------------------------------------------
\* The API process dies and is started again: the row is all that is left, and
\* main() looks at no unfinished run.
Crash ==
  /\ crashes < MaxCrashes
  /\ pipe.pc # "none"
  /\ crashes' = crashes + 1
  /\ tracked' = FALSE
  /\ tracker' = NoTracker
  /\ pipe' = [pipe EXCEPT !.pc = "dead", !.timer = FALSE]
  /\ chan' = [buf |-> <<>>, open |-> FALSE]
  /\ logger' = [pc |-> "none", msg |-> 0]
  /\ ws' = [c \in Watchers |->
              IF ws[c].pc \in {"dialled", "found", "missed", "watching"}
              THEN [ws[c] EXCEPT !.pc = "closed"] ELSE ws[c]]
  /\ reader' = [r \in Readers |-> NoAnswer]
  /\ UNCHANGED row

Pipeline ==
  \/ InsertRun \/ CreateTracker \/ MarkRowRunning \/ MarkTrackerRunning
  \/ AnnounceRunning \/ EmitLog \/ EmitNodeStatus \/ AnnounceCleanup
  \/ CaptureLogs \/ CommitRow \/ MarkTrackerFinal \/ AnnounceFinal \/ CloseLog

Logger == LogReceive \/ LogAppend \/ LogLookup \/ LogSend \/ LogDone

Watcher(c) ==
  \/ Dial(c) \/ LookUpTracker(c) \/ Attach(c) \/ ServeRow(c)
  \/ Leave(c) \/ Reap(c)

Reader(r) == ReadRow(r) \/ ReadTracker(r) \/ ReadAgain(r)

Next ==
  \/ Pipeline
  \/ ExpireTracker
  \/ Logger
  \/ \E c \in Watchers : Watcher(c)
  \/ \E r \in Readers : Reader(r)
  \/ Crash

Spec == Init /\ [][Next]_vars

\* Fairness.  The Go scheduler runs every goroutine that can run; the commands
\* a run spawns are assumed to end (CaptureLogs, and the steps around it).
\* Nothing makes a client dial, leave or read.
Fairness ==
  /\ WF_vars(CreateTracker) /\ WF_vars(MarkRowRunning)
  /\ WF_vars(MarkTrackerRunning) /\ WF_vars(AnnounceRunning)
  /\ WF_vars(EmitLog) /\ WF_vars(CaptureLogs) /\ WF_vars(CommitRow) /\ WF_vars(MarkTrackerFinal)
  /\ WF_vars(AnnounceFinal) /\ WF_vars(CloseLog)
  /\ WF_vars(ExpireTracker)
  /\ WF_vars(Logger)
  /\ \A c \in Watchers : WF_vars(LookUpTracker(c) \/ Attach(c) \/ ServeRow(c))

FairSpec == Spec /\ Fairness
-----------------------------------------------------------------------------
(* Properties.                                                              *)

Chunks == 1..MaxChunks
Stream == Seq(Chunks)

RowType ==
  row \in [status : {"none"} \cup RowStatus, logs : Stream]

TrackerType ==
  /\ tracked \in BOOLEAN
  /\ tracker \in [status : RowStatus, logs : Stream,
                  node : NodeStatus, clients : SUBSET Watchers]

PipeType ==
  pipe \in [pc : PipePC, outcome : {"none"} \cup Final, captured : Stream,
            total : 0..MaxChunks, emitted : 0..MaxChunks, timer : BOOLEAN]

ChanType ==
  /\ chan \in [buf : Stream, open : BOOLEAN]
  /\ Len(chan.buf) <= ChanCap

LoggerType == logger \in [pc : LoggerPC, msg : {0} \cup Chunks]

WatchType ==
  ws \in [Watchers ->
            [pc : WatchPC, heard : Stream, told : Told, node : NodeStatus]]

ReaderType ==
  reader \in [Readers -> [pc : {"idle", "row", "answered"},
                          status : {"none"} \cup RowStatus, logs : Stream]]

TypeOK ==
  /\ RowType /\ TrackerType /\ PipeType /\ ChanType /\ LoggerType
  /\ WatchType /\ ReaderType /\ crashes \in 0..MaxCrashes

Attached(c) == ws[c].pc \in {"watching", "left", "closed"}

\* What an attached watcher has heard starts at the first chunk and never skips
\* one, whenever it attached (handleWebSocket's catch-up and broadcastToTracker
\* together), and repeats at most one chunk: the one that was between the two
\* critical sections of the log goroutine when the watcher registered.
StreamUnbroken ==
  \A c \in Watchers : Attached(c) =>
    LET h == ws[c].heard IN
      /\ h # <<>> => h[1] = 1 /\ Len(h) <= h[Len(h)] + 1
      /\ \A i \in 1..(Len(h) - 1) : h[i + 1] \in {h[i], h[i] + 1}

\* A watcher that was told an outcome was told the one the row holds: the
\* broadcast of SUCCESS or FAILED, and the tracker status a late watcher is
\* sent, never run ahead of the UPDATE (when the database accepts it).
ToldOutcomeIsCommitted ==
  ~DBMayFail =>
    \A c \in Watchers : ws[c].told \in Final => row.status = ws[c].told

\* A registered watcher's node status is the tracker's: remembering a node
\* status, sending it, and replaying it to a new watcher cannot be separated.
NodeViewCurrent ==
  \A c \in Reachable : ws[c].node = tracker.node

\* GET /api/runs/{id} reads the row and the tracker at two moments.  An answer
\* that shows an outcome still carries at least the log stored with it.
OutcomeReadHasLog ==
  \A r \in Readers :
    LET got == reader[r].logs  stored == pipe.captured IN
      (reader[r].pc = "answered" /\ reader[r].status \in Final /\ stored # <<>>)
        => got # <<>> /\ got[Len(got)] >= stored[Len(stored)]

ToldRank(s) ==
  CASE s \in {"nothing", "none"} -> 0
    [] s = "PENDING" -> 1
    [] s = "RUNNING" -> 2
    [] s = "CLEANUP" -> 3
    [] OTHER -> 4

\* On one connection the status only moves forward, although the status a
\* watcher is sent on arrival and the status broadcasts come from different
\* goroutines; an outcome once told is never replaced.
StatusMovesForward ==
  [][\A c \in Watchers :
       /\ ToldRank(ws'[c].told) >= ToldRank(ws[c].told)
       /\ ws[c].told \in Final => ws'[c].told = ws[c].told]_vars

Record == INSTANCE RunRecord
            WITH status <- row.status, log <- row.logs, output <- pipe.emitted

\* The row, written by two UPDATEs far apart, implements RunRecord: also when an
\* UPDATE fails and when the process crashes in between.
RowIsRecord == Record!RecordSpec

\* Every run accepted ends with an outcome in its row, if no UPDATE fails and
\* the process does not crash: a full logChan never blocks it for good.
RunEnds == Record!Terminates

\* A watcher that stays connected is told the outcome, whenever it attached.
WatcherLearnsOutcome ==
  \A c \in Watchers :
    (ws[c].pc = "watching") ~> (ws[c].told \in Final \/ ws[c].pc = "left")

\* The log goroutine ends, and by then the tracker's log has every chunk.
LoggerDrains ==
  (pipe.pc = "closed") ~>
    (logger.pc = "done" /\ Len(tracker.logs) = pipe.emitted)

-----------------------------------------------------------------------------
(* What main.go:31-36 says of the log, and the code does not keep.          *)

\* "only the at-rest copy written at completion is capped, keeping the tail":
\* a finished run's stored log ends with the last chunk of the run.
AtRestKeepsTail ==
  (row.status \in Final /\ pipe.emitted > 0) =>
    (row.logs # <<>> /\ row.logs[Len(row.logs)] = pipe.emitted)
=============================================================================
