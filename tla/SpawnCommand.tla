---------------------------- MODULE SpawnCommand ----------------------------
(****************************************************************************)
(* spawnCommand (src/apps/api/runner/runner.go): run one command and send   *)
(* each line it prints to logChan.                                          *)
(*                                                                          *)
(* Five processes take part: the command itself; a scanner goroutine for    *)
(* each of its two output streams; the waiter, a goroutine that runs        *)
(* cmd.Wait() and closes outputChan; and the caller, which ranges over      *)
(* outputChan and forwards each line.  outputChan is unbuffered.            *)
(*                                                                          *)
(* cmd.Wait() closes the reading end of both pipes as soon as the command   *)
(* has exited, whatever the scanners have read by then.  bufio.Scanner      *)
(* gives up on a line longer than its buffer.                               *)
(*                                                                          *)
(* A stream is three counters: printed lines entered the pipe, read lines   *)
(* left it for the scanner's buffer, and sent lines were received by the    *)
(* caller.                                                                  *)
(****************************************************************************)
EXTENDS Naturals

CONSTANTS
  Streams,   \* the output streams: stdout and stderr
  MaxLines,  \* bound: lines the command prints on a stream
  PipeCap,   \* lines that fit in a pipe
  LongLines  \* TRUE when a line may be longer than bufio.MaxScanTokenSize

ASSUME SpawnAssumption ==
  /\ MaxLines \in Nat
  /\ PipeCap \in Nat \ {0}
  /\ LongLines \in BOOLEAN

VARIABLES
  cmd,       \* the command: [pc, result], result is how it exits
  stream,    \* per stream: [total, printed, read, sent, long]
  scanner,   \* per stream: its goroutine's pc
  waiter,    \* the goroutine that waits, then closes outputChan
  caller,    \* [pc, from, verdict]: from holds the stream of the line in hand
  streamed,  \* per stream: lines sent to logChan
  complained,\* the streams for which "failed to scan" was sent to logChan
  api        \* "up", or "panicked" when a goroutine sent on the closed outputChan

vars == <<cmd, stream, scanner, waiter, caller, streamed, complained, api>>

None == 0  \* stream.long: every line fits

\* What cmd.Wait() and close(outputChan) leave open.
PipesOpen  == waiter \notin {"close", "done"}
OutputOpen == waiter # "done"

Init ==
  /\ cmd = [pc |-> "new", result |-> "failure"]
  /\ stream = [s \in Streams |-> [total |-> 0, printed |-> 0, read |-> 0,
                                  sent |-> 0, long |-> None]]
  /\ scanner = [s \in Streams |-> "none"]
  /\ waiter = "none"
  /\ caller = [pc |-> "start", from |-> {}, verdict |-> "none"]
  /\ streamed = [s \in Streams |-> 0]
  /\ complained = {}
  /\ api = "up"

-----------------------------------------------------------------------------
(* Mutated definitions: each breaks one property below.                     *)

\* A closed pipe ends the scanner without a word.
M_ScanError(s) ==
  /\ scanner[s] = "scan"
  /\ stream[s].sent = stream[s].read
  /\ ~PipesOpen
  /\ scanner' = [scanner EXCEPT ![s] = "done"]
  /\ UNCHANGED <<cmd, stream, waiter, caller, streamed, complained, api>>

\* The caller stops when both scanners are done and does not wait for the exit.
M_RangeEnd ==
  /\ caller.pc = "range"
  /\ \A s \in Streams : scanner[s] = "done"
  /\ caller' = [pc |-> "returned", from |-> {}, verdict |->
                IF ~PipesOpen /\ cmd.result = "failure" THEN "error" ELSE "nil"]
  /\ UNCHANGED <<cmd, stream, scanner, waiter, streamed, complained, api>>

\* The waiter returns and leaves outputChan open.
M_CloseOutput ==
  /\ waiter = "close"
  /\ waiter' = "gone"
  /\ UNCHANGED <<cmd, stream, scanner, caller, streamed, complained, api>>

-----------------------------------------------------------------------------
(* The caller and the command.                                              *)

\* StdoutPipe, StderrPipe or cmd.Start fails: nothing else is started.
StartFails ==
  /\ caller.pc = "start"
  /\ caller' = [pc |-> "returned", from |-> {}, verdict |-> "error"]
  /\ UNCHANGED <<cmd, stream, scanner, waiter, streamed, complained, api>>

\* The command runs and will print some number of lines on each stream.
Start ==
  /\ caller.pc = "start"
  /\ \E r \in {"success", "failure"} : cmd' = [pc |-> "running", result |-> r]
  /\ \E total \in [Streams -> 0..MaxLines] :
     \E long \in [Streams -> IF LongLines THEN 0..MaxLines ELSE {None}] :
       stream' = [s \in Streams |-> [total |-> total[s], printed |-> 0, read |-> 0,
                                      sent |-> 0, long |-> long[s]]]
  /\ scanner' = [s \in Streams |-> "scan"]
  /\ waiter' = "wait"
  /\ caller' = [caller EXCEPT !.pc = "range"]
  /\ UNCHANGED <<streamed, complained, api>>

\* The command prints; a full pipe blocks it.
PrintLine(s) ==
  /\ cmd.pc = "running"
  /\ stream[s].printed < stream[s].total
  /\ stream[s].printed - stream[s].read < PipeCap
  /\ stream' = [stream EXCEPT ![s].printed = @ + 1]
  /\ UNCHANGED <<cmd, scanner, waiter, caller, streamed, complained, api>>

Exit ==
  /\ cmd.pc = "running"
  /\ \A s \in Streams : stream[s].printed = stream[s].total
  /\ cmd' = [cmd EXCEPT !.pc = "exited"]
  /\ UNCHANGED <<stream, scanner, waiter, caller, streamed, complained, api>>

-----------------------------------------------------------------------------
(* The scanners.                                                            *)

\* The buffer is empty: read what is in the pipe, or part of it.
ScanRead(s) ==
  /\ scanner[s] = "scan"
  /\ stream[s].sent = stream[s].read
  /\ PipesOpen
  /\ \E n \in (stream[s].read + 1)..stream[s].printed :
       stream' = [stream EXCEPT ![s].read = n]
  /\ UNCHANGED <<cmd, scanner, waiter, caller, streamed, complained, api>>

\* The next line: a token to send, or too long for a token.
ScanLine(s) ==
  /\ scanner[s] = "scan"
  /\ stream[s].sent < stream[s].read
  /\ scanner' = [scanner EXCEPT
                   ![s] = IF stream[s].sent + 1 = stream[s].long THEN "error" ELSE "send"]
  /\ UNCHANGED <<cmd, stream, waiter, caller, streamed, complained, api>>

\* End of file is no error.
ScanEOF(s) ==
  /\ scanner[s] = "scan"
  /\ cmd.pc = "exited"
  /\ PipesOpen
  /\ stream[s].read = stream[s].printed
  /\ stream[s].sent = stream[s].read
  /\ scanner' = [scanner EXCEPT ![s] = "done"]
  /\ UNCHANGED <<cmd, stream, waiter, caller, streamed, complained, api>>

\* The waiter has closed the pipe under the scanner: os.ErrClosed.
ScanError(s) ==
  /\ scanner[s] = "scan"
  /\ stream[s].sent = stream[s].read
  /\ ~PipesOpen
  /\ scanner' = [scanner EXCEPT ![s] = "error"]
  /\ UNCHANGED <<cmd, stream, waiter, caller, streamed, complained, api>>

\* outputChan is unbuffered: the scanner's send is the caller's receive.
SendLine(s) ==
  /\ scanner[s] = "send"
  /\ OutputOpen /\ caller.pc = "range"
  /\ stream' = [stream EXCEPT ![s].sent = @ + 1]
  /\ scanner' = [scanner EXCEPT ![s] = "scan"]
  /\ caller' = [caller EXCEPT !.pc = "forward", !.from = {s}]
  /\ UNCHANGED <<cmd, waiter, streamed, complained, api>>

SendError(s) ==
  /\ scanner[s] = "error"
  /\ OutputOpen /\ caller.pc = "range"
  /\ scanner' = [scanner EXCEPT ![s] = "done"]
  /\ caller' = [caller EXCEPT !.pc = "complain", !.from = {s}]
  /\ UNCHANGED <<cmd, stream, waiter, streamed, complained, api>>

\* A send on a closed channel panics, also one that was already blocked, and
\* nothing recovers it.
SendPanics(s) ==
  /\ scanner[s] \in {"send", "error"}
  /\ ~OutputOpen
  /\ api' = "panicked"
  /\ UNCHANGED <<cmd, stream, scanner, waiter, caller, streamed, complained>>

-----------------------------------------------------------------------------
(* The waiter, and the caller's loop.                                       *)

\* cmd.Wait() returns and has closed the pipes.
Wait ==
  /\ waiter = "wait"
  /\ cmd.pc = "exited"
  /\ waiter' = "close"
  /\ UNCHANGED <<cmd, stream, scanner, caller, streamed, complained, api>>

CloseOutput ==
  /\ waiter = "close"
  /\ waiter' = "done"
  /\ UNCHANGED <<cmd, stream, scanner, caller, streamed, complained, api>>

\* logChan <- line: whatever drains logChan makes room in the end.
Forward(s) ==
  /\ s \in caller.from
  /\ \/ /\ caller.pc = "forward"
        /\ streamed' = [streamed EXCEPT ![s] = @ + 1]
        /\ complained' = complained
     \/ /\ caller.pc = "complain"
        /\ complained' = complained \cup {s}
        /\ streamed' = streamed
  /\ caller' = [caller EXCEPT !.pc = "range", !.from = {}]
  /\ UNCHANGED <<cmd, stream, scanner, waiter, api>>

\* outputChan is closed: return the exit status.  cmd.ProcessState is nil, and
\* the result too, until cmd.Wait() has returned.
RangeEnd ==
  /\ caller.pc = "range"
  /\ ~OutputOpen
  /\ caller' = [pc |-> "returned", from |-> {}, verdict |->
                IF ~PipesOpen /\ cmd.result = "failure" THEN "error" ELSE "nil"]
  /\ UNCHANGED <<cmd, stream, scanner, waiter, streamed, complained, api>>

Scan(s) ==
  \/ ScanRead(s) \/ ScanLine(s) \/ ScanEOF(s) \/ ScanError(s)
  \/ SendLine(s) \/ SendError(s) \/ SendPanics(s)

Step ==
  \/ StartFails \/ Start \/ Exit \/ Wait \/ CloseOutput \/ RangeEnd
  \/ \E s \in Streams : PrintLine(s) \/ Scan(s) \/ Forward(s)

\* A panic takes every goroutine of the process with it.
Next == api = "up" /\ Step

Spec == Init /\ [][Next]_vars

\* Fairness.  Every goroutine that can run does, and a command that is not
\* blocked on a full pipe prints what it has to print and exits.
Fairness ==
  /\ WF_vars(api = "up" /\ (Start \/ StartFails))
  /\ WF_vars(api = "up" /\ Exit) /\ WF_vars(api = "up" /\ Wait)
  /\ WF_vars(api = "up" /\ CloseOutput)
  /\ \A s \in Streams :
       /\ WF_vars(api = "up" /\ PrintLine(s))
       /\ WF_vars(api = "up" /\ (ScanRead(s) \/ ScanLine(s) \/ ScanEOF(s) \/ ScanError(s)))
       /\ WF_vars(api = "up" /\ SendPanics(s))
       /\ WF_vars(api = "up" /\ Forward(s))
       /\ WF_vars(api = "up" /\ (SendLine(s) \/ SendError(s)))
  /\ WF_vars(api = "up" /\ RangeEnd)

FairSpec == Spec /\ Fairness

-----------------------------------------------------------------------------
(* Properties.                                                              *)

CallerPC == {"start", "range", "forward", "complain", "returned"}

Lines == 0..MaxLines

StreamType ==
  stream \in [Streams -> [total : Lines, printed : Lines, read : Lines,
                          sent : Lines, long : Lines]]

StreamOrder ==
  \A s \in Streams : /\ stream[s].sent <= stream[s].read
                     /\ stream[s].read <= stream[s].printed
                     /\ stream[s].printed <= stream[s].total

ProcessType ==
  /\ cmd \in [pc : {"new", "running", "exited"}, result : {"success", "failure"}]
  /\ scanner \in [Streams -> {"none", "scan", "send", "error", "done"}]
  /\ waiter \in {"none", "wait", "close", "done"}
  /\ caller \in [pc : CallerPC, from : SUBSET Streams, verdict : {"none", "nil", "error"}]
  /\ api \in {"up", "panicked"}

LogType ==
  /\ streamed \in [Streams -> Lines]
  /\ complained \subseteq Streams

TypeOK == StreamType /\ StreamOrder /\ ProcessType /\ LogType

\* RunPipeline goes by the result of spawnCommand alone.  It is nil exactly when
\* the command was started, has exited and succeeded: never because the exit
\* status was looked at too early, although another goroutine waits for it.
VerdictIsExit ==
  caller.pc = "returned" =>
    (caller.verdict = "nil" <=> (cmd.pc = "exited" /\ cmd.result = "success"))

\* When the scanner has ended and spawnCommand has returned, a line that is
\* missing from the log is not missing silently: the log says that scanning
\* failed, or the process is gone.
LossIsReported ==
  (caller.pc = "returned" /\ api = "up") =>
    \A s \in Streams : scanner[s] = "done" =>
      streamed[s] = stream[s].total \/ s \in complained

\* A line the scanner cannot take is among those the command prints.
TooLong == \E s \in Streams : stream[s].long \in 1..stream[s].total

Ended ==
  /\ caller.pc = "returned"
  /\ \A s \in Streams : scanner[s] \in {"none", "done"}

\* spawnCommand returns once its command has nothing more to print, and leaves
\* no scanner behind, unless a line is too long for the scanner or the process
\* has panicked: the small pipe and the unbuffered channel block nobody for good.
CommandEnds == <>(Ended \/ TooLong \/ api = "panicked")

\* "scans output line-by-line, and streams it with timestamps to logChan": when
\* spawnCommand returns, every line the command printed has been sent on.
OutputIsStreamed ==
  (caller.pc = "returned" /\ cmd.pc = "exited") =>
    \A s \in Streams : streamed[s] = stream[s].total
=============================================================================
