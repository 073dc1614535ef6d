------------------------ MODULE SpawnCommand_proofs ------------------------
(****************************************************************************)
(* Proofs about SpawnCommand.                                               *)
(*                                                                          *)
(* VerdictIsExit needs the order of the waiter: outputChan is closed only   *)
(* after cmd.Wait() returned, which is after the exit.  LossIsReported      *)
(* needs the books of the lines: what a scanner sent was streamed or is in  *)
(* the caller's hand, and a scanner ends without an error only when its     *)
(* command has printed everything and the scanner has sent it.              *)
(****************************************************************************)
EXTENDS SpawnCommand, TLAPS

\* Nothing has happened on a stream before the command is started, and a
\* scanner that is about to send a line has one.  What a scanner has sent is
\* streamed, or in the caller's hand.
TokenInv ==
  \A s \in Streams :
    /\ caller.pc = "start" => stream[s].printed = 0 /\ stream[s].read = 0 /\ stream[s].sent = 0
    /\ scanner[s] = "send" => stream[s].sent < stream[s].read
    /\ stream[s].sent = streamed[s] + IF caller.pc = "forward" /\ s \in caller.from THEN 1 ELSE 0

HandInv ==
  /\ \A s \in caller.from : caller.from = {s}
  /\ caller.from # {} => caller.pc \in {"forward", "complain"}
  /\ caller.pc = "start" => cmd.pc = "new" /\ waiter = "none"

TypeInv == TypeOK /\ TokenInv /\ HandInv

\* The exit, cmd.Wait(), close(outputChan) and the return, in this order.
OrderInv ==
  /\ cmd.pc = "new" => \/ caller.pc = "start"
                        \/ (caller.pc = "returned" /\ caller.verdict = "error")
  /\ waiter \in {"close", "done"} => cmd.pc = "exited"
  /\ caller.pc = "returned" => cmd.pc = "new" \/ ~OutputOpen
  /\ VerdictIsExit

\* The books of the lines.
BooksInv ==
  /\ \A s \in Streams :
       /\ cmd.pc = "exited" => stream[s].printed = stream[s].total
       /\ scanner[s] = "done" =>
            \/ s \in complained
            \/ (caller.pc = "complain" /\ s \in caller.from)
            \/ (cmd.pc = "exited" /\ stream[s].sent = stream[s].total)
       /\ caller.pc = "start" => scanner[s] = "none"

USE SpawnAssumption DEF None, CallerPC, Lines, PipesOpen, OutputOpen

-----------------------------------------------------------------------------
LEMMA TypeInit == Init => TypeInv
  BY DEF Init, TypeInv, TypeOK, StreamType, StreamOrder, ProcessType, LogType, TokenInv, HandInv

LEMMA TypeNext == TypeInv /\ [Next]_vars => TypeInv'
<1> SUFFICES ASSUME TypeInv, [Next]_vars PROVE TypeInv'
  OBVIOUS
<1> USE DEF TypeInv, TypeOK, StreamType, StreamOrder, ProcessType, LogType, TokenInv, HandInv
<1>1. CASE StartFails
  BY <1>1 DEF StartFails
<1>2. CASE Start
  <2>1. PICK total \in [Streams -> Lines],
             long \in [Streams -> IF LongLines THEN Lines ELSE {None}] :
          stream' = [s \in Streams |-> [total |-> total[s], printed |-> 0, read |-> 0,
                                        sent |-> 0, long |-> long[s]]]
    BY <1>2 DEF Start
  <2>2. \A s \in Streams : total[s] \in Lines /\ long[s] \in Lines
    OBVIOUS
  <2>3. StreamType' /\ StreamOrder'
    BY <2>1, <2>2
  <2>4. ProcessType' /\ LogType'
    <3>1. PICK r \in {"success", "failure"} : cmd' = [pc |-> "running", result |-> r]
      BY <1>2 DEF Start
    <3>2. cmd' \in [pc : {"new", "running", "exited"}, result : {"success", "failure"}]
      BY <3>1
    <3>3. caller' \in [pc : CallerPC, from : SUBSET Streams, verdict : {"none", "nil", "error"}]
      BY <1>2 DEF Start
    <3>4. scanner' \in [Streams -> {"none", "scan", "send", "error", "done"}]
      BY <1>2 DEF Start
    <3> QED
      BY <3>2, <3>3, <3>4, <1>2 DEF Start
  <2>5. \A s \in Streams : /\ stream'[s].printed = 0 /\ stream'[s].read = 0
                           /\ stream'[s].sent = 0 /\ streamed'[s] = 0
                           /\ scanner'[s] = "scan"
    BY <2>1, <1>2 DEF Start
  <2>6. caller.from = {}
    BY <1>2 DEF Start
  <2>7. caller'.pc = "range" /\ caller'.from = {}
    BY <2>6, <1>2 DEF Start
  <2> QED
    BY <2>3, <2>4, <2>5, <2>7
<1>3. CASE Exit
  BY <1>3 DEF Exit
<1>4. CASE Wait
  BY <1>4 DEF Wait
<1>5. CASE CloseOutput
  BY <1>5 DEF CloseOutput
<1>6. CASE RangeEnd
  BY <1>6 DEF RangeEnd
<1>7. ASSUME NEW s \in Streams, PrintLine(s) PROVE TypeInv'
  <2>1. StreamType'
    BY <1>7 DEF PrintLine
  <2>2. \A t \in Streams :
          /\ stream'[t].total = stream[t].total
          /\ stream'[t].read = stream[t].read
          /\ stream'[t].sent = stream[t].sent
          /\ stream'[t].printed = stream[t].printed + IF t = s THEN 1 ELSE 0
    BY <1>7 DEF PrintLine
  <2>3. StreamOrder'
    BY <2>1, <2>2, <1>7 DEF PrintLine
  <2>4. TokenInv'
    <3>1. caller.pc # "start"
      BY <1>7 DEF PrintLine
    <3> QED
      BY <2>2, <3>1, <1>7 DEF PrintLine
  <2> QED
    BY <2>1, <2>3, <2>4, <1>7 DEF PrintLine
<1>8. ASSUME NEW s \in Streams, Scan(s) PROVE TypeInv'
  <2>1. CASE ScanRead(s)
    BY <2>1 DEF ScanRead
  <2>2. CASE ScanLine(s)
    BY <2>2 DEF ScanLine
  <2>3. CASE ScanEOF(s)
    BY <2>3 DEF ScanEOF
  <2>4. CASE ScanError(s)
    BY <2>4 DEF ScanError
  <2>5. CASE SendLine(s)
    <3>1. \A t \in Streams :
            stream'[t] = IF t = s THEN [total |-> stream[t].total, printed |-> stream[t].printed,
                                        read |-> stream[t].read, sent |-> stream[t].sent + 1,
                                        long |-> stream[t].long]
                         ELSE stream[t]
      BY <2>5 DEF SendLine
    <3>2. stream[s].sent < stream[s].read
      BY <2>5 DEF SendLine
    <3>3. StreamType' /\ StreamOrder'
      BY <3>1, <3>2, <2>5 DEF SendLine
    <3>4. TokenInv'
      BY <3>1, <2>5 DEF SendLine
    <3> QED
      BY <3>3, <3>4, <2>5 DEF SendLine
  <2>6. CASE SendError(s)
    BY <2>6 DEF SendError
  <2>7. CASE SendPanics(s)
    BY <2>7 DEF SendPanics
  <2> QED
    BY <1>8, <2>1, <2>2, <2>3, <2>4, <2>5, <2>6, <2>7 DEF Scan
<1>9. ASSUME NEW s \in Streams, Forward(s) PROVE TypeInv'
  <2>1. caller.from = {s} /\ caller'.pc = "range" /\ caller'.from = {}
    BY <1>9 DEF Forward
  <2>2. caller' \in [pc : CallerPC, from : SUBSET Streams, verdict : {"none", "nil", "error"}]
    BY <1>9 DEF Forward
  <2>3. CASE caller.pc = "forward"
    <3>1. streamed' = [streamed EXCEPT ![s] = @ + 1] /\ complained' = complained
      BY <2>3, <1>9 DEF Forward
    <3>2. \A t \in Streams : streamed'[t] = stream[t].sent
      BY <3>1, <2>1, <2>3
    <3>3. streamed' \in [Streams -> Lines]
      BY <3>1, <3>2
    <3> QED
      BY <2>1, <2>2, <3>1, <3>2, <3>3, <1>9 DEF Forward
  <2>4. CASE caller.pc = "complain"
    <3>1. streamed' = streamed /\ complained' = complained \cup {s}
      BY <2>4, <1>9 DEF Forward
    <3> QED
      BY <2>1, <2>2, <2>4, <3>1, <1>9 DEF Forward
  <2> QED
    BY <2>3, <2>4, <1>9 DEF Forward
<1>10. CASE UNCHANGED vars
  BY <1>10 DEF vars
<1> QED
  BY <1>1, <1>2, <1>3, <1>4, <1>5, <1>6, <1>7, <1>8, <1>9, <1>10 DEF Next, Step

-----------------------------------------------------------------------------
LEMMA OrderInit == Init => OrderInv
<1> SUFFICES ASSUME Init PROVE OrderInv
  OBVIOUS
<1>1. /\ cmd.pc = "new" /\ waiter = "none"
      /\ caller.pc = "start" /\ caller.verdict = "none"
  BY DEF Init
<1> QED
  BY <1>1 DEF OrderInv, VerdictIsExit

LEMMA OrderNext == TypeInv /\ OrderInv /\ [Next]_vars => OrderInv'
<1> SUFFICES ASSUME TypeInv, OrderInv, [Next]_vars PROVE OrderInv'
  OBVIOUS
<1> USE DEF TypeInv, TypeOK, ProcessType, HandInv, OrderInv, VerdictIsExit
<1>1. CASE StartFails
  <2>1. /\ caller'.pc = "returned" /\ caller'.verdict = "error"
        /\ cmd'.pc = "new" /\ waiter' = "none"
    BY <1>1 DEF StartFails
  <2> QED
    BY <2>1
<1>2. CASE Start
  BY <1>2 DEF Start
<1>3. CASE Exit
  BY <1>3 DEF Exit
<1>4. CASE Wait
  BY <1>4 DEF Wait
<1>5. CASE CloseOutput
  BY <1>5 DEF CloseOutput
<1>6. CASE RangeEnd
  BY <1>6 DEF RangeEnd
<1>7. ASSUME NEW s \in Streams, PrintLine(s) PROVE OrderInv'
  BY <1>7 DEF PrintLine
<1>8. ASSUME NEW s \in Streams, Scan(s) PROVE OrderInv'
  BY <1>8 DEF Scan, ScanRead, ScanLine, ScanEOF, ScanError, SendLine, SendError, SendPanics
<1>9. ASSUME NEW s \in Streams, Forward(s) PROVE OrderInv'
  BY <1>9 DEF Forward
<1>10. CASE UNCHANGED vars
  BY <1>10 DEF vars
<1> QED
  BY <1>1, <1>2, <1>3, <1>4, <1>5, <1>6, <1>7, <1>8, <1>9, <1>10 DEF Next, Step

-----------------------------------------------------------------------------
LEMMA BooksInit == Init => BooksInv
  BY DEF Init, BooksInv

LEMMA BooksNext == TypeInv /\ OrderInv /\ BooksInv /\ [Next]_vars => BooksInv'
<1> SUFFICES ASSUME TypeInv, OrderInv, BooksInv, [Next]_vars PROVE BooksInv'
  OBVIOUS
<1> USE DEF TypeInv, TypeOK, StreamType, StreamOrder, ProcessType, LogType, TokenInv, HandInv, BooksInv
<1>1. CASE StartFails
  BY <1>1 DEF StartFails, OrderInv
<1>2. CASE Start
  <2>1. \A s \in Streams : stream'[s].sent = stream[s].sent
    BY <1>2 DEF Start
  <2> QED
    BY <2>1, <1>2 DEF Start
<1>3. CASE Exit
  BY <1>3 DEF Exit
<1>4. CASE Wait
  BY <1>4 DEF Wait
<1>5. CASE CloseOutput
  BY <1>5 DEF CloseOutput
<1>6. CASE RangeEnd
  BY <1>6 DEF RangeEnd
<1>7. ASSUME NEW s \in Streams, PrintLine(s) PROVE BooksInv'
  BY <1>7 DEF PrintLine
<1>8. ASSUME NEW s \in Streams, Scan(s) PROVE BooksInv'
  <2>1. CASE ScanRead(s)
    BY <2>1 DEF ScanRead
  <2>2. CASE ScanLine(s)
    BY <2>2 DEF ScanLine
  <2>3. CASE ScanEOF(s)
    BY <2>3 DEF ScanEOF
  <2>4. CASE ScanError(s)
    BY <2>4 DEF ScanError
  <2>5. CASE SendLine(s)
    BY <2>5 DEF SendLine
  <2>6. CASE SendError(s)
    BY <2>6 DEF SendError
  <2>7. CASE SendPanics(s)
    BY <2>7 DEF SendPanics
  <2> QED
    BY <1>8, <2>1, <2>2, <2>3, <2>4, <2>5, <2>6, <2>7 DEF Scan
<1>9. ASSUME NEW s \in Streams, Forward(s) PROVE BooksInv'
  BY <1>9 DEF Forward
<1>10. CASE UNCHANGED vars
  BY <1>10 DEF vars
<1> QED
  BY <1>1, <1>2, <1>3, <1>4, <1>5, <1>6, <1>7, <1>8, <1>9, <1>10 DEF Next, Step

-----------------------------------------------------------------------------
\* Type correctness: every variable of spawnCommand's processes keeps its type,
\* and no line is read before it is printed or sent before it is read.
THEOREM TypeCorrect == Spec => []TypeOK
<1>1. TypeInv => TypeOK
  BY DEF TypeInv
<1> QED
  BY TypeInit, TypeNext, <1>1, PTL DEF Spec

\* spawnCommand returns nil exactly when its command was started, has exited and
\* succeeded, however its goroutines interleave.
THEOREM VerdictCorrect == Spec => []VerdictIsExit
<1>1. Init => TypeInv /\ OrderInv
  BY TypeInit, OrderInit
<1>2. TypeInv /\ OrderInv /\ [Next]_vars => (TypeInv /\ OrderInv)'
  BY TypeNext, OrderNext
<1>3. OrderInv => VerdictIsExit
  BY DEF OrderInv
<1> QED
  BY <1>1, <1>2, <1>3, PTL DEF Spec

\* A line that is missing from the log when spawnCommand has returned and the
\* scanner has ended is not missing silently.
THEOREM LossReported == Spec => []LossIsReported
<1> DEFINE IInv == TypeInv /\ OrderInv /\ BooksInv
<1>1. Init => IInv
  BY TypeInit, OrderInit, BooksInit
<1>2. IInv /\ [Next]_vars => IInv'
  BY TypeNext, OrderNext, BooksNext
<1>3. IInv => LossIsReported
  BY DEF LossIsReported, BooksInv, TypeInv, TokenInv, HandInv, TypeOK, StreamType, LogType
<1> QED
  BY <1>1, <1>2, <1>3, PTL DEF Spec
=============================================================================
