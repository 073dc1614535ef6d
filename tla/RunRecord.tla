------------------------------ MODULE RunRecord ------------------------------
(****************************************************************************)
(* What a pipeline_runs row promises to whoever reads it: its status goes   *)
(* PENDING, then possibly RUNNING, then SUCCESS or FAILED for good, and the *)
(* log it is given with its outcome is a window of the run's output, at     *)
(* most MaxAtRest chunks long and not shortened without need.               *)
(* RunStream implements this specification.                                 *)
(****************************************************************************)
EXTENDS Naturals, Sequences

CONSTANT MaxAtRest

VARIABLES
  status,   \* "none" until the row exists
  log,      \* the log stored in the row
  output    \* how many chunks the run has produced so far

rvars == <<status, log, output>>

Outcome == {"SUCCESS", "FAILED"}

\* Chunks a, a+1, ..., b.
Window(a, b) == [i \in 1..(b + 1 - a) |-> a + i - 1]

\* The possible at-rest logs of a run that has produced n chunks: the whole log
\* up to some chunk, or the MaxAtRest chunks that end at it.
AtRestLogs(n) ==
  {Window(1, b) : b \in 0..(IF n < MaxAtRest THEN n ELSE MaxAtRest)}
    \cup {Window(b + 1 - MaxAtRest, b) : b \in MaxAtRest..n}

RecordInit ==
  /\ status = "none"
  /\ log = <<>>
  /\ output = 0

Accept == status = "none" /\ status' = "PENDING" /\ UNCHANGED <<log, output>>

Start == status = "PENDING" /\ status' = "RUNNING" /\ UNCHANGED <<log, output>>

Produce ==
  /\ status \in {"PENDING", "RUNNING"}
  /\ output' = output + 1
  /\ UNCHANGED <<status, log>>

Finish ==
  /\ status \in {"PENDING", "RUNNING"}
  /\ status' \in Outcome
  /\ log' \in AtRestLogs(output)
  /\ UNCHANGED output

RecordNext == Accept \/ Start \/ Produce \/ Finish

RecordSpec == RecordInit /\ [][RecordNext]_rvars

\* An accepted run ends.
Terminates == (status = "PENDING") ~> (status \in Outcome)
=============================================================================
