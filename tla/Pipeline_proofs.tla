--------------------------- MODULE Pipeline_proofs ---------------------------
(* What Pipeline's runs check of one run's node statuses, proved for any     *)
(* finite canvas, any number of runs in the run directory, any number of     *)
(* progress lines and any capacity of the relay channel.                     *)
EXTENDS Pipeline, FiniteSetTheorems, TLAPS

USE DEF Phases

-----------------------------------------------------------------------------
(* Type correctness.                                                        *)

\* Statuses that a slice of the canvas is given are typed.
LEMMA EmitTyped ==
  ASSUME TypeOK, NEW r \in Runs, NEW ns, NEW s \in NodeStatus, emitSliceStatus(r, ns, s)
  PROVE  status' \in [Runs -> [Nodes -> NodeStatus]]
BY DEF TypeOK, emitSliceStatus

\* Moving to a place of the program and ending keep pc and outcome typed.
LEMMA GotoTyped ==
  ASSUME TypeOK, NEW r \in Runs, NEW from, NEW to \in PC, Goto(r, from, to)
  PROVE  pc' \in [Runs -> PC]
BY DEF TypeOK, Goto

LEMMA CompleteTyped ==
  ASSUME TypeOK, NEW r \in Runs, NEW from, NEW s \in {"SUCCESS", "FAILED"}, Complete(r, from, s)
  PROVE  /\ pc' \in [Runs -> PC]
         /\ outcome' \in [Runs -> {"none", "SUCCESS", "FAILED"}]
<1>1. Before("done") \in PC
  BY DEF Before, PC
<1> QED
  BY <1>1, GotoTyped DEF Complete, TypeOK

LEMMA Places ==
  /\ \A p \in Phases : Before(p) \in PC /\ Running(p) \in PC /\ Exited(p, "ok") \in PC
                         /\ Exited(p, "failed") \in PC /\ Before(NextPhase[p]) \in PC
  /\ Before("start") \in PC /\ Before("files") \in PC /\ Before("source") \in PC
  /\ Before("done") \in PC /\ Before("cleanup") \in PC
BY DEF Before, Running, Exited, PC, NextPhase

\* What a command finds in the run directory was written by somebody.
LEMMA ReadyTyped ==
  ASSUME TypeOK, PipelineAssumption, NEW r \in Runs, NEW p \in Phases, Ready(r, p)
  PROVE  disk[File[p]] \in Runs \cup {Earlier} /\ File[p] \in Files
BY DEF TypeOK, Ready, File, Files, PipelineAssumption

\* A run's canvas is made of nodes.
LEMMA CanvasTyped ==
  ASSUME TypeOK, PipelineAssumption, NEW r \in Runs
  PROVE  run[r].nodes \subseteq Nodes
<1>1. run[r] \in Parameters \/ run[r] = NoRun
  BY DEF TypeOK
<1>2. CASE run[r] \in Parameters
  <2>1. run[r].nodes \in Canvases \cup {{}}
    BY <1>2 DEF Parameters
  <2> QED
    BY <2>1 DEF PipelineAssumption
<1>3. CASE run[r] = NoRun
  BY <1>3 DEF NoRun
<1> QED
  BY <1>1, <1>2, <1>3

LEMMA InitTyped == ASSUME PipelineAssumption, Init PROVE TypeOK
<1>1. NoRun \in Parameters \cup {NoRun}
  OBVIOUS
<1>2. [at |-> "new", cmd |-> "none"] \in PC
  BY DEF PC
<1>3. [chan |-> <<>>, printed |-> 0, task |-> 0] \in [chan : Seq(ProgressLine), printed : 0..MaxReports, task : Nat]
  BY DEF PipelineAssumption
<1>4. Len(<<>>) <= RelayCap
  BY DEF PipelineAssumption
<1>5. disk \in [Files \cup {"app"} -> Runs \cup {Nobody, Earlier}]
  BY DEF Init
<1> QED
  BY <1>1, <1>2, <1>3, <1>4, <1>5 DEF Init, TypeOK, NodeStatus

\* A run's parameters stay typed when a file is crossed off.
LEMMA FileTyped ==
  ASSUME TypeOK, NEW r \in Runs, NEW f \in run[r].files, run' = [run EXCEPT ![r].files = @ \ {f}]
  PROVE  run' \in [Runs -> Parameters \cup {NoRun}] /\ f \in Files
<1>1. run[r] \in Parameters
  BY DEF TypeOK, NoRun
<1>2. [run[r] EXCEPT !.files = run[r].files \ {f}] \in Parameters /\ f \in Files
  BY <1>1 DEF Parameters
<1>3. run' = [run EXCEPT ![r] = [run[r] EXCEPT !.files = run[r].files \ {f}]]
  BY DEF TypeOK
<1> QED
  BY <1>2, <1>3 DEF TypeOK

RelayState == [chan : Seq(ProgressLine), printed : 0..MaxReports, task : Nat]

\* The relay's channel stays typed when a line is added or taken.
LEMMA QueuedTyped ==
  ASSUME PipelineAssumption, NEW l \in RelayState, NEW m \in ProgressLine,
         l.printed < MaxReports, Len(l.chan) < RelayCap
  PROVE  Queued(l, m) \in RelayState /\ Len(Queued(l, m).chan) <= RelayCap
<1>1. Append(l.chan, m) \in Seq(ProgressLine) /\ Len(Append(l.chan, m)) = Len(l.chan) + 1
  BY DEF RelayState
<1>2. l.printed + 1 \in 0..MaxReports
  BY DEF RelayState, PipelineAssumption
<1>3. Len(l.chan) \in Nat
  BY DEF RelayState
<1> QED
  BY <1>1, <1>2, <1>3 DEF Queued, RelayState, PipelineAssumption

LEMMA ReceivedTyped ==
  ASSUME PipelineAssumption, NEW l \in RelayState, l.chan # <<>>, Len(l.chan) <= RelayCap, NEW t \in Nat
  PROVE  Received(l, t) \in RelayState /\ Len(Received(l, t).chan) <= RelayCap
<1>1. Tail(l.chan) \in Seq(ProgressLine) /\ Len(Tail(l.chan)) = Len(l.chan) - 1
  BY DEF RelayState
<1>2. Len(l.chan) \in Nat
  BY DEF RelayState
<1> QED
  BY <1>1, <1>2 DEF Received, RelayState, PipelineAssumption

\* What is at the head of the channel: a task, or a node and its new status.
LEMMA HeadTyped ==
  ASSUME TypeOK, NEW r \in Runs, relay[r].chan # <<>>
  PROVE  /\ Head(relay[r].chan) \in ProgressLine
         /\ Head(relay[r].chan).status # "TASK" =>
              /\ Head(relay[r].chan).node \in Nodes
              /\ Head(relay[r].chan).status \in NodeStatus
<1>1. relay[r].chan \in Seq(ProgressLine)
  BY DEF TypeOK
<1>2. Head(relay[r].chan) \in ProgressLine
  BY <1>1
<1> QED
  BY <1>2 DEF ProgressLine, Task, NodeStatus

\* A new relay goroutine.
LEMMA FreshRelay ==
  ASSUME PipelineAssumption
  PROVE  /\ [chan |-> <<>>, printed |-> 0, task |-> 0]
               \in [chan : Seq(ProgressLine), printed : 0..MaxReports, task : Nat]
         /\ Len(<<>>) <= RelayCap
BY DEF PipelineAssumption

LEMMA StepTyped == ASSUME PipelineAssumption, TypeOK, [Next]_vars PROVE TypeOK'
<1> USE Places
<1>1. CASE UNCHANGED vars
  BY <1>1 DEF vars, TypeOK
<1>2. ASSUME NEW r \in Runs, Start(r) PROVE TypeOK'
  <2>1. run' \in [Runs -> Parameters \cup {NoRun}]
    BY <1>2 DEF Start, TypeOK, Requests
  <2>2. pc' \in [Runs -> PC]
    BY <1>2, GotoTyped DEF Start
  <2> QED
    BY <1>2, <2>1, <2>2 DEF Start, TypeOK
<1>3. ASSUME NEW r \in Runs, Report(r) PROVE TypeOK'
  <2>1. PICK m \in Lines(r) :
          relay' = [relay EXCEPT ![r] = Queued(@, m)]
    BY <1>3 DEF Report
  <2>2. m \in ProgressLine
    <3>1. NodesOf(r, "Terraform") \subseteq Nodes
      BY CanvasTyped DEF NodesOf
    <3> QED
      BY <3>1 DEF Lines, ProgressLine
  <2> QED
    BY <1>3, <2>1, <2>2, QueuedTyped DEF Report, TypeOK, RelayState
<1>4. ASSUME NEW r \in Runs, RelayNode(r) PROVE TypeOK'
  <2>1. status' \in [Runs -> [Nodes -> NodeStatus]]
    BY <1>4, HeadTyped DEF RelayNode, TypeOK
  <2>2. relay[r].task \in Nat
    BY DEF TypeOK
  <2> QED
    BY <1>4, <2>1, <2>2, ReceivedTyped DEF RelayNode, TypeOK, RelayState
<1>5. ASSUME NEW r \in Runs, RelayTask(r) PROVE TypeOK'
  <2>1. status' \in [Runs -> [Nodes -> NodeStatus]]
    BY <1>5 DEF RelayTask, TypeOK, NodeStatus
  <2>2. relay[r].task + 1 \in Nat
    BY DEF TypeOK
  <2> QED
    BY <1>5, <2>1, <2>2, ReceivedTyped DEF RelayTask, TypeOK, RelayState
<1>6. ASSUME NEW r \in Runs, ReportPending(r) PROVE TypeOK'
  BY <1>6, GotoTyped DEF ReportPending, TypeOK, NodeStatus
<1>7. ASSUME NEW r \in Runs, WriteFile(r) PROVE TypeOK'
  <2>1. PICK f \in run[r].files : /\ disk' = [disk EXCEPT ![f] = r]
                                  /\ run' = [run EXCEPT ![r].files = @ \ {f}]
    BY <1>7 DEF WriteFile
  <2>2. run' \in [Runs -> Parameters \cup {NoRun}] /\ f \in Files
    BY <2>1, FileTyped
  <2> QED
    BY <1>7, <2>1, <2>2 DEF WriteFile, TypeOK
<1>8. ASSUME NEW r \in Runs, WriteFails(r) PROVE TypeOK'
  BY <1>8, CompleteTyped DEF WriteFails, TypeOK
<1>9. ASSUME NEW r \in Runs, Plan(r) PROVE TypeOK'
  <2>1. /\ pc' \in [Runs -> PC] /\ outcome' \in [Runs -> {"none", "SUCCESS", "FAILED"}]
    BY <1>9, CompleteTyped DEF Plan
  <2>2. used' \in [Runs -> SUBSET (Runs \cup {Earlier})]
    <3>1. CASE Ready(r, "Terraform")
      <4>1. disk["main.tf"] \in Runs \cup {Earlier}
        BY <3>1, ReadyTyped DEF File
      <4> QED
        BY <1>9, <3>1, <4>1, used' = [used EXCEPT ![r] = @ \cup {disk["main.tf"]}]
          DEF Plan, TypeOK
    <3>2. CASE ~Ready(r, "Terraform")
      BY <1>9, <3>2 DEF Plan, TypeOK
    <3> QED
      BY <3>1, <3>2
  <2> QED
    BY <1>9, <2>1, <2>2 DEF Plan, TypeOK
<1>10. ASSUME NEW r \in Runs, FilesWritten(r) PROVE TypeOK'
  <2>1. status' \in [Runs -> [Nodes -> NodeStatus]]
    BY <1>10, EmitTyped DEF FilesWritten, NodeStatus
  <2>2. disk' \in [Files \cup {"app"} -> Runs \cup {Nobody, Earlier}]
    BY <1>10 DEF FilesWritten, TypeOK
  <2> QED
    BY <1>10, <2>1, <2>2, GotoTyped DEF FilesWritten, TypeOK
<1>11. ASSUME NEW r \in Runs, Clone(r) PROVE TypeOK'
  <2>1. status' \in [Runs -> [Nodes -> NodeStatus]]
    BY <1>11, EmitTyped DEF Clone, NodeStatus
  <2>2. disk' \in [Files \cup {"app"} -> Runs \cup {Nobody, Earlier}]
    BY <1>11 DEF Clone, TypeOK
  <2>3. /\ pc' \in [Runs -> PC] /\ outcome' \in [Runs -> {"none", "SUCCESS", "FAILED"}]
    BY <1>11, GotoTyped, CompleteTyped DEF Clone, TypeOK
  <2> QED
    BY <1>11, <2>1, <2>2, <2>3 DEF Clone, TypeOK
<1>12. ASSUME NEW r \in Runs, NothingToClone(r) PROVE TypeOK'
  BY <1>12, GotoTyped DEF NothingToClone, TypeOK
<1>13. ASSUME NEW r \in Runs, NEW p \in Phases, SkipPhase(r, p) PROVE TypeOK'
  <2>1. status' \in [Runs -> [Nodes -> NodeStatus]]
    BY <1>13, EmitTyped DEF SkipPhase, NodeStatus
  <2> QED
    BY <1>13, <2>1, GotoTyped DEF SkipPhase, TypeOK
<1>14. ASSUME NEW r \in Runs, NEW p \in Phases, PrepareFails(r, p) PROVE TypeOK'
  <2>1. status' \in [Runs -> [Nodes -> NodeStatus]]
    BY <1>14, EmitTyped DEF PrepareFails, NodeStatus
  <2>2. used' \in [Runs -> SUBSET (Runs \cup {Earlier})]
    BY <1>14, ReadyTyped DEF PrepareFails, TypeOK, File
  <2> QED
    BY <1>14, <2>1, <2>2, CompleteTyped DEF PrepareFails, TypeOK
<1>15. ASSUME NEW r \in Runs, NEW p \in Phases, BeginPhase(r, p) PROVE TypeOK'
  <2>1. status' \in [Runs -> [Nodes -> NodeStatus]]
    BY <1>15, EmitTyped DEF BeginPhase, NodeStatus, TypeOK
  <2>2. used' \in [Runs -> SUBSET (Runs \cup {Earlier})]
    <3>1. disk[File[p]] \in Runs \cup {Earlier}
      BY <1>15, ReadyTyped DEF BeginPhase
    <3>2. disk["app"] # Nobody => disk["app"] \in Runs \cup {Earlier}
      BY DEF TypeOK
    <3> QED
      BY <1>15, <3>1, <3>2 DEF BeginPhase, TypeOK
  <2>3. /\ relay' \in [Runs -> [chan : Seq(ProgressLine), printed : 0..MaxReports, task : Nat]]
        /\ \A q \in Runs : Len(relay'[q].chan) <= RelayCap
    BY <1>15, FreshRelay DEF BeginPhase, TypeOK
  <2> QED
    BY <1>15, <2>1, <2>2, <2>3, GotoTyped DEF BeginPhase, TypeOK
<1>16. ASSUME NEW r \in Runs, NEW p \in Phases, CommandExits(r, p) PROVE TypeOK'
  BY <1>16, GotoTyped DEF CommandExits, TypeOK
<1>17. ASSUME NEW r \in Runs, NEW p \in Phases, PhaseSucceeds(r, p) PROVE TypeOK'
  <2>1. status' \in [Runs -> [Nodes -> NodeStatus]]
    BY <1>17, EmitTyped DEF PhaseSucceeds, NodeStatus
  <2> QED
    BY <1>17, <2>1, GotoTyped DEF PhaseSucceeds, TypeOK
<1>18. ASSUME NEW r \in Runs, NEW p \in Phases, PhaseFails(r, p) PROVE TypeOK'
  <2>1. status' \in [Runs -> [Nodes -> NodeStatus]]
    BY <1>18, EmitTyped DEF PhaseFails, NodeStatus
  <2> QED
    BY <1>18, <2>1, CompleteTyped DEF PhaseFails, TypeOK
<1>19. ASSUME NEW r \in Runs, CleanUp(r) PROVE TypeOK'
  <2>1. used' \in [Runs -> SUBSET (Runs \cup {Earlier})]
    BY <1>19, ReadyTyped DEF CleanUp, TypeOK, File
  <2> QED
    BY <1>19, <2>1, CompleteTyped DEF CleanUp, TypeOK
<1>20. ASSUME NEW r \in Runs, StartDestroy(r) PROVE TypeOK'
  <2>1. status' \in [Runs -> [Nodes -> NodeStatus]]
    BY <1>20 DEF StartDestroy, TypeOK, NodeStatus
  <2>2. used' \in [Runs -> SUBSET (Runs \cup {Earlier})]
    BY <1>20, ReadyTyped DEF StartDestroy, TypeOK, File
  <2>3. pc' \in [Runs -> PC]
    BY <1>20, GotoTyped DEF StartDestroy
  <2> QED
    BY <1>20, <2>1, <2>2, <2>3 DEF StartDestroy, TypeOK
<1>21. ASSUME NEW r \in Runs, DestroySucceeds(r) PROVE TypeOK'
  <2>1. status' \in [Runs -> [Nodes -> NodeStatus]]
    BY <1>21, EmitTyped DEF DestroySucceeds, NodeStatus
  <2> QED
    BY <1>21, <2>1, CompleteTyped DEF DestroySucceeds, TypeOK
<1> QED
  BY <1>1, <1>2, <1>3, <1>4, <1>5, <1>6, <1>7, <1>8, <1>9, <1>10, <1>11, <1>12, <1>13, <1>14,
     <1>15, <1>16, <1>17, <1>18, <1>19, <1>20, <1>21 DEF Next, RunPipeline, Phase, Relay

\* Parameters, places, statuses, channels, outcomes and the run directory are typed
\* throughout (RunPipeline).
THEOREM Typing == Spec => []TypeOK
<1>1. Init => TypeOK
  BY InitTyped, PipelineAssumption
<1>2. TypeOK /\ [Next]_vars => TypeOK'
  BY StepTyped, PipelineAssumption
<1> QED
  BY <1>1, <1>2, PTL DEF Spec
-----------------------------------------------------------------------------
(* What the steps have in common.                                           *)

LEMMA EmitSlice ==
  ASSUME TypeOK, NEW r \in Runs, NEW ns, NEW s, emitSliceStatus(r, ns, s)
  PROVE  \A q \in Runs : \A n \in Nodes :
           status'[q][n] = IF q = r /\ n \in ns THEN s ELSE status[q][n]
BY DEF TypeOK, emitSliceStatus

LEMMA Going ==
  ASSUME TypeOK, NEW r \in Runs, NEW from, NEW to, Goto(r, from, to)
  PROVE  pc[r] = from /\ \A q \in Runs : pc'[q] = IF q = r THEN to ELSE pc[q]
BY DEF TypeOK, Goto

LEMMA Completing ==
  ASSUME TypeOK, NEW r \in Runs, NEW from, NEW s, Complete(r, from, s)
  PROVE  /\ pc[r] = from
         /\ \A q \in Runs : pc'[q] = IF q = r THEN Before("done") ELSE pc[q]
         /\ \A q \in Runs : outcome'[q] = IF q = r THEN s ELSE outcome[q]
BY Going DEF TypeOK, Complete

LEMMA Beginning ==
  ASSUME TypeOK, NEW r \in Runs, NEW p \in Phases, BeginPhase(r, p)
  PROVE  \A q \in Runs : \A n \in Nodes :
           status'[q][n] = IF q = r /\ p = "Kubernetes" /\ n \in NodesOf(r, p)
                           THEN "running" ELSE status[q][n]
<1>1. CASE p = "Kubernetes"
  BY <1>1, EmitSlice DEF BeginPhase
<1>2. CASE p # "Kubernetes"
  BY <1>2 DEF BeginPhase
<1> QED
  BY <1>1, <1>2

\* Writing a file changes no run's canvas and no action.
LEMMA Writing ==
  ASSUME TypeOK, NEW r \in Runs, WriteFile(r)
  PROVE  \A q \in Runs : run'[q].nodes = run[q].nodes /\ run'[q].action = run[q].action
<1>1. \A q \in Runs : run[q] \in Parameters \/ run[q] = NoRun
  BY DEF TypeOK
<1> QED
  BY <1>1 DEF WriteFile, TypeOK, Parameters, NoRun

-----------------------------------------------------------------------------
(* The inductive invariant.                                                 *)

\* A command belongs to a phase, an outcome to a run that has ended, and a run that
\* has not begun has reported nothing.
PlaceInv ==
  \A r \in Runs :
    /\ pc[r].cmd # "none" => pc[r].at \in Phases
    /\ outcome[r] # "none" => pc[r].at = "done"
    /\ pc[r].at \in {"new", "start"} => \A n \in Nodes : status[r][n] = "none"

\* The lines a phase's command can have printed.
Printable(r) ==
  IF pc[r].at = "Terraform"
  THEN [node : NodesOf(r, "Terraform"), status : {"running", "completed"}]
  ELSE IF pc[r].at = "Ansible" THEN {Task} ELSE {}

\* The relay's channel holds lines of the phase's own command, and none when there
\* is no command.
RelayInv ==
  \A r \in Runs : /\ relay[r].chan \in Seq(Printable(r))
                  /\ pc[r].cmd = "none" => relay[r].chan = <<>>

\* A node that runs belongs to the step the run is at.
RunningOK(r) ==
  \A n \in Nodes : status[r][n] = "running" =>
    /\ n \in run[r].nodes
    /\ \/ Tech[n] = "Source" /\ pc[r] = Before("source")
       \/ Tech[n] \in Phases /\ pc[r].at = Tech[n] /\ pc[r].cmd # "none"

RunningInv == \A r \in Runs : RunningOK(r)

\* The Ansible node that runs is the one whose task was announced last.
TaskOK(r) ==
  \A n \in NodesOf(r, "Ansible") :
    status[r][n] = "running" => Position(r, n) = relay[r].task

TaskInv == \A r \in Runs : TaskOK(r)

\* The steps behind a deploy have completed their nodes.
Behind(at) ==
  CASE at = "source" -> {"Target"}
    [] at = "files" -> {"Target"}
    [] at = "Terraform" -> {"Target", "Source"}
    [] at = "Ansible" -> {"Target", "Source", "Terraform"}
    [] at = "Kubernetes" -> {"Target", "Source", "Terraform", "Ansible"}
    [] at = "cleanup" -> {"Target", "Source"} \cup Phases
    [] OTHER -> {}

DoneOK(r) ==
  run[r].action = "deploy" => \A n \in run[r].nodes :
    /\ Tech[n] \in Behind(pc[r].at) => status[r][n] = "completed"
    /\ pc[r].at = "source" /\ Tech[n] = "Source" => status[r][n] \in {"running", "completed"}
    /\ outcome[r] = "SUCCESS" /\ Tech[n] # "Other" => status[r][n] = "completed"

DoneInv == \A r \in Runs : DoneOK(r)

\* What belongs to a command, an outcome or a beginning still does.
LEMMA PlaceKept ==
  ASSUME PipelineAssumption, TypeOK, PlaceInv, RelayInv, [Next]_vars
  PROVE  PlaceInv'
<1>1. CASE UNCHANGED vars
  BY <1>1 DEF vars, PlaceInv, NodesOf, Position, Printable
<1>2. ASSUME NEW r \in Runs, Start(r) PROVE PlaceInv'
  BY <1>2, EmitSlice, Going, Completing
    DEF Start, Before, Running, Exited, NextPhase, PlaceInv
<1>3. ASSUME NEW r \in Runs, Report(r) PROVE PlaceInv'
  BY <1>3, EmitSlice, Going, Completing
    DEF Report, Before, Running, Exited, NextPhase, PlaceInv
<1>4. ASSUME NEW r \in Runs, RelayNode(r) PROVE PlaceInv'
  BY <1>4 DEF RelayNode, PlaceInv, RelayInv, TypeOK
<1>5. ASSUME NEW r \in Runs, RelayTask(r) PROVE PlaceInv'
  BY <1>5 DEF RelayTask, PlaceInv, RelayInv, TypeOK
<1>6. ASSUME NEW r \in Runs, ReportPending(r) PROVE PlaceInv'
  BY <1>6, Going DEF ReportPending, PlaceInv, TypeOK, Before
<1>7. ASSUME NEW r \in Runs, WriteFile(r) PROVE PlaceInv'
  BY <1>7, EmitSlice, Going, Completing
    DEF WriteFile, Before, Running, Exited, NextPhase, PlaceInv
<1>8. ASSUME NEW r \in Runs, WriteFails(r) PROVE PlaceInv'
  BY <1>8, EmitSlice, Going, Completing
    DEF WriteFails, Before, Running, Exited, NextPhase, PlaceInv
<1>9. ASSUME NEW r \in Runs, Plan(r) PROVE PlaceInv'
  BY <1>9, EmitSlice, Going, Completing
    DEF Plan, Before, Running, Exited, NextPhase, PlaceInv
<1>10. ASSUME NEW r \in Runs, FilesWritten(r) PROVE PlaceInv'
  BY <1>10, EmitSlice, Going, Completing
    DEF FilesWritten, Before, Running, Exited, NextPhase, PlaceInv
<1>11. ASSUME NEW r \in Runs, Clone(r) PROVE PlaceInv'
  BY <1>11, EmitSlice, Going, Completing
    DEF Clone, Before, Running, Exited, NextPhase, PlaceInv
<1>12. ASSUME NEW r \in Runs, NothingToClone(r) PROVE PlaceInv'
  BY <1>12, EmitSlice, Going, Completing
    DEF NothingToClone, Before, Running, Exited, NextPhase, PlaceInv
<1>13. ASSUME NEW r \in Runs, NEW p \in Phases, SkipPhase(r, p) PROVE PlaceInv'
  BY <1>13, EmitSlice, Going, Completing
    DEF SkipPhase, Before, Running, Exited, NextPhase, PlaceInv
<1>14. ASSUME NEW r \in Runs, NEW p \in Phases, PrepareFails(r, p) PROVE PlaceInv'
  BY <1>14, EmitSlice, Going, Completing
    DEF PrepareFails, Before, Running, Exited, NextPhase, PlaceInv
<1>15. ASSUME NEW r \in Runs, NEW p \in Phases, BeginPhase(r, p) PROVE PlaceInv'
  <2>1. Goto(r, Before(p), Running(p)) /\ outcome' = outcome
    BY <1>15 DEF BeginPhase
  <2>2. pc[r] = Before(p) /\ \A q \in Runs : pc'[q] = IF q = r THEN Running(p) ELSE pc[q]
    BY <2>1, Going
  <2>3. \A q \in Runs \ {r} : status'[q] = status[q]
    BY <1>15 DEF BeginPhase, emitSliceStatus, TypeOK
  <2> QED
    BY <2>1, <2>2, <2>3 DEF Before, Running, PlaceInv
<1>16. ASSUME NEW r \in Runs, NEW p \in Phases, CommandExits(r, p) PROVE PlaceInv'
  BY <1>16, EmitSlice, Going, Completing
    DEF CommandExits, Before, Running, Exited, NextPhase, PlaceInv
<1>17. ASSUME NEW r \in Runs, NEW p \in Phases, PhaseSucceeds(r, p) PROVE PlaceInv'
  BY <1>17, EmitSlice, Going, Completing
    DEF PhaseSucceeds, Before, Running, Exited, NextPhase, PlaceInv
<1>18. ASSUME NEW r \in Runs, NEW p \in Phases, PhaseFails(r, p) PROVE PlaceInv'
  BY <1>18, EmitSlice, Going, Completing
    DEF PhaseFails, Before, Running, Exited, NextPhase, PlaceInv
<1>19. ASSUME NEW r \in Runs, CleanUp(r) PROVE PlaceInv'
  BY <1>19, EmitSlice, Going, Completing
    DEF CleanUp, Before, Running, Exited, NextPhase, PlaceInv
<1>20. ASSUME NEW r \in Runs, StartDestroy(r) PROVE PlaceInv'
  BY <1>20, Going DEF StartDestroy, PlaceInv, TypeOK, Before, Running
<1>21. ASSUME NEW r \in Runs, DestroySucceeds(r) PROVE PlaceInv'
  BY <1>21, EmitSlice, Going, Completing
    DEF DestroySucceeds, Before, Running, Exited, NextPhase, PlaceInv
<1> QED
  BY <1>1, <1>2, <1>3, <1>4, <1>5, <1>6, <1>7, <1>8, <1>9, <1>10, <1>11, <1>12, <1>13,
     <1>14, <1>15, <1>16, <1>17, <1>18, <1>19, <1>20, <1>21 DEF Next, RunPipeline, Phase, Relay

\* A run whose channel is empty, and the others untouched.
LEMMA Quiet ==
  ASSUME RelayInv, NEW r \in Runs, relay'[r].chan = <<>>,
         \A q \in Runs \ {r} : /\ relay'[q] = relay[q] /\ pc'[q] = pc[q]
                               /\ run'[q].nodes = run[q].nodes
  PROVE  RelayInv'
<1>1. \A q \in Runs \ {r} : Printable(q)' = Printable(q)
  BY DEF Printable, NodesOf
<1>2. \A q \in Runs \ {r} : /\ relay'[q].chan \in Seq(Printable(q)')
                            /\ pc'[q].cmd = "none" => relay'[q].chan = <<>>
  BY <1>1 DEF RelayInv
<1>3. relay'[r].chan \in Seq(Printable(r)')
  OBVIOUS
<1> QED
  BY <1>2, <1>3 DEF RelayInv

\* The relay's channel holds lines of the phase at hand.
LEMMA RelayKept ==
  ASSUME PipelineAssumption, TypeOK, PlaceInv, RelayInv, [Next]_vars
  PROVE  RelayInv'
<1>1. CASE UNCHANGED vars
  BY <1>1 DEF vars, RelayInv, NodesOf, Position, Printable
<1>2. ASSUME NEW r \in Runs, Start(r) PROVE RelayInv'
  <2>1. relay'[r].chan = <<>>
    BY <1>2, Going, Completing DEF Start, Before, Exited, RelayInv, TypeOK
  <2>2. \A q \in Runs \ {r} : /\ relay'[q] = relay[q] /\ pc'[q] = pc[q]
                              /\ run'[q].nodes = run[q].nodes
    BY <1>2, Going, Completing DEF Start, TypeOK
  <2> QED
    BY <2>1, <2>2, Quiet
<1>3. ASSUME NEW r \in Runs, Report(r) PROVE RelayInv'
  <2>1. PICK m \in Lines(r) : relay' = [relay EXCEPT ![r] = Queued(@, m)]
    BY <1>3 DEF Report
  <2>2. \A q \in Runs : Printable(q)' = Printable(q)
    BY <1>3 DEF Report, Printable, NodesOf
  <2>3. m \in Printable(r) /\ pc[r].cmd # "none"
    BY DEF Lines, Printable, Running
  <2>4. relay'[r].chan \in Seq(Printable(r))
    BY <2>1, <2>3 DEF TypeOK, RelayInv, Queued
  <2> QED
    BY <1>3, <2>1, <2>2, <2>3, <2>4 DEF Report, TypeOK, RelayInv
<1>4. ASSUME NEW r \in Runs, RelayNode(r) PROVE RelayInv'
  <2>1. \A q \in Runs : Printable(q)' = Printable(q)
    BY <1>4 DEF RelayNode, Printable, NodesOf
  <2>2. relay'[r].chan \in Seq(Printable(r)) /\ pc[r].cmd # "none"
    BY <1>4 DEF RelayNode, TypeOK, RelayInv, Received
  <2> QED
    BY <1>4, <2>1, <2>2 DEF RelayNode, TypeOK, RelayInv
<1>5. ASSUME NEW r \in Runs, RelayTask(r) PROVE RelayInv'
  <2>1. \A q \in Runs : Printable(q)' = Printable(q)
    BY <1>5 DEF RelayTask, Printable, NodesOf
  <2>2. relay'[r].chan \in Seq(Printable(r)) /\ pc[r].cmd # "none"
    BY <1>5 DEF RelayTask, TypeOK, RelayInv, Received
  <2> QED
    BY <1>5, <2>1, <2>2 DEF RelayTask, TypeOK, RelayInv
<1>6. ASSUME NEW r \in Runs, ReportPending(r) PROVE RelayInv'
  <2>1. relay'[r].chan = <<>>
    BY <1>6, Going, Completing DEF ReportPending, Before, Exited, RelayInv, TypeOK
  <2>2. \A q \in Runs \ {r} : /\ relay'[q] = relay[q] /\ pc'[q] = pc[q]
                              /\ run'[q].nodes = run[q].nodes
    BY <1>6, Going, Completing DEF ReportPending, TypeOK
  <2> QED
    BY <2>1, <2>2, Quiet
<1>7. ASSUME NEW r \in Runs, WriteFile(r) PROVE RelayInv'
  <2>1. \A q \in Runs : Printable(q)' = Printable(q)
    BY <1>7, Writing DEF WriteFile, Printable, NodesOf
  <2> QED
    BY <1>7, <2>1 DEF WriteFile, RelayInv
<1>8. ASSUME NEW r \in Runs, WriteFails(r) PROVE RelayInv'
  <2>1. relay'[r].chan = <<>>
    BY <1>8, Going, Completing DEF WriteFails, Before, Exited, RelayInv, TypeOK
  <2>2. \A q \in Runs \ {r} : /\ relay'[q] = relay[q] /\ pc'[q] = pc[q]
                              /\ run'[q].nodes = run[q].nodes
    BY <1>8, Going, Completing DEF WriteFails, TypeOK
  <2> QED
    BY <2>1, <2>2, Quiet
<1>9. ASSUME NEW r \in Runs, Plan(r) PROVE RelayInv'
  <2>1. relay'[r].chan = <<>>
    BY <1>9, Going, Completing DEF Plan, Before, Exited, RelayInv, TypeOK
  <2>2. \A q \in Runs \ {r} : /\ relay'[q] = relay[q] /\ pc'[q] = pc[q]
                              /\ run'[q].nodes = run[q].nodes
    BY <1>9, Going, Completing DEF Plan, TypeOK
  <2> QED
    BY <2>1, <2>2, Quiet
<1>10. ASSUME NEW r \in Runs, FilesWritten(r) PROVE RelayInv'
  <2>1. relay'[r].chan = <<>>
    BY <1>10, Going, Completing DEF FilesWritten, Before, Exited, RelayInv, TypeOK
  <2>2. \A q \in Runs \ {r} : /\ relay'[q] = relay[q] /\ pc'[q] = pc[q]
                              /\ run'[q].nodes = run[q].nodes
    BY <1>10, Going, Completing DEF FilesWritten, TypeOK
  <2> QED
    BY <2>1, <2>2, Quiet
<1>11. ASSUME NEW r \in Runs, Clone(r) PROVE RelayInv'
  <2>1. relay'[r].chan = <<>>
    BY <1>11, Going, Completing DEF Clone, Before, Exited, RelayInv, TypeOK
  <2>2. \A q \in Runs \ {r} : /\ relay'[q] = relay[q] /\ pc'[q] = pc[q]
                              /\ run'[q].nodes = run[q].nodes
    BY <1>11, Going, Completing DEF Clone, TypeOK
  <2> QED
    BY <2>1, <2>2, Quiet
<1>12. ASSUME NEW r \in Runs, NothingToClone(r) PROVE RelayInv'
  <2>1. relay'[r].chan = <<>>
    BY <1>12, Going, Completing DEF NothingToClone, Before, Exited, RelayInv, TypeOK
  <2>2. \A q \in Runs \ {r} : /\ relay'[q] = relay[q] /\ pc'[q] = pc[q]
                              /\ run'[q].nodes = run[q].nodes
    BY <1>12, Going, Completing DEF NothingToClone, TypeOK
  <2> QED
    BY <2>1, <2>2, Quiet
<1>13. ASSUME NEW r \in Runs, NEW p \in Phases, SkipPhase(r, p) PROVE RelayInv'
  <2>1. relay'[r].chan = <<>>
    BY <1>13, Going, Completing DEF SkipPhase, Before, Exited, RelayInv, TypeOK
  <2>2. \A q \in Runs \ {r} : /\ relay'[q] = relay[q] /\ pc'[q] = pc[q]
                              /\ run'[q].nodes = run[q].nodes
    BY <1>13, Going, Completing DEF SkipPhase, TypeOK
  <2> QED
    BY <2>1, <2>2, Quiet
<1>14. ASSUME NEW r \in Runs, NEW p \in Phases, PrepareFails(r, p) PROVE RelayInv'
  <2>1. relay'[r].chan = <<>>
    BY <1>14, Going, Completing DEF PrepareFails, Before, Exited, RelayInv, TypeOK
  <2>2. \A q \in Runs \ {r} : /\ relay'[q] = relay[q] /\ pc'[q] = pc[q]
                              /\ run'[q].nodes = run[q].nodes
    BY <1>14, Going, Completing DEF PrepareFails, TypeOK
  <2> QED
    BY <2>1, <2>2, Quiet
<1>15. ASSUME NEW r \in Runs, NEW p \in Phases, BeginPhase(r, p) PROVE RelayInv'
  <2>1. relay'[r].chan = <<>>
    BY <1>15, Going, Completing DEF BeginPhase, Before, Exited, RelayInv, TypeOK
  <2>2. \A q \in Runs \ {r} : /\ relay'[q] = relay[q] /\ pc'[q] = pc[q]
                              /\ run'[q].nodes = run[q].nodes
    BY <1>15, Going, Completing DEF BeginPhase, TypeOK
  <2> QED
    BY <2>1, <2>2, Quiet
<1>16. ASSUME NEW r \in Runs, NEW p \in Phases, CommandExits(r, p) PROVE RelayInv'
  <2>1. \A q \in Runs : pc'[q].at = pc[q].at /\ (pc'[q].cmd = "none" => pc[q].cmd = "none")
    BY <1>16, Going DEF CommandExits, Running, Exited
  <2>2. \A q \in Runs : Printable(q)' = Printable(q)
    BY <1>16, <2>1 DEF CommandExits, Printable, NodesOf
  <2> QED
    BY <1>16, <2>1, <2>2 DEF CommandExits, RelayInv
<1>17. ASSUME NEW r \in Runs, NEW p \in Phases, PhaseSucceeds(r, p) PROVE RelayInv'
  <2>1. relay'[r].chan = <<>>
    BY <1>17, Going, Completing DEF PhaseSucceeds, Before, Exited, RelayInv, TypeOK
  <2>2. \A q \in Runs \ {r} : /\ relay'[q] = relay[q] /\ pc'[q] = pc[q]
                              /\ run'[q].nodes = run[q].nodes
    BY <1>17, Going, Completing DEF PhaseSucceeds, TypeOK
  <2> QED
    BY <2>1, <2>2, Quiet
<1>18. ASSUME NEW r \in Runs, NEW p \in Phases, PhaseFails(r, p) PROVE RelayInv'
  <2>1. relay'[r].chan = <<>>
    BY <1>18, Going, Completing DEF PhaseFails, Before, Exited, RelayInv, TypeOK
  <2>2. \A q \in Runs \ {r} : /\ relay'[q] = relay[q] /\ pc'[q] = pc[q]
                              /\ run'[q].nodes = run[q].nodes
    BY <1>18, Going, Completing DEF PhaseFails, TypeOK
  <2> QED
    BY <2>1, <2>2, Quiet
<1>19. ASSUME NEW r \in Runs, CleanUp(r) PROVE RelayInv'
  <2>1. relay'[r].chan = <<>>
    BY <1>19, Going, Completing DEF CleanUp, Before, Exited, RelayInv, TypeOK
  <2>2. \A q \in Runs \ {r} : /\ relay'[q] = relay[q] /\ pc'[q] = pc[q]
                              /\ run'[q].nodes = run[q].nodes
    BY <1>19, Going, Completing DEF CleanUp, TypeOK
  <2> QED
    BY <2>1, <2>2, Quiet
<1>20. ASSUME NEW r \in Runs, StartDestroy(r) PROVE RelayInv'
  <2>1. relay'[r].chan = <<>>
    BY <1>20, Going, Completing DEF StartDestroy, Before, Exited, RelayInv, TypeOK
  <2>2. \A q \in Runs \ {r} : /\ relay'[q] = relay[q] /\ pc'[q] = pc[q]
                              /\ run'[q].nodes = run[q].nodes
    BY <1>20, Going, Completing DEF StartDestroy, TypeOK
  <2> QED
    BY <2>1, <2>2, Quiet
<1>21. ASSUME NEW r \in Runs, DestroySucceeds(r) PROVE RelayInv'
  <2>1. relay'[r].chan = <<>>
    BY <1>21, Going, Completing DEF DestroySucceeds, Before, Exited, RelayInv, TypeOK
  <2>2. \A q \in Runs \ {r} : /\ relay'[q] = relay[q] /\ pc'[q] = pc[q]
                              /\ run'[q].nodes = run[q].nodes
    BY <1>21, Going, Completing DEF DestroySucceeds, TypeOK
  <2> QED
    BY <2>1, <2>2, Quiet
<1> QED
  BY <1>1, <1>2, <1>3, <1>4, <1>5, <1>6, <1>7, <1>8, <1>9, <1>10, <1>11, <1>12, <1>13,
     <1>14, <1>15, <1>16, <1>17, <1>18, <1>19, <1>20, <1>21 DEF Next, RunPipeline, Phase, Relay

-----------------------------------------------------------------------------
(* A step of one run.                                                       *)

Step(r) == Start(r) \/ RunPipeline(r) \/ Report(r) \/ Relay(r)

OthersStay(r) ==
  \A q \in Runs \ {r} :
    /\ run'[q] = run[q] /\ pc'[q] = pc[q] /\ status'[q] = status[q]
    /\ relay'[q] = relay[q] /\ outcome'[q] = outcome[q]

\* A step of one run leaves what the others have reported and are at.
LEMMA Others ==
  ASSUME TypeOK, NEW r \in Runs, Step(r)
  PROVE  OthersStay(r)
<1>1. ASSUME Start(r) PROVE OthersStay(r)
  BY <1>1 DEF Start, Goto, Complete, emitSliceStatus, OthersStay, TypeOK
<1>2. ASSUME Report(r) PROVE OthersStay(r)
  BY <1>2 DEF Report, Goto, Complete, emitSliceStatus, OthersStay, TypeOK
<1>3. ASSUME RelayNode(r) PROVE OthersStay(r)
  BY <1>3 DEF RelayNode, Goto, Complete, emitSliceStatus, OthersStay, TypeOK
<1>4. ASSUME RelayTask(r) PROVE OthersStay(r)
  BY <1>4 DEF RelayTask, Goto, Complete, emitSliceStatus, OthersStay, TypeOK
<1>5. ASSUME ReportPending(r) PROVE OthersStay(r)
  BY <1>5 DEF ReportPending, Goto, Complete, emitSliceStatus, OthersStay, TypeOK
<1>6. ASSUME WriteFile(r) PROVE OthersStay(r)
  BY <1>6 DEF WriteFile, Goto, Complete, emitSliceStatus, OthersStay, TypeOK
<1>7. ASSUME WriteFails(r) PROVE OthersStay(r)
  BY <1>7 DEF WriteFails, Goto, Complete, emitSliceStatus, OthersStay, TypeOK
<1>8. ASSUME Plan(r) PROVE OthersStay(r)
  BY <1>8 DEF Plan, Goto, Complete, emitSliceStatus, OthersStay, TypeOK
<1>9. ASSUME FilesWritten(r) PROVE OthersStay(r)
  BY <1>9 DEF FilesWritten, Goto, Complete, emitSliceStatus, OthersStay, TypeOK
<1>10. ASSUME Clone(r) PROVE OthersStay(r)
  BY <1>10 DEF Clone, Goto, Complete, emitSliceStatus, OthersStay, TypeOK
<1>11. ASSUME NothingToClone(r) PROVE OthersStay(r)
  BY <1>11 DEF NothingToClone, Goto, Complete, emitSliceStatus, OthersStay, TypeOK
<1>12. ASSUME NEW p \in Phases, SkipPhase(r, p) PROVE OthersStay(r)
  BY <1>12 DEF SkipPhase, Goto, Complete, emitSliceStatus, OthersStay, TypeOK
<1>13. ASSUME NEW p \in Phases, PrepareFails(r, p) PROVE OthersStay(r)
  BY <1>13 DEF PrepareFails, Goto, Complete, emitSliceStatus, OthersStay, TypeOK
<1>14. ASSUME NEW p \in Phases, BeginPhase(r, p) PROVE OthersStay(r)
  BY <1>14 DEF BeginPhase, Goto, Complete, emitSliceStatus, OthersStay, TypeOK
<1>15. ASSUME NEW p \in Phases, CommandExits(r, p) PROVE OthersStay(r)
  BY <1>15 DEF CommandExits, Goto, Complete, emitSliceStatus, OthersStay, TypeOK
<1>16. ASSUME NEW p \in Phases, PhaseSucceeds(r, p) PROVE OthersStay(r)
  BY <1>16 DEF PhaseSucceeds, Goto, Complete, emitSliceStatus, OthersStay, TypeOK
<1>17. ASSUME NEW p \in Phases, PhaseFails(r, p) PROVE OthersStay(r)
  BY <1>17 DEF PhaseFails, Goto, Complete, emitSliceStatus, OthersStay, TypeOK
<1>18. ASSUME CleanUp(r) PROVE OthersStay(r)
  BY <1>18 DEF CleanUp, Goto, Complete, emitSliceStatus, OthersStay, TypeOK
<1>19. ASSUME StartDestroy(r) PROVE OthersStay(r)
  BY <1>19 DEF StartDestroy, Goto, Complete, emitSliceStatus, OthersStay, TypeOK
<1>20. ASSUME DestroySucceeds(r) PROVE OthersStay(r)
  BY <1>20 DEF DestroySucceeds, Goto, Complete, emitSliceStatus, OthersStay, TypeOK
<1> QED
  BY <1>1, <1>2, <1>3, <1>4, <1>5, <1>6, <1>7, <1>8, <1>9, <1>10, <1>11, <1>12, <1>13,
     <1>14, <1>15, <1>16, <1>17, <1>18, <1>19, <1>20 DEF Step, RunPipeline, Phase, Relay

\* What the relay takes is of the phase at hand, whose command has been started.
LEMMA HeadPrintable ==
  ASSUME PlaceInv, RelayInv, NEW r \in Runs, relay[r].chan # <<>>
  PROVE  /\ pc[r].cmd # "none"
         /\ Head(relay[r].chan).status = "TASK" => pc[r].at = "Ansible"
         /\ Head(relay[r].chan).status # "TASK" =>
              /\ pc[r].at = "Terraform"
              /\ Head(relay[r].chan).node \in NodesOf(r, "Terraform")
<1>1. Head(relay[r].chan) \in Printable(r) /\ pc[r].cmd # "none"
  BY DEF RelayInv
<1>2. CASE pc[r].at = "Terraform"
  <2>1. Head(relay[r].chan) \in [node : NodesOf(r, "Terraform"), status : {"running", "completed"}]
    BY <1>1, <1>2 DEF Printable
  <2> QED
    BY <1>1, <1>2, <2>1
<1>3. CASE pc[r].at = "Ansible"
  BY <1>1, <1>3 DEF Printable, Task
<1>4. CASE pc[r].at \notin {"Terraform", "Ansible"}
  BY <1>1, <1>4 DEF Printable
<1> QED
  BY <1>2, <1>3, <1>4

\* A run's nodes run only at their own step.
LEMMA RunningOwn ==
  ASSUME PipelineAssumption, TypeOK, PlaceInv, RelayInv, RunningInv, NEW r \in Runs, Step(r)
  PROVE  RunningOK(r)'
<1>1. ASSUME Start(r) PROVE RunningOK(r)'
  BY <1>1, Going DEF Start, Before, RunningInv, RunningOK
<1>2. ASSUME Report(r) PROVE RunningOK(r)'
  BY <1>2 DEF Report, RunningInv, RunningOK
<1>3. ASSUME RelayNode(r) PROVE RunningOK(r)'
  <2>1. /\ pc[r].at = "Terraform" /\ pc[r].cmd # "none"
        /\ Head(relay[r].chan).node \in NodesOf(r, "Terraform")
    BY <1>3, HeadPrintable DEF RelayNode
  <2> QED
    BY <1>3, <2>1 DEF RelayNode, NodesOf, RunningInv, RunningOK, TypeOK
<1>4. ASSUME RelayTask(r) PROVE RunningOK(r)'
  <2>1. /\ pc[r].at = "Ansible" /\ pc[r].cmd # "none"
    BY <1>4, HeadPrintable DEF RelayTask
  <2> QED
    BY <1>4, <2>1 DEF RelayTask, NodesOf, RunningInv, RunningOK, TypeOK
<1>5. ASSUME ReportPending(r) PROVE RunningOK(r)'
  BY <1>5 DEF ReportPending, RunningOK, TypeOK
<1>6. ASSUME WriteFile(r) PROVE RunningOK(r)'
  BY <1>6, Writing DEF WriteFile, RunningInv, RunningOK
<1>7. ASSUME WriteFails(r) PROVE RunningOK(r)'
  BY <1>7, EmitSlice, Going, Completing
    DEF WriteFails, Before, Running, Exited, NextPhase, NodesOf, RunningInv, RunningOK
<1>8. ASSUME Plan(r) PROVE RunningOK(r)'
  BY <1>8, EmitSlice, Going, Completing
    DEF Plan, Before, Running, Exited, NextPhase, NodesOf, RunningInv, RunningOK
<1>9. ASSUME FilesWritten(r) PROVE RunningOK(r)'
  BY <1>9, EmitSlice, Going, Completing
    DEF FilesWritten, Before, Running, Exited, NextPhase, NodesOf, RunningInv, RunningOK
<1>10. ASSUME Clone(r) PROVE RunningOK(r)'
  BY <1>10, EmitSlice, Going, Completing
    DEF Clone, Before, Running, Exited, NextPhase, NodesOf, RunningInv, RunningOK
<1>11. ASSUME NothingToClone(r) PROVE RunningOK(r)'
  BY <1>11, EmitSlice, Going, Completing
    DEF NothingToClone, Before, Running, Exited, NextPhase, NodesOf, RunningInv, RunningOK
<1>12. ASSUME NEW p \in Phases, SkipPhase(r, p) PROVE RunningOK(r)'
  BY <1>12, EmitSlice, Going, Completing
    DEF SkipPhase, Before, Running, Exited, NextPhase, NodesOf, RunningInv, RunningOK
<1>13. ASSUME NEW p \in Phases, PrepareFails(r, p) PROVE RunningOK(r)'
  BY <1>13, EmitSlice, Going, Completing
    DEF PrepareFails, Before, Running, Exited, NextPhase, NodesOf, RunningInv, RunningOK
<1>14. ASSUME NEW p \in Phases, BeginPhase(r, p) PROVE RunningOK(r)'
  <2>1. Goto(r, Before(p), Running(p)) /\ run' = run
    BY <1>14 DEF BeginPhase
  <2>2. pc[r] = Before(p) /\ pc'[r] = Running(p)
    BY <2>1, Going
  <2>3. \A n \in Nodes : status'[r][n] = "running" =>
          status[r][n] = "running" \/ (p = "Kubernetes" /\ n \in NodesOf(r, p))
    BY <1>14, Beginning
  <2>4. \A n \in Nodes : status[r][n] # "running"
    BY <2>2 DEF RunningInv, RunningOK, Before
  <2> QED
    BY <2>1, <2>2, <2>3, <2>4 DEF Running, NodesOf, RunningOK
<1>15. ASSUME NEW p \in Phases, CommandExits(r, p) PROVE RunningOK(r)'
  BY <1>15, EmitSlice, Going, Completing
    DEF CommandExits, Before, Running, Exited, NextPhase, NodesOf, RunningInv, RunningOK
<1>16. ASSUME NEW p \in Phases, PhaseSucceeds(r, p) PROVE RunningOK(r)'
  BY <1>16, EmitSlice, Going, Completing
    DEF PhaseSucceeds, Before, Running, Exited, NextPhase, NodesOf, RunningInv, RunningOK
<1>17. ASSUME NEW p \in Phases, PhaseFails(r, p) PROVE RunningOK(r)'
  BY <1>17, EmitSlice, Going, Completing
    DEF PhaseFails, Before, Running, Exited, NextPhase, NodesOf, RunningInv, RunningOK
<1>18. ASSUME CleanUp(r) PROVE RunningOK(r)'
  BY <1>18, EmitSlice, Going, Completing
    DEF CleanUp, Before, Running, Exited, NextPhase, NodesOf, RunningInv, RunningOK
<1>19. ASSUME StartDestroy(r) PROVE RunningOK(r)'
  BY <1>19 DEF StartDestroy, RunningOK, TypeOK
<1>20. ASSUME DestroySucceeds(r) PROVE RunningOK(r)'
  BY <1>20, EmitSlice, Going, Completing
    DEF DestroySucceeds, Before, Running, Exited, NextPhase, NodesOf, RunningInv, RunningOK
<1> QED
  BY <1>1, <1>2, <1>3, <1>4, <1>5, <1>6, <1>7, <1>8, <1>9, <1>10, <1>11, <1>12, <1>13,
     <1>14, <1>15, <1>16, <1>17, <1>18, <1>19, <1>20 DEF Step, RunPipeline, Phase, Relay

\* A node that runs belongs to the step the run is at.
LEMMA RunningKept ==
  ASSUME PipelineAssumption, TypeOK, PlaceInv, RelayInv, RunningInv, NEW r \in Runs, Step(r)
  PROVE  RunningInv'
<1>1. \A q \in Runs \ {r} : RunningOK(q)'
  BY Others DEF OthersStay, RunningInv, RunningOK
<1> QED
  BY <1>1, RunningOwn DEF RunningInv

-----------------------------------------------------------------------------
(* Ansible's tasks.                                                         *)

\* A step that announces no task and starts no Ansible node leaves TaskOK alone.
LEMMA SameTasks ==
  ASSUME TaskInv, NEW r \in Runs, run'[r].nodes = run[r].nodes,
         relay'[r].task = relay[r].task,
         \A n \in NodesOf(r, "Ansible") : status'[r][n] = "running" => status[r][n] = "running"
  PROVE  TaskOK(r)'
<1>1. NodesOf(r, "Ansible")' = NodesOf(r, "Ansible")
  BY DEF NodesOf
<1>2. \A n : Position(r, n)' = Position(r, n)
  BY <1>1 DEF Position
<1> QED
  BY <1>1, <1>2 DEF TaskInv, TaskOK

\* The Ansible node that runs is the one announced last.
LEMMA TaskOwn ==
  ASSUME PipelineAssumption, TypeOK, PlaceInv, RelayInv, RunningInv, TaskInv, NEW r \in Runs, Step(r)
  PROVE  TaskOK(r)'
<1>1. ASSUME Start(r) PROVE TaskOK(r)'
  <2>1. pc[r].at = "new" /\ status'[r] = status[r]
    BY <1>1, Going DEF Start, Before
  <2>2. \A n \in Nodes : status'[r][n] = "none"
    BY <2>1 DEF PlaceInv
  <2>3. run'[r].nodes \subseteq Nodes
    BY <1>1, PipelineAssumption DEF Start, Requests, Parameters, TypeOK
  <2> QED
    BY <2>2, <2>3 DEF TaskOK, NodesOf
<1>2. ASSUME Report(r) PROVE TaskOK(r)'
  <2>1. run'[r].nodes = run[r].nodes /\ relay'[r].task = relay[r].task /\ status' = status
    BY <1>2 DEF Report, Queued, TypeOK
  <2> QED
    BY <2>1, SameTasks
<1>3. ASSUME RelayNode(r) PROVE TaskOK(r)'
  <2>1. run'[r].nodes = run[r].nodes /\ relay'[r].task = relay[r].task
    BY <1>3 DEF RelayNode, Received, TypeOK
  <2>2. Head(relay[r].chan).node \in NodesOf(r, "Terraform")
    BY <1>3, HeadPrintable DEF RelayNode
  <2>3. \A n \in NodesOf(r, "Ansible") : status'[r][n] = status[r][n]
    BY <1>3, <2>2, CanvasTyped DEF RelayNode, NodesOf, TypeOK
  <2> QED
    BY <2>1, <2>3, SameTasks
<1>4. ASSUME RelayTask(r) PROVE TaskOK(r)'
  <2>1. relay'[r].task = relay[r].task + 1 /\ run' = run
    BY <1>4 DEF RelayTask, Received, TypeOK
  <2>2. \A n \in NodesOf(r, "Ansible") : status'[r][n] =
          IF Position(r, n) = relay[r].task + 1 THEN "running"
          ELSE IF Position(r, n) = relay[r].task THEN "completed" ELSE status[r][n]
    BY <1>4, CanvasTyped DEF RelayTask, NodesOf, TypeOK
  <2>3. NodesOf(r, "Ansible")' = NodesOf(r, "Ansible")
    BY <2>1 DEF NodesOf
  <2>4. \A n : Position(r, n)' = Position(r, n)
    BY <2>3 DEF Position
  <2>5. \A n \in NodesOf(r, "Ansible") : status'[r][n] = "running" => Position(r, n) = relay[r].task + 1
    BY <2>2 DEF TaskInv, TaskOK
  <2> QED
    BY <2>1, <2>3, <2>4, <2>5 DEF TaskOK
<1>5. ASSUME ReportPending(r) PROVE TaskOK(r)'
  <2>1. run'[r].nodes = run[r].nodes /\ relay'[r].task = relay[r].task
    BY <1>5 DEF ReportPending
  <2>2. \A n \in Nodes : status'[r][n] # "running"
    BY <1>5 DEF ReportPending, TypeOK
  <2> QED
    BY <2>1, <2>2, CanvasTyped, SameTasks DEF NodesOf
<1>6. ASSUME WriteFile(r) PROVE TaskOK(r)'
  <2>1. run'[r].nodes = run[r].nodes /\ relay'[r].task = relay[r].task /\ status' = status
    BY <1>6, Writing DEF WriteFile
  <2> QED
    BY <2>1, SameTasks
<1>7. ASSUME WriteFails(r) PROVE TaskOK(r)'
  <2>1. run'[r].nodes = run[r].nodes /\ relay'[r].task = relay[r].task /\ status' = status
    BY <1>7 DEF WriteFails
  <2> QED
    BY <2>1, SameTasks
<1>8. ASSUME Plan(r) PROVE TaskOK(r)'
  <2>1. run'[r].nodes = run[r].nodes /\ relay'[r].task = relay[r].task /\ status' = status
    BY <1>8 DEF Plan
  <2> QED
    BY <2>1, SameTasks
<1>9. ASSUME FilesWritten(r) PROVE TaskOK(r)'
  <2>1. run'[r].nodes = run[r].nodes /\ relay'[r].task = relay[r].task
    BY <1>9 DEF FilesWritten
  <2>2. \A n \in NodesOf(r, "Ansible") : status'[r][n] = "running" => status[r][n] = "running"
    BY <1>9, CanvasTyped, EmitSlice DEF FilesWritten, NodesOf
  <2> QED
    BY <2>1, <2>2, SameTasks
<1>10. ASSUME Clone(r) PROVE TaskOK(r)'
  <2>1. run'[r].nodes = run[r].nodes /\ relay'[r].task = relay[r].task
    BY <1>10 DEF Clone
  <2>2. \A n \in NodesOf(r, "Ansible") : status'[r][n] = "running" => status[r][n] = "running"
    BY <1>10, CanvasTyped, EmitSlice DEF Clone, NodesOf, Complete
  <2> QED
    BY <2>1, <2>2, SameTasks
<1>11. ASSUME NothingToClone(r) PROVE TaskOK(r)'
  <2>1. run'[r].nodes = run[r].nodes /\ relay'[r].task = relay[r].task /\ status' = status
    BY <1>11 DEF NothingToClone
  <2> QED
    BY <2>1, SameTasks
<1>12. ASSUME NEW p \in Phases, SkipPhase(r, p) PROVE TaskOK(r)'
  <2>1. run'[r].nodes = run[r].nodes /\ relay'[r].task = relay[r].task
    BY <1>12 DEF SkipPhase
  <2>2. \A n \in NodesOf(r, "Ansible") : status'[r][n] = "running" => status[r][n] = "running"
    BY <1>12, CanvasTyped, EmitSlice DEF SkipPhase, NodesOf, Complete
  <2> QED
    BY <2>1, <2>2, SameTasks
<1>13. ASSUME NEW p \in Phases, PrepareFails(r, p) PROVE TaskOK(r)'
  <2>1. run'[r].nodes = run[r].nodes /\ relay'[r].task = relay[r].task
    BY <1>13 DEF PrepareFails
  <2>2. \A n \in NodesOf(r, "Ansible") : status'[r][n] = "running" => status[r][n] = "running"
    BY <1>13, CanvasTyped, EmitSlice DEF PrepareFails, NodesOf, Complete
  <2> QED
    BY <2>1, <2>2, SameTasks
<1>14. ASSUME NEW p \in Phases, BeginPhase(r, p) PROVE TaskOK(r)'
  <2>1. run' = run /\ pc[r] = Before(p)
    BY <1>14, Going DEF BeginPhase
  <2>2. \A n \in Nodes : status[r][n] # "running"
    BY <2>1 DEF RunningInv, RunningOK, Before
  <2>3. \A n \in NodesOf(r, "Ansible") : status'[r][n] # "running"
    BY <1>14, <2>2, Beginning, CanvasTyped DEF NodesOf
  <2> QED
    BY <2>1, <2>3 DEF TaskOK, NodesOf
<1>15. ASSUME NEW p \in Phases, CommandExits(r, p) PROVE TaskOK(r)'
  <2>1. run'[r].nodes = run[r].nodes /\ relay'[r].task = relay[r].task /\ status' = status
    BY <1>15 DEF CommandExits
  <2> QED
    BY <2>1, SameTasks
<1>16. ASSUME NEW p \in Phases, PhaseSucceeds(r, p) PROVE TaskOK(r)'
  <2>1. run'[r].nodes = run[r].nodes /\ relay'[r].task = relay[r].task
    BY <1>16 DEF PhaseSucceeds
  <2>2. \A n \in NodesOf(r, "Ansible") : status'[r][n] = "running" => status[r][n] = "running"
    BY <1>16, CanvasTyped, EmitSlice DEF PhaseSucceeds, NodesOf, Complete
  <2> QED
    BY <2>1, <2>2, SameTasks
<1>17. ASSUME NEW p \in Phases, PhaseFails(r, p) PROVE TaskOK(r)'
  <2>1. run'[r].nodes = run[r].nodes /\ relay'[r].task = relay[r].task
    BY <1>17 DEF PhaseFails
  <2>2. \A n \in NodesOf(r, "Ansible") : status'[r][n] = "running" => status[r][n] = "running"
    BY <1>17, CanvasTyped, EmitSlice DEF PhaseFails, NodesOf, Complete
  <2> QED
    BY <2>1, <2>2, SameTasks
<1>18. ASSUME CleanUp(r) PROVE TaskOK(r)'
  <2>1. run'[r].nodes = run[r].nodes /\ relay'[r].task = relay[r].task /\ status' = status
    BY <1>18 DEF CleanUp
  <2> QED
    BY <2>1, SameTasks
<1>19. ASSUME StartDestroy(r) PROVE TaskOK(r)'
  <2>1. run'[r].nodes = run[r].nodes /\ relay'[r].task = relay[r].task
    BY <1>19 DEF StartDestroy
  <2>2. \A n \in Nodes : status'[r][n] # "running"
    BY <1>19 DEF StartDestroy, TypeOK
  <2> QED
    BY <2>1, <2>2, CanvasTyped, SameTasks DEF NodesOf
<1>20. ASSUME DestroySucceeds(r) PROVE TaskOK(r)'
  <2>1. run'[r].nodes = run[r].nodes /\ relay'[r].task = relay[r].task
    BY <1>20 DEF DestroySucceeds
  <2>2. \A n \in Nodes : status'[r][n] =
          IF n \in NodesOf(r, "Terraform") THEN "completed" ELSE status[r][n]
    BY <1>20, EmitSlice DEF DestroySucceeds
  <2> QED
    BY <2>1, <2>2, CanvasTyped, SameTasks DEF NodesOf
<1> QED
  BY <1>1, <1>2, <1>3, <1>4, <1>5, <1>6, <1>7, <1>8, <1>9, <1>10, <1>11, <1>12, <1>13,
     <1>14, <1>15, <1>16, <1>17, <1>18, <1>19, <1>20 DEF Step, RunPipeline, Phase, Relay

\* A step of one run leaves the other runs' nodes and tasks.
LEMMA TaskKept ==
  ASSUME PipelineAssumption, TypeOK, PlaceInv, RelayInv, RunningInv, TaskInv,
         NEW r \in Runs, Step(r)
  PROVE  TaskInv'
<1>1. ASSUME NEW q \in Runs \ {r} PROVE TaskOK(q)'
  <2>1. run'[q] = run[q] /\ status'[q] = status[q] /\ relay'[q] = relay[q]
    BY Others DEF OthersStay
  <2> QED
    BY <2>1, SameTasks
<1> QED
  BY <1>1, TaskOwn DEF TaskInv

-----------------------------------------------------------------------------
(* What a deploy has behind it.                                             *)

\* Each phase adds its own nodes to those behind a deploy.
LEMMA BehindGrows ==
  \A p \in Phases : /\ NextPhase[p] \in {"Ansible", "Kubernetes", "cleanup"}
                    /\ Behind(NextPhase[p]) = Behind(p) \cup {p}
                    /\ p \notin Behind(p)
BY DEF NextPhase, Behind

\* A run that has failed, or that is not a deploy, promises nothing.
LEMMA NothingPromised ==
  ASSUME NEW r \in Runs,
         run'[r].action # "deploy" \/ (pc'[r] = Before("done") /\ outcome'[r] = "FAILED")
  PROVE  DoneOK(r)'
BY DEF DoneOK, Before, Behind

\* While a phase is at work, the nodes behind it stay completed.
LEMMA PhaseWorks ==
  ASSUME PlaceInv, DoneInv, NEW r \in Runs, NEW p \in Phases,
         pc[r].at = p, pc'[r].at = p, outcome'[r] = outcome[r],
         run'[r].nodes = run[r].nodes, run'[r].action = run[r].action,
         \A n \in run[r].nodes : Tech[n] # p => status'[r][n] = status[r][n]
  PROVE  DoneOK(r)'
<1>1. outcome[r] # "SUCCESS" /\ p \notin Behind(p) /\ p # "source"
  BY BehindGrows DEF PlaceInv
<1>2. ASSUME run[r].action = "deploy", NEW n \in run[r].nodes, Tech[n] \in Behind(p)
      PROVE  status'[r][n] = "completed"
  <2>1. status[r][n] = "completed"
    BY <1>2 DEF DoneInv, DoneOK
  <2> QED
    BY <1>1, <1>2, <2>1
<1> QED
  BY <1>1, <1>2 DEF DoneOK

\* When a phase is over, its nodes are behind.
LEMMA PhaseOver ==
  ASSUME TypeOK, PipelineAssumption, PlaceInv, DoneInv, NEW r \in Runs, NEW p \in Phases,
         pc[r].at = p, pc'[r] = Before(NextPhase[p]), outcome' = outcome, run' = run,
         emitSliceStatus(r, NodesOf(r, p), "completed")
  PROVE  DoneOK(r)'
<1>1. outcome'[r] # "SUCCESS"
  BY DEF PlaceInv
<1>2. \A n \in run[r].nodes :
        status'[r][n] = IF Tech[n] = p THEN "completed" ELSE status[r][n]
  BY EmitSlice, CanvasTyped DEF NodesOf
<1>3. pc'[r].at = NextPhase[p] /\ NextPhase[p] # "source"
  BY BehindGrows DEF Before
<1> QED
  BY <1>1, <1>2, <1>3, BehindGrows DEF DoneInv, DoneOK

\* The steps behind a deploy have completed their nodes.
LEMMA DoneOwn ==
  ASSUME PipelineAssumption, TypeOK, PlaceInv, RelayInv, DoneInv, NEW r \in Runs, Step(r)
  PROVE  DoneOK(r)'
<1>1. ASSUME Start(r) PROVE DoneOK(r)'
  <2>1. pc[r] = Before("new") /\ pc'[r] = Before("start") /\ outcome' = outcome
    BY <1>1, Going DEF Start
  <2> QED
    BY <2>1 DEF Before, PlaceInv, DoneOK, Behind
<1>2. ASSUME Report(r) PROVE DoneOK(r)'
  BY <1>2 DEF Report, DoneInv, DoneOK
<1>3. ASSUME RelayNode(r) PROVE DoneOK(r)'
  <2>1. pc[r].at = "Terraform" /\ Head(relay[r].chan).node \in NodesOf(r, "Terraform")
    BY <1>3, HeadPrintable DEF RelayNode
  <2>2. \A n \in run[r].nodes : Tech[n] # "Terraform" => status'[r][n] = status[r][n]
    BY <1>3, <2>1, CanvasTyped DEF RelayNode, NodesOf, TypeOK
  <2> QED
    BY <1>3, <2>1, <2>2, PhaseWorks DEF RelayNode
<1>4. ASSUME RelayTask(r) PROVE DoneOK(r)'
  <2>1. pc[r].at = "Ansible"
    BY <1>4, HeadPrintable DEF RelayTask
  <2>2. \A n \in run[r].nodes : Tech[n] # "Ansible" => status'[r][n] = status[r][n]
    BY <1>4, CanvasTyped DEF RelayTask, NodesOf, TypeOK
  <2> QED
    BY <1>4, <2>1, <2>2, PhaseWorks DEF RelayTask
<1>5. ASSUME ReportPending(r) PROVE DoneOK(r)'
  <2>1. /\ pc[r] = Before("start") /\ pc'[r] = Before("files")
        /\ outcome' = outcome /\ run' = run
    BY <1>5, Going DEF ReportPending
  <2>2. \A n \in run[r].nodes :
          run[r].action = "deploy" /\ Tech[n] = "Target" => status'[r][n] = "completed"
    BY <1>5, CanvasTyped DEF ReportPending, TypeOK
  <2> QED
    BY <2>1, <2>2 DEF Before, PlaceInv, DoneOK, Behind
<1>6. ASSUME WriteFile(r) PROVE DoneOK(r)'
  <2>1. run'[r].nodes = run[r].nodes /\ run'[r].action = run[r].action
    BY <1>6, Writing
  <2> QED
    BY <1>6, <2>1 DEF WriteFile, DoneInv, DoneOK
<1>7. ASSUME WriteFails(r) PROVE DoneOK(r)'
  <2>1. pc'[r] = Before("done") /\ outcome'[r] = "FAILED"
    BY <1>7, Completing DEF WriteFails
  <2> QED
    BY <2>1, NothingPromised
<1>8. ASSUME Plan(r) PROVE DoneOK(r)'
  <2>1. run'[r].action # "deploy"
    BY <1>8 DEF Plan
  <2> QED
    BY <2>1, NothingPromised
<1>9. ASSUME FilesWritten(r) PROVE DoneOK(r)'
  <2>1. /\ pc[r] = Before("files") /\ pc'[r] = Before("source")
        /\ outcome' = outcome /\ run' = run
    BY <1>9, Going DEF FilesWritten
  <2>2. \A n \in run[r].nodes : IF Tech[n] = "Source" THEN status'[r][n] \in {"running", "completed"}
                                ELSE status'[r][n] = status[r][n]
    BY <1>9, EmitSlice, CanvasTyped DEF FilesWritten, NodesOf
  <2> QED
    BY <2>1, <2>2 DEF Before, PlaceInv, DoneInv, DoneOK, Behind
<1>10. ASSUME Clone(r) PROVE DoneOK(r)'
  <2>1. CASE Goto(r, Before("source"), Before("Terraform"))
    <3>1. /\ pc[r] = Before("source") /\ pc'[r] = Before("Terraform")
          /\ outcome' = outcome /\ run' = run
          /\ emitSliceStatus(r, NodesOf(r, "Source"), "completed")
      BY <1>10, <2>1, Going, Completing DEF Clone, Before
    <3>2. \A n \in run[r].nodes :
            status'[r][n] = IF Tech[n] = "Source" THEN "completed" ELSE status[r][n]
      BY <3>1, EmitSlice, CanvasTyped DEF NodesOf
    <3> QED
      BY <3>1, <3>2 DEF Before, PlaceInv, DoneInv, DoneOK, Behind
  <2>2. CASE Complete(r, Before("source"), "FAILED")
    BY <2>2, Completing, NothingPromised
  <2> QED
    BY <1>10, <2>1, <2>2 DEF Clone
<1>11. ASSUME NothingToClone(r) PROVE DoneOK(r)'
  <2>1. /\ pc[r] = Before("source") /\ pc'[r] = Before("Terraform")
        /\ outcome' = outcome /\ run' = run /\ status' = status
    BY <1>11, Going DEF NothingToClone
  <2>2. \A n \in run[r].nodes : Tech[n] = "Source" => status[r][n] # "running"
    BY <1>11 DEF NothingToClone, NodesOf
  <2> QED
    BY <2>1, <2>2 DEF Before, PlaceInv, DoneInv, DoneOK, Behind
<1>12. ASSUME NEW p \in Phases, SkipPhase(r, p) PROVE DoneOK(r)'
  <2>1. pc[r].at = p /\ pc'[r] = Before(NextPhase[p])
    BY <1>12, Going DEF SkipPhase, Before, Exited
  <2> QED
    BY <1>12, <2>1, PhaseOver DEF SkipPhase
<1>13. ASSUME NEW p \in Phases, PrepareFails(r, p) PROVE DoneOK(r)'
  <2>1. pc'[r] = Before("done") /\ outcome'[r] = "FAILED"
    BY <1>13, Completing DEF PrepareFails
  <2> QED
    BY <2>1, NothingPromised
<1>14. ASSUME NEW p \in Phases, BeginPhase(r, p) PROVE DoneOK(r)'
  <2>1. /\ pc[r].at = p /\ pc'[r].at = p
        /\ outcome' = outcome /\ run' = run
    BY <1>14, Going DEF BeginPhase, Before, Running
  <2>2. \A n \in run[r].nodes : Tech[n] # p => status'[r][n] = status[r][n]
    BY <1>14, Beginning, CanvasTyped DEF NodesOf
  <2> QED
    BY <2>1, <2>2, PhaseWorks
<1>15. ASSUME NEW p \in Phases, CommandExits(r, p) PROVE DoneOK(r)'
  <2>1. pc[r].at = p /\ pc'[r].at = p /\ outcome' = outcome /\ run' = run /\ status' = status
    BY <1>15, Going DEF CommandExits, Running, Exited
  <2> QED
    BY <2>1, PhaseWorks
<1>16. ASSUME NEW p \in Phases, PhaseSucceeds(r, p) PROVE DoneOK(r)'
  <2>1. pc[r].at = p /\ pc'[r] = Before(NextPhase[p])
    BY <1>16, Going DEF PhaseSucceeds, Before, Exited
  <2> QED
    BY <1>16, <2>1, PhaseOver DEF PhaseSucceeds
<1>17. ASSUME NEW p \in Phases, PhaseFails(r, p) PROVE DoneOK(r)'
  <2>1. pc'[r] = Before("done") /\ outcome'[r] = "FAILED"
    BY <1>17, Completing DEF PhaseFails
  <2> QED
    BY <2>1, NothingPromised
<1>18. ASSUME CleanUp(r) PROVE DoneOK(r)'
  <2>1. /\ pc[r] = Before("cleanup") /\ pc'[r] = Before("done")
        /\ run' = run /\ status' = status
    BY <1>18, Completing DEF CleanUp
  <2>2. \A n \in run[r].nodes : Tech[n] \in Phases \cup {"Source", "Target", "Other"}
    BY CanvasTyped, PipelineAssumption
  <2>3. run[r].action = "deploy" =>
          \A n \in run[r].nodes : Tech[n] # "Other" => status[r][n] = "completed"
    BY <2>1, <2>2 DEF Before, DoneInv, DoneOK, Behind
  <2> QED
    BY <2>1, <2>3 DEF Before, DoneOK, Behind
<1>19. ASSUME StartDestroy(r) PROVE DoneOK(r)'
  <2>1. run'[r].action # "deploy"
    BY <1>19 DEF StartDestroy
  <2> QED
    BY <2>1, NothingPromised
<1>20. ASSUME DestroySucceeds(r) PROVE DoneOK(r)'
  <2>1. run'[r].action # "deploy"
    BY <1>20 DEF DestroySucceeds
  <2> QED
    BY <2>1, NothingPromised
<1> QED
  BY <1>1, <1>2, <1>3, <1>4, <1>5, <1>6, <1>7, <1>8, <1>9, <1>10, <1>11, <1>12, <1>13,
     <1>14, <1>15, <1>16, <1>17, <1>18, <1>19, <1>20 DEF Step, RunPipeline, Phase, Relay

LEMMA DoneKept ==
  ASSUME PipelineAssumption, TypeOK, PlaceInv, RelayInv, DoneInv, NEW r \in Runs, Step(r)
  PROVE  DoneInv'
<1>1. \A q \in Runs \ {r} : DoneOK(q)'
  BY Others DEF OthersStay, DoneInv, DoneOK
<1> QED
  BY <1>1, DoneOwn DEF DoneInv

-----------------------------------------------------------------------------
(* The invariant, and what follows from it.                                 *)

IInv == TypeOK /\ PlaceInv /\ RelayInv /\ RunningInv /\ TaskInv /\ DoneInv

LEMMA AtStart == ASSUME PipelineAssumption, Init PROVE IInv
<1>1. TypeOK
  BY InitTyped
<1>2. PlaceInv
  BY DEF Init, PlaceInv
<1>3. RelayInv
  <2>1. \A r \in Runs : relay[r].chan = <<>>
    BY DEF Init
  <2>2. \A r \in Runs : <<>> \in Seq(Printable(r))
    OBVIOUS
  <2> QED
    BY <2>1, <2>2 DEF RelayInv
<1>4. RunningInv /\ TaskInv /\ DoneInv
  <2>1. \A r \in Runs : /\ run[r].nodes = {} /\ run[r].action = "none"
                        /\ \A n \in Nodes : status[r][n] = "none"
    BY DEF Init, NoRun
  <2> QED
    BY <2>1 DEF RunningInv, RunningOK, TaskInv, TaskOK, NodesOf, DoneInv, DoneOK
<1> QED
  BY <1>1, <1>2, <1>3, <1>4 DEF IInv

LEMMA Kept == ASSUME PipelineAssumption, IInv, [Next]_vars PROVE IInv'
<1>1. TypeOK' /\ PlaceInv' /\ RelayInv'
  BY StepTyped, PlaceKept, RelayKept DEF IInv
<1>2. ASSUME NEW r \in Runs, Step(r) PROVE RunningInv' /\ TaskInv' /\ DoneInv'
  BY <1>2, RunningKept, TaskKept, DoneKept DEF IInv
<1>3. CASE UNCHANGED vars
  <2>1. RunningInv' /\ DoneInv'
    BY <1>3 DEF vars, IInv, RunningInv, RunningOK, DoneInv, DoneOK
  <2>2. TaskInv'
    BY <1>3, SameTasks DEF vars, IInv, TaskInv
  <2> QED
    BY <1>1, <2>1, <2>2 DEF IInv
<1> QED
  BY <1>1, <1>2, <1>3 DEF IInv, Next, Step

LEMMA Always == Spec => []IInv
<1>1. Init => IInv
  BY AtStart, PipelineAssumption
<1>2. IInv /\ [Next]_vars => IInv'
  BY Kept, PipelineAssumption
<1> QED
  BY <1>1, <1>2, PTL DEF Spec

\* A deploy that ends with SUCCESS has completed every node that belongs to a phase
\* (runner.go: the skipped phases emit "completed", the others after their relay).
THEOREM SuccessCompletes == Spec => []SuccessIsComplete
<1>1. IInv => SuccessIsComplete
  BY DEF IInv, DoneInv, DoneOK, SuccessIsComplete
<1> QED
  BY <1>1, Always, PTL

\* No node is left running by a run that has ended, whichever exit it took.
THEOREM EndsAtRest == Spec => []NoNodeLeftRunning
<1>1. IInv => NoNodeLeftRunning
  BY DEF IInv, PlaceInv, RunningInv, RunningOK, Before, NoNodeLeftRunning
<1> QED
  BY <1>1, Always, PTL

\* Terraform's nodes change only before Ansible's, and Ansible's before the ones of
\* Kubernetes, although every phase has a relay goroutine of its own.
LEMMA TouchedInOrder ==
  ASSUME PipelineAssumption, IInv, NEW r \in Runs, Step(r), run[r].action = "deploy",
         NEW n \in run[r].nodes, status'[r][n] # status[r][n], status[r][n] # "none"
  PROVE  Tech[n] \in Phases => pc[r].at = Tech[n]
<1>0. TypeOK /\ PlaceInv /\ RelayInv /\ n \in Nodes
  BY CanvasTyped DEF IInv
<1>1. ASSUME Start(r) PROVE Tech[n] \in Phases => pc[r].at = Tech[n]
  BY <1>0, <1>1 DEF Start
<1>2. ASSUME Report(r) PROVE Tech[n] \in Phases => pc[r].at = Tech[n]
  BY <1>0, <1>2 DEF Report
<1>3. ASSUME RelayNode(r) PROVE Tech[n] \in Phases => pc[r].at = Tech[n]
  <2>1. pc[r].at = "Terraform" /\ Head(relay[r].chan).node \in NodesOf(r, "Terraform")
    BY <1>0, <1>3, HeadPrintable DEF RelayNode
  <2>2. n = Head(relay[r].chan).node
    BY <1>0, <1>3 DEF RelayNode, TypeOK
  <2> QED
    BY <2>1, <2>2 DEF NodesOf
<1>4. ASSUME RelayTask(r) PROVE Tech[n] \in Phases => pc[r].at = Tech[n]
  <2>1. pc[r].at = "Ansible"
    BY <1>0, <1>4, HeadPrintable DEF RelayTask
  <2>2. n \in NodesOf(r, "Ansible")
    BY <1>0, <1>4 DEF RelayTask, TypeOK
  <2> QED
    BY <2>1, <2>2 DEF NodesOf
<1>5. ASSUME ReportPending(r) PROVE Tech[n] \in Phases => pc[r].at = Tech[n]
  <2>1. pc[r] = Before("start")
    BY <1>0, <1>5, Going DEF ReportPending
  <2> QED
    BY <1>0, <2>1 DEF Before, PlaceInv
<1>6. ASSUME WriteFile(r) PROVE Tech[n] \in Phases => pc[r].at = Tech[n]
  BY <1>0, <1>6 DEF WriteFile
<1>7. ASSUME WriteFails(r) PROVE Tech[n] \in Phases => pc[r].at = Tech[n]
  BY <1>0, <1>7 DEF WriteFails
<1>8. ASSUME Plan(r) PROVE Tech[n] \in Phases => pc[r].at = Tech[n]
  BY <1>0, <1>8 DEF Plan
<1>9. ASSUME FilesWritten(r) PROVE Tech[n] \in Phases => pc[r].at = Tech[n]
  <2>1. n \in NodesOf(r, "Source")
    BY <1>0, <1>9, EmitSlice DEF FilesWritten
  <2> QED
    BY <2>1 DEF NodesOf
<1>10. ASSUME Clone(r) PROVE Tech[n] \in Phases => pc[r].at = Tech[n]
  <2>1. n \in NodesOf(r, "Source")
    BY <1>0, <1>10, EmitSlice DEF Clone
  <2> QED
    BY <2>1 DEF NodesOf
<1>11. ASSUME NothingToClone(r) PROVE Tech[n] \in Phases => pc[r].at = Tech[n]
  BY <1>0, <1>11 DEF NothingToClone
<1>12. ASSUME NEW p \in Phases, SkipPhase(r, p) PROVE Tech[n] \in Phases => pc[r].at = Tech[n]
  <2>1. pc[r].at = p
    BY <1>0, <1>12, Going, Completing DEF SkipPhase, Before, Exited
  <2>2. n \in NodesOf(r, p)
    BY <1>0, <1>12, EmitSlice DEF SkipPhase
  <2> QED
    BY <2>1, <2>2 DEF NodesOf
<1>13. ASSUME NEW p \in Phases, PrepareFails(r, p) PROVE Tech[n] \in Phases => pc[r].at = Tech[n]
  <2>1. pc[r].at = p
    BY <1>0, <1>13, Going, Completing DEF PrepareFails, Before, Exited
  <2>2. n \in NodesOf(r, p)
    BY <1>0, <1>13, EmitSlice DEF PrepareFails
  <2> QED
    BY <2>1, <2>2 DEF NodesOf
<1>14. ASSUME NEW p \in Phases, BeginPhase(r, p) PROVE Tech[n] \in Phases => pc[r].at = Tech[n]
  <2>1. pc[r].at = p
    BY <1>0, <1>14, Going DEF BeginPhase, Before
  <2>2. n \in NodesOf(r, p)
    BY <1>0, <1>14, Beginning
  <2> QED
    BY <2>1, <2>2 DEF NodesOf
<1>15. ASSUME NEW p \in Phases, CommandExits(r, p) PROVE Tech[n] \in Phases => pc[r].at = Tech[n]
  BY <1>0, <1>15 DEF CommandExits
<1>16. ASSUME NEW p \in Phases, PhaseSucceeds(r, p) PROVE Tech[n] \in Phases => pc[r].at = Tech[n]
  <2>1. pc[r].at = p
    BY <1>0, <1>16, Going, Completing DEF PhaseSucceeds, Before, Exited
  <2>2. n \in NodesOf(r, p)
    BY <1>0, <1>16, EmitSlice DEF PhaseSucceeds
  <2> QED
    BY <2>1, <2>2 DEF NodesOf
<1>17. ASSUME NEW p \in Phases, PhaseFails(r, p) PROVE Tech[n] \in Phases => pc[r].at = Tech[n]
  <2>1. pc[r].at = p
    BY <1>0, <1>17, Going, Completing DEF PhaseFails, Before, Exited
  <2>2. n \in NodesOf(r, p)
    BY <1>0, <1>17, EmitSlice DEF PhaseFails
  <2> QED
    BY <2>1, <2>2 DEF NodesOf
<1>18. ASSUME CleanUp(r) PROVE Tech[n] \in Phases => pc[r].at = Tech[n]
  BY <1>0, <1>18 DEF CleanUp
<1>19. ASSUME StartDestroy(r) PROVE Tech[n] \in Phases => pc[r].at = Tech[n]
  BY <1>0, <1>19 DEF StartDestroy
<1>20. ASSUME DestroySucceeds(r) PROVE Tech[n] \in Phases => pc[r].at = Tech[n]
  BY <1>0, <1>20 DEF DestroySucceeds
<1> QED
  BY <1>1, <1>2, <1>3, <1>4, <1>5, <1>6, <1>7, <1>8, <1>9, <1>10, <1>11, <1>12, <1>13,
     <1>14, <1>15, <1>16, <1>17, <1>18, <1>19, <1>20 DEF Step, RunPipeline, Phase, Relay

\* When a phase touches a node, the nodes of the phases behind it are complete.
LEMMA InOrder == ASSUME PipelineAssumption, IInv, NEW r \in Runs, Step(r), run[r].action = "deploy",
    NEW p \in {"Ansible", "Kubernetes"}, NEW b \in Behind(p) \cap Phases,
    \E n \in NodesOf(r, p) : status'[r][n] # status[r][n] /\ status[r][n] # "none"
  PROVE  \A n \in NodesOf(r, b) : status'[r][n] = "completed"
<1>1. pc[r].at = p
  BY TouchedInOrder DEF NodesOf
<1>2. \A n \in NodesOf(r, b) : status[r][n] = "completed"
  BY <1>1 DEF IInv, DoneInv, DoneOK, NodesOf
<1>3. \A n \in NodesOf(r, b) : status'[r][n] = status[r][n]
  <2>1. b # p
    BY BehindGrows
  <2> QED
    BY <1>1, <1>2, <2>1, TouchedInOrder DEF NodesOf
<1> QED
  BY <1>2, <1>3

\* The phases touch their nodes one after the other (deploy).
THEOREM OnePhaseAfterTheOther == Spec => PhasesInOrder
<1>1. ASSUME PipelineAssumption, IInv, NEW r \in Runs, Step(r), run[r].action = "deploy"
      PROVE  /\ (\E n \in NodesOf(r, "Ansible") :
                   status'[r][n] # status[r][n] /\ status[r][n] # "none")
                  => \A n \in NodesOf(r, "Terraform") : status'[r][n] = "completed"
             /\ (\E n \in NodesOf(r, "Kubernetes") :
                   status'[r][n] # status[r][n] /\ status[r][n] # "none")
                  => \A n \in NodesOf(r, "Ansible") : status'[r][n] = "completed"
  <2>1. "Terraform" \in Behind("Ansible") \cap Phases /\ "Ansible" \in Behind("Kubernetes") \cap Phases
    BY DEF Behind
  <2> QED
    BY <1>1, <2>1, InOrder
<1>2. ASSUME PipelineAssumption, IInv, NEW r \in Runs, NEW q \in Runs, Step(q), q # r
      PROVE  status'[r] = status[r]
  BY <1>2, Others DEF IInv, OthersStay
<1>3. IInv /\ [Next]_vars =>
        [\A r \in Runs : run[r].action = "deploy" =>
           /\ (\E n \in NodesOf(r, "Ansible") :
                 status'[r][n] # status[r][n] /\ status[r][n] # "none")
                => \A n \in NodesOf(r, "Terraform") : status'[r][n] = "completed"
           /\ (\E n \in NodesOf(r, "Kubernetes") :
                 status'[r][n] # status[r][n] /\ status[r][n] # "none")
                => \A n \in NodesOf(r, "Ansible") : status'[r][n] = "completed"]_vars
  BY <1>1, <1>2, PipelineAssumption DEF Next, Step
<1> QED
  BY <1>3, Always, PTL DEF Spec, PhasesInOrder

\* Two of a run's Ansible nodes have two positions.
LEMMA PositionsDiffer ==
  ASSUME PipelineAssumption, TypeOK, NEW r \in Runs,
         NEW n \in NodesOf(r, "Ansible"), NEW o \in NodesOf(r, "Ansible"), Place[n] < Place[o]
  PROVE  Position(r, n) < Position(r, o)
<1> DEFINE upTo(x) == {y \in NodesOf(r, "Ansible") : Place[y] <= Place[x]}
<1>1. run[r].nodes \subseteq Nodes /\ IsFiniteSet(Nodes)
  BY CanvasTyped DEF PipelineAssumption
<1>2. upTo(n) \subseteq Nodes /\ upTo(o) \subseteq Nodes
  BY <1>1 DEF NodesOf
<1>3. IsFiniteSet(upTo(n)) /\ IsFiniteSet(upTo(o))
  BY <1>1, <1>2, FS_Subset
<1>4. n \in Nodes /\ o \in Nodes /\ \A y \in NodesOf(r, "Ansible") : y \in Nodes
  BY <1>1 DEF NodesOf
<1>5. upTo(n) \subseteq upTo(o) /\ o \in upTo(o) /\ o \notin upTo(n)
  BY <1>4 DEF PipelineAssumption
<1>6. Cardinality(upTo(n)) < Cardinality(upTo(o))
  <2>1. upTo(n) \subseteq upTo(o) /\ upTo(n) # upTo(o)
    BY <1>5
  <2> HIDE DEF upTo
  <2>2. Cardinality(upTo(n)) \in Nat /\ Cardinality(upTo(o)) \in Nat
    BY <1>3, FS_CardinalityType
  <2>3. Cardinality(upTo(n)) <= Cardinality(upTo(o)) /\ Cardinality(upTo(n)) # Cardinality(upTo(o))
    BY <1>3, <2>1, FS_Subset
  <2> QED
    BY <2>2, <2>3
<1> QED
  BY <1>6 DEF Position

\* Ansible works through its tasks one node at a time, although the statuses come
\* from a relay goroutine of its own.
THEOREM OneAfterTheOther == Spec => []OneTaskAtATime
<1>1. ASSUME PipelineAssumption, IInv PROVE OneTaskAtATime
  <2> SUFFICES ASSUME NEW r \in Runs
               PROVE  Cardinality({n \in NodesOf(r, "Ansible") : status[r][n] = "running"}) <= 1
    BY DEF OneTaskAtATime
  <2> DEFINE S == {n \in NodesOf(r, "Ansible") : status[r][n] = "running"}
  <2>1. \A n \in S : \A o \in S : n = o
    <3> SUFFICES ASSUME NEW n \in S, NEW o \in S PROVE n = o
      OBVIOUS
    <3>1. n \in Nodes /\ o \in Nodes
      BY <1>1, CanvasTyped DEF IInv, NodesOf
    <3>2. Position(r, n) = Position(r, o)
      BY <1>1 DEF IInv, TaskInv, TaskOK
    <3>3. ~(Place[n] < Place[o]) /\ ~(Place[o] < Place[n])
      <4>1. Position(r, n) \in Nat
        <5>1. {y \in NodesOf(r, "Ansible") : Place[y] <= Place[n]} \subseteq Nodes
          BY <1>1, CanvasTyped DEF IInv, NodesOf
        <5>2. IsFiniteSet({y \in NodesOf(r, "Ansible") : Place[y] <= Place[n]})
          BY <1>1, <5>1, FS_Subset DEF PipelineAssumption
        <5> QED
          BY <5>2, FS_CardinalityType DEF Position
      <4>2. Place[n] < Place[o] => Position(r, n) < Position(r, o)
        BY <1>1, PositionsDiffer DEF IInv
      <4>3. Place[o] < Place[n] => Position(r, o) < Position(r, n)
        BY <1>1, PositionsDiffer DEF IInv
      <4> QED
        BY <3>2, <4>1, <4>2, <4>3
    <3> QED
      BY <3>1, <3>3, <1>1 DEF PipelineAssumption
  <2>2. S = {} \/ \E n : S = {n}
    BY <2>1
  <2> HIDE DEF S
  <2>3. ASSUME S = {} PROVE Cardinality(S) = 0
    BY <2>3, FS_EmptySet
  <2>4. ASSUME NEW n, S = {n} PROVE Cardinality(S) = 1
    BY <2>4, FS_Singleton
  <2>5. Cardinality(S) <= 1
    BY <2>2, <2>3, <2>4, FS_EmptySet
  <2> QED
    BY <2>5 DEF S
<1> QED
  BY <1>1, PipelineAssumption, Always, PTL

=============================================================================
