------------------------------ MODULE Pipeline ------------------------------
(****************************************************************************)
(* RunPipeline (src/apps/api/runner/runner.go): the phases of deploy, plan  *)
(* and destroy runs, the node statuses they report, and the run directory.  *)
(*                                                                          *)
(* Every run of every project works in one directory,                       *)
(* ./data/workspace/current, which nothing empties; a phase is skipped when *)
(* its file is not there, so a run can meet the files of an earlier run, or *)
(* of one that is running now.                                              *)
(*                                                                          *)
(* While Terraform or Ansible runs, a relay goroutine takes the command's   *)
(* lines from a channel and turns them into node statuses; when the command *)
(* has ended, RunPipeline closes that channel and waits for the relay.  The *)
(* command itself is module SpawnCommand; here it prints progress and exits.*)
(* What a run tells its watchers is module RunStream.                       *)
(****************************************************************************)
EXTENDS Naturals, Sequences, FiniteSets

CONSTANTS
  Runs, Projects,
  Nodes, Tech,     \* the nodes canvases are made of, and the tech of each
  Place,           \* the place of each node on the canvas, in its order
  Canvases,        \* the sets of nodes a run may be started with
  Bundles,         \* the sets of files a run may be started with
  ProjectOf,       \* the project of each run
  LeftBehind,      \* the sets of files earlier runs may have left behind
  Actions,         \* the actions started
  MaxActive,       \* bound: runs at one time
  MaxReports,      \* bound: progress lines of one command
  RelayCap         \* capacity of the relay channel (200 in the code)

Phases == {"Terraform", "Ansible", "Kubernetes"}
File == [Terraform |-> "main.tf", Ansible |-> "playbook.yml",
         Kubernetes |-> "deployment.yaml"]
Files == {"main.tf", "playbook.yml", "deployment.yaml"}
Nobody  == "nobody"
Earlier == "earlier"  \* a run that ended before the process was started

ASSUME PipelineAssumption ==
  /\ Tech \in [Nodes -> Phases \cup {"Source", "Target", "Other"}]
  /\ IsFiniteSet(Nodes)
  /\ Place \in [Nodes -> Nat]
  /\ \A n, o \in Nodes : Place[n] = Place[o] => n = o
  /\ Canvases \subseteq SUBSET Nodes
  /\ Bundles \subseteq SUBSET Files
  /\ ProjectOf \in [Runs \cup {Earlier} -> Projects]
  /\ LeftBehind \subseteq SUBSET Files
  /\ Actions \subseteq {"deploy", "plan", "destroy"}
  /\ Nobody \notin Runs /\ Earlier \notin Runs
  /\ MaxActive \in Nat /\ MaxReports \in Nat /\ RelayCap \in Nat \ {0}

VARIABLES
  run,     \* per run: what it was started with
  pc,      \* per run: where RunPipeline is
  status,  \* per run: its nodes' statuses, as reported by onNodeStatus
  relay,   \* per run: the relay goroutine's channel and task index
  outcome, \* per run: what onComplete was called with
  disk,    \* the run directory: which run wrote each file last
  used     \* per run: the writers of the files its commands ran with

vars == <<run, pc, status, relay, outcome, disk, used>>

NodeStatus == {"none", "pending", "running", "completed", "failed"}

\* A canvas that is not valid JSON has no nodes, and then all phases run.  Only
\* a deploy run clones a repository or cleans up; a destroy run has no files.
Parameters ==
  [action : Actions, parsed : BOOLEAN, nodes : Canvases \cup {{}},
   repo : BOOLEAN, files : SUBSET Files, auto : BOOLEAN]

Requests == {p \in Parameters :
  /\ p.action \in Actions
  /\ ~p.parsed => p.nodes = {} /\ ~p.repo
  /\ p.files \in (IF p.action = "destroy" THEN {{}} ELSE Bundles)
  /\ p.action # "deploy" => ~p.auto /\ ~p.repo}

NoRun == [action |-> "none", parsed |-> TRUE, nodes |-> {},
          repo |-> FALSE, files |-> {}, auto |-> FALSE]

Init ==
  /\ run = [r \in Runs |-> NoRun]
  /\ pc = [r \in Runs |-> [at |-> "new", cmd |-> "none"]]
  /\ status = [r \in Runs |-> [n \in Nodes |-> "none"]]
  /\ relay = [r \in Runs |-> [chan |-> <<>>, printed |-> 0, task |-> 0]]
  /\ outcome = [r \in Runs |-> "none"]
  /\ \E left \in LeftBehind :
       disk = [f \in Files \cup {"app"} |-> IF f \in left THEN Earlier ELSE Nobody]
  /\ used = [r \in Runs |-> {}]

-----------------------------------------------------------------------------
NodesOf(r, t) == {n \in run[r].nodes : Tech[n] = t}

\* The nth of the run's Ansible nodes, which are the tasks of its playbook.
Position(r, n) == Cardinality({o \in NodesOf(r, "Ansible") : Place[o] <= Place[n]})

\* hasTfNodes, hasAnsibleNodes, hasK8sNodes.
Has(r, p) == ~run[r].parsed \/ NodesOf(r, p) # {}

\* The phase's file is in the run directory, whoever put it there.
Ready(r, p) == Has(r, p) /\ disk[File[p]] # Nobody

\* emitSliceStatus.
emitSliceStatus(r, ns, s) ==
  status' = [status EXCEPT ![r] = [n \in Nodes |-> IF n \in ns THEN s ELSE @[n]]]

\* Before a step, and while a phase's command runs or after it exited.
Before(at)     == [at |-> at, cmd |-> "none"]
Running(p)     == [at |-> p, cmd |-> "running"]
Exited(p, how) == [at |-> p, cmd |-> how]

Goto(r, from, to) == pc[r] = from /\ pc' = [pc EXCEPT ![r] = to]

\* onComplete and return.
Complete(r, from, s) ==
  /\ Goto(r, from, Before("done"))
  /\ outcome' = [outcome EXCEPT ![r] = s]

\* The relay takes a line from its channel, and is at a task.
Received(l, task) ==
  [chan |-> Tail(l.chan), printed |-> l.printed, task |-> task]

NextPhase == [source |-> "Terraform", Terraform |-> "Ansible",
              Ansible |-> "Kubernetes", Kubernetes |-> "cleanup"]

-----------------------------------------------------------------------------
(* Mutated definitions: each breaks one property below.                     *)

\* The phase goes on without waiting for the relay.
M_PhaseSucceeds(r, p) ==
  /\ run[r].action = "deploy"
  /\ Goto(r, Exited(p, "ok"), Before(NextPhase[p]))
  /\ emitSliceStatus(r, NodesOf(r, p), "completed")
  /\ UNCHANGED <<run, relay, outcome, disk, used>>

\* A failed command does not mark its nodes.
M_PhaseFails(r, p) ==
  /\ run[r].action \in {"deploy", "destroy"}
  /\ relay[r].chan = <<>>
  /\ Complete(r, Exited(p, "failed"), "FAILED")
  /\ UNCHANGED <<run, status, relay, disk, used>>

\* A skipped phase leaves its nodes pending.
M_SkipPhase(r, p) ==
  /\ run[r].action = "deploy"
  /\ ~Ready(r, p)
  /\ Goto(r, Before(p), Before(NextPhase[p]))
  /\ UNCHANGED <<run, status, relay, outcome, disk, used>>

\* The relay marks the next task before it completes the last.
M_RelayTask(r) ==
  /\ relay[r].chan # <<>>
  /\ Head(relay[r].chan).status = "TASK"
  /\ status' = [status EXCEPT ![r] =
       [n \in Nodes |->
          IF n \in NodesOf(r, "Ansible") /\ Position(r, n) = relay[r].task + 1
          THEN "running" ELSE @[n]]]
  /\ relay' = [relay EXCEPT ![r] = Received(@, relay[r].task + 1)]
  /\ UNCHANGED <<run, pc, outcome, disk, used>>

\* Only a deploy run starts the relay goroutine.
M_RelayNode(r) ==
  /\ run[r].action = "deploy"
  /\ relay[r].chan # <<>>
  /\ Head(relay[r].chan).status # "TASK"
  /\ LET m == Head(relay[r].chan) IN
       status' = [status EXCEPT ![r][m.node] = m.status]
  /\ relay' = [relay EXCEPT ![r] = Received(@, relay[r].task)]
  /\ UNCHANGED <<run, pc, outcome, disk, used>>

-----------------------------------------------------------------------------
(* Start of a run.                                                          *)

\* The request handler has accepted the run and calls RunPipeline.
Start(r) ==
  /\ Cardinality({x \in Runs : pc[x].at \notin {"new", "done"}}) < MaxActive
  /\ Goto(r, Before("new"), Before("start"))
  /\ \E p \in Requests : run' = [run EXCEPT ![r] = p]
  /\ UNCHANGED <<status, relay, outcome, disk, used>>

\* The first statuses of a deploy or plan run.
ReportPending(r) ==
  /\ run[r].action \in {"deploy", "plan"}
  /\ Goto(r, Before("start"), Before("files"))
  /\ status' = [status EXCEPT ![r] =
       [n \in Nodes |->
          IF n \notin run[r].nodes THEN "none"
          ELSE IF Tech[n] = "Target" /\ run[r].action = "deploy" THEN "completed"
          ELSE "pending"]]
  /\ UNCHANGED <<run, relay, outcome, disk, used>>

\* The files are written one by one, over whatever is there.
WriteFile(r) ==
  /\ pc[r].at = "files"
  /\ \E f \in run[r].files :
       /\ disk' = [disk EXCEPT ![f] = r]
       /\ run' = [run EXCEPT ![r].files = @ \ {f}]
  /\ UNCHANGED <<pc, status, relay, outcome, used>>

\* MkdirAll or WriteFile fails.
WriteFails(r) ==
  /\ run[r].files # {}
  /\ Complete(r, Before("files"), "FAILED")
  /\ UNCHANGED <<run, status, relay, disk, used>>

-----------------------------------------------------------------------------
(* Plan.                                                                    *)

\* Nothing to plan, or terraform init and terraform plan; no node is reported.
Plan(r) ==
  /\ run[r].action = "plan"
  /\ run[r].files = {}
  /\ IF Ready(r, "Terraform")
     THEN /\ used' = [used EXCEPT ![r] = @ \cup {disk["main.tf"]}]
          /\ \E s \in {"SUCCESS", "FAILED"} : Complete(r, Before("files"), s)
     ELSE /\ used' = used
          /\ Complete(r, Before("files"), "SUCCESS")
  /\ UNCHANGED <<run, status, relay, disk>>

-----------------------------------------------------------------------------
(* Deploy.                                                                  *)

FilesWritten(r) ==
  /\ run[r].action = "deploy"
  /\ run[r].files = {}
  /\ Goto(r, Before("files"), Before("source"))
  /\ IF run[r].repo /\ NodesOf(r, "Source") # {}
     THEN emitSliceStatus(r, NodesOf(r, "Source"), "running")
     ELSE emitSliceStatus(r, NodesOf(r, "Source"), "completed")
  /\ disk' = [disk EXCEPT !["app"] =
                IF run[r].repo /\ NodesOf(r, "Source") # {} THEN Nobody
                ELSE IF @ = Nobody THEN r ELSE @]
  /\ UNCHANGED <<run, relay, outcome, used>>

\* git clone into the run directory's app, removed beforehand.
Clone(r) ==
  /\ \E n \in NodesOf(r, "Source") : status[r][n] = "running"
  /\ \/ /\ Goto(r, Before("source"), Before("Terraform"))
        /\ disk' = [disk EXCEPT !["app"] = r]
        /\ emitSliceStatus(r, NodesOf(r, "Source"), "completed")
        /\ outcome' = outcome
     \/ /\ Complete(r, Before("source"), "FAILED")
        /\ emitSliceStatus(r, NodesOf(r, "Source"), "failed")
        /\ disk' = disk
  /\ UNCHANGED <<run, relay, used>>

NothingToClone(r) ==
  /\ \A n \in NodesOf(r, "Source") : status[r][n] # "running"
  /\ Goto(r, Before("source"), Before("Terraform"))
  /\ UNCHANGED <<run, status, relay, outcome, disk, used>>

SkipPhase(r, p) ==
  /\ run[r].action = "deploy"
  /\ ~Ready(r, p)
  /\ Goto(r, Before(p), Before(NextPhase[p]))
  /\ emitSliceStatus(r, NodesOf(r, p), "completed")
  /\ UNCHANGED <<run, relay, outcome, disk, used>>

\* What must be there before the phase's command: terraform init, or an SSH key.
PrepareFails(r, p) ==
  /\ run[r].action = "deploy"
  /\ p \in {"Terraform", "Ansible"}
  /\ Ready(r, p)
  /\ Complete(r, Before(p), "FAILED")
  /\ emitSliceStatus(r, NodesOf(r, p), "failed")
  /\ used' = [used EXCEPT ![r] = IF p = "Terraform" THEN @ \cup {disk["main.tf"]} ELSE @]
  /\ UNCHANGED <<run, relay, disk>>

\* The phase's command and, but for kubectl, a new relay goroutine.
BeginPhase(r, p) ==
  /\ run[r].action = "deploy"
  /\ Ready(r, p)
  /\ Goto(r, Before(p), Running(p))
  /\ IF p = "Kubernetes" THEN emitSliceStatus(r, NodesOf(r, p), "running")
     ELSE status' = status
  /\ relay' = [relay EXCEPT ![r] = [chan |-> <<>>, printed |-> 0, task |-> 0]]
  /\ used' = [used EXCEPT ![r] = @ \cup {disk[File[p]]} \cup
                (IF p = "Ansible" /\ disk["app"] # Nobody THEN {disk["app"]} ELSE {})]
  /\ UNCHANGED <<run, outcome, disk>>

-----------------------------------------------------------------------------
(* A phase's command and its relay, in deploy and destroy.                  *)

\* Terraform names a node and what happens to it; Ansible announces a task.
Task == [node |-> Nobody, status |-> "TASK"]

Lines(r) ==
  IF pc[r] = Running("Terraform")
  THEN [node : NodesOf(r, "Terraform"), status : {"running", "completed"}]
  ELSE IF pc[r] = Running("Ansible") THEN {Task} ELSE {}

Queued(l, m) ==
  [chan |-> Append(l.chan, m), printed |-> l.printed + 1, task |-> l.task]

\* A full channel blocks the command.
Report(r) ==
  /\ relay[r].printed < MaxReports
  /\ Len(relay[r].chan) < RelayCap
  /\ \E m \in Lines(r) :
       relay' = [relay EXCEPT ![r] = Queued(@, m)]
  /\ UNCHANGED <<run, pc, status, outcome, disk, used>>

CommandExits(r, p) ==
  /\ \E ok \in {"ok", "failed"} : Goto(r, Running(p), Exited(p, ok))
  /\ UNCHANGED <<run, status, relay, outcome, disk, used>>

RelayNode(r) ==
  /\ relay[r].chan # <<>>
  /\ Head(relay[r].chan).status # "TASK"
  /\ LET m == Head(relay[r].chan) IN
       status' = [status EXCEPT ![r][m.node] = m.status]
  /\ relay' = [relay EXCEPT ![r] = Received(@, relay[r].task)]
  /\ UNCHANGED <<run, pc, outcome, disk, used>>

\* The next task starts: the node before is completed and the next one running, as
\* far as there are Ansible nodes.
RelayTask(r) ==
  /\ relay[r].chan # <<>>
  /\ Head(relay[r].chan).status = "TASK"
  /\ status' = [status EXCEPT ![r] =
       [n \in Nodes |->
          IF n \notin NodesOf(r, "Ansible") THEN @[n]
          ELSE IF Position(r, n) = relay[r].task + 1 THEN "running"
          ELSE IF Position(r, n) = relay[r].task THEN "completed" ELSE @[n]]]
  /\ relay' = [relay EXCEPT ![r] = Received(@, relay[r].task + 1)]
  /\ UNCHANGED <<run, pc, outcome, disk, used>>

\* close and Wait for the relay, then the result.
PhaseSucceeds(r, p) ==
  /\ run[r].action = "deploy"
  /\ relay[r].chan = <<>>
  /\ Goto(r, Exited(p, "ok"), Before(NextPhase[p]))
  /\ emitSliceStatus(r, NodesOf(r, p), "completed")
  /\ UNCHANGED <<run, relay, outcome, disk, used>>

PhaseFails(r, p) ==
  /\ run[r].action \in {"deploy", "destroy"}
  /\ relay[r].chan = <<>>
  /\ Complete(r, Exited(p, "failed"), "FAILED")
  /\ emitSliceStatus(r, NodesOf(r, p), "failed")
  /\ UNCHANGED <<run, relay, disk, used>>

\* Auto-destroy, whatever it returns, and the end of a successful deploy.
CleanUp(r) ==
  /\ Complete(r, Before("cleanup"), "SUCCESS")
  /\ used' = [used EXCEPT ![r] =
                @ \cup (IF run[r].auto /\ Ready(r, "Terraform") THEN {disk["main.tf"]} ELSE {})]
  /\ UNCHANGED <<run, status, relay, disk>>

-----------------------------------------------------------------------------
(* Destroy.                                                                 *)

\* Only Terraform has something to tear down, and only if its file is there.
StartDestroy(r) ==
  /\ run[r].action = "destroy"
  /\ LET ready == Ready(r, "Terraform")
         left == {n \in run[r].nodes : Tech[n] = "Other" \/ (Tech[n] = "Terraform" /\ ready)}
     IN /\ Goto(r, Before("start"), IF ready THEN Running("Terraform") ELSE Before("done"))
        /\ status' = [status EXCEPT ![r] =
             [n \in Nodes |-> IF n \notin run[r].nodes THEN "none"
                              ELSE IF n \in left THEN "pending" ELSE "completed"]]
        /\ outcome' = [outcome EXCEPT ![r] = IF ready THEN @ ELSE "SUCCESS"]
        /\ used' = [used EXCEPT ![r] = IF ready THEN {disk["main.tf"]} ELSE @]
  /\ UNCHANGED <<run, relay, disk>>

DestroySucceeds(r) ==
  /\ run[r].action = "destroy"
  /\ relay[r].chan = <<>>
  /\ Complete(r, Exited("Terraform", "ok"), "SUCCESS")
  /\ emitSliceStatus(r, NodesOf(r, "Terraform"), "completed")
  /\ UNCHANGED <<run, relay, disk, used>>

-----------------------------------------------------------------------------
Relay(r) == RelayNode(r) \/ RelayTask(r)

Phase(r, p) ==
  \/ SkipPhase(r, p) \/ PrepareFails(r, p) \/ BeginPhase(r, p)
  \/ CommandExits(r, p) \/ PhaseSucceeds(r, p) \/ PhaseFails(r, p)

RunPipeline(r) ==
  \/ ReportPending(r) \/ WriteFile(r) \/ WriteFails(r) \/ Plan(r)
  \/ FilesWritten(r) \/ Clone(r) \/ NothingToClone(r)
  \/ \E p \in Phases : Phase(r, p)
  \/ CleanUp(r) \/ StartDestroy(r) \/ DestroySucceeds(r)

Next == \E r \in Runs : Start(r) \/ RunPipeline(r) \/ Report(r) \/ Relay(r)

Spec == Init /\ [][Next]_vars

\* Fairness.  The goroutines of a run that can go on do, and commands exit.  No
\* command has to print anything.
FairSpec == Spec /\ \A r \in Runs : WF_vars(RunPipeline(r)) /\ WF_vars(Relay(r))

-----------------------------------------------------------------------------
(* Properties.                                                              *)

PC == [at : {"new", "start", "files", "source", "cleanup", "done"} \cup Phases,
       cmd : {"none", "running", "ok", "failed"}]

ProgressLine == [node : Nodes, status : {"running", "completed"}] \cup {Task}

TypeOK ==
  /\ run \in [Runs -> Parameters \cup {NoRun}]
  /\ pc \in [Runs -> PC]
  /\ status \in [Runs -> [Nodes -> NodeStatus]]
  /\ relay \in [Runs -> [chan : Seq(ProgressLine), printed : 0..MaxReports, task : Nat]]
  /\ \A r \in Runs : Len(relay[r].chan) <= RelayCap
  /\ outcome \in [Runs -> {"none", "SUCCESS", "FAILED"}]
  /\ disk \in [Files \cup {"app"} -> Runs \cup {Nobody, Earlier}]
  /\ used \in [Runs -> SUBSET (Runs \cup {Earlier})]

\* A deploy that ends with SUCCESS has completed every node that belongs to a
\* phase, whichever phases were skipped and whatever the relay reported.
SuccessIsComplete ==
  \A r \in Runs : (outcome[r] = "SUCCESS" /\ run[r].action = "deploy") =>
    \A n \in run[r].nodes : Tech[n] # "Other" => status[r][n] = "completed"

\* No node is shown running when its run has ended, however it ended.
NoNodeLeftRunning ==
  \A r \in Runs : outcome[r] # "none" => \A n \in Nodes : status[r][n] # "running"

\* Ansible works through its tasks one node at a time.
OneTaskAtATime ==
  \A r \in Runs : Cardinality({n \in NodesOf(r, "Ansible") : status[r][n] = "running"}) <= 1

\* In a deploy, a phase's nodes are touched only when the phases before it have
\* completed theirs, although a relay goroutine reports for each.
PhasesInOrder ==
  [][\A r \in Runs : run[r].action = "deploy" =>
       /\ (\E n \in NodesOf(r, "Ansible") : status'[r][n] # status[r][n] /\ status[r][n] # "none")
            => \A n \in NodesOf(r, "Terraform") : status'[r][n] = "completed"
       /\ (\E n \in NodesOf(r, "Kubernetes") : status'[r][n] # status[r][n] /\ status[r][n] # "none")
            => \A n \in NodesOf(r, "Ansible") : status'[r][n] = "completed"]_vars

\* Every run that is started ends, with a full relay channel on the way.
RunEnds == \A r \in Runs : (pc[r].at = "start") ~> (outcome[r] # "none")

\* "runner.RunPipeline writes the files to a temporary run directory and invokes
\* Terraform, Ansible and kubectl": a run's commands work on files of its own
\* project, when runs of two projects do not even overlap.
RunsItsProjectsFiles ==
  \A r \in Runs : \A w \in used[r] : ProjectOf[w] = ProjectOf[r]
=============================================================================
