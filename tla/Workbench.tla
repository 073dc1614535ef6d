------------------------------ MODULE Workbench ------------------------------
(****************************************************************************)
(* The workspace page as one user works with it: the canvas store           *)
(* (src/apps/web/app/store/useCanvasStore.ts), which outlives the page, and *)
(* the page's deploy, plan and destroy runs with the socket that follows    *)
(* them (src/apps/web/app/workspace/page.tsx, WorkspaceHeaderV2.tsx).       *)
(*                                                                          *)
(* A click is handled whole, and the effects it causes with it; a status    *)
(* that comes from the socket or an answer is shown first and reaches the   *)
(* store in an effect of its own (StoreLock).  What a node or a connection  *)
(* holds is in Blueprint and Connector, what the tabs of a project send     *)
(* each other and save is in Canvas, what a run's stream promises is in     *)
(* RunStream: here a run goes through its statuses in order, unless its     *)
(* stream breaks.                                                           *)
(****************************************************************************)
EXTENDS WorkbenchConstants, FiniteSets, Sequences

VARIABLES
  nodes,      \* the store's nodes, by id
  edges,      \* the store's edges, by what they connect
  focus,      \* selectedNodeId and selectedEdgeId: [node, edge]
  executing,  \* the store's isExecuting
  open,       \* the page is mounted
  viewer,     \* the user may only read the project (saveStatus is 'readonly')
  deploy,     \* deployStatus
  plan,       \* planStatus
  auto,       \* autoDestroy
  call,       \* the POST that is not answered: "none" or its kind
  stream,     \* the socket of wsRef: [run, kind, left], left being what it will say
  closing,    \* the runs whose socket the page closed and whose close event is to come
  console,    \* the lines shown, by their run: one of its own, or that its socket closed
  runs,       \* history: runs started so far
  creating,   \* a custom node is being saved
  visits      \* history: times the page was opened

canvas == <<nodes, edges, focus>>
run    == <<deploy, plan, call, stream, closing, console, runs>>
vars   == <<nodes, edges, focus, executing, open, viewer, deploy, plan, auto, call,
            stream, closing, console, runs, creating, visits>>

Kinds    == {"deploy", "plan", "destroy"}
Statuses == {"IDLE", "PENDING", "RUNNING", "CLEANUP", "SUCCESS", "FAILED"}
Closed   == [run |-> 0, kind |-> "none", left |-> <<>>]

Line(r, word) == [run |-> r, word |-> word]

\* isPipelineBusy, and the header's isBusy and isPlanBusy, which count a clean-up too.
PipelineBusy == {deploy, plan} \cap {"PENDING", "RUNNING"} # {}
ButtonsBusy  == PipelineBusy \/ deploy = "CLEANUP"
ReadOnly     == PipelineBusy \/ viewer

\* The header's Plan and Deploy, and Destroy in its menu.
ButtonEnabled(kind) == ~ButtonsBusy /\ (kind = "destroy" => ~auto)

\* What a run's socket says after the answer: it is running, a deploy that cleans
\* up after itself says so, and then how it ended.
Ends == {"SUCCESS", "FAILED"}
Says(kind) ==
  {<<"RUNNING", end>> : end \in Ends} \cup
  (IF kind = "deploy" /\ auto THEN {<<"RUNNING", "CLEANUP", end>> : end \in Ends} ELSE {})

Init ==
  /\ nodes \in SUBSET Ids /\ edges = {}
  /\ focus = [node |-> Nothing, edge |-> Nothing]
  /\ executing = FALSE
  /\ open = TRUE
  /\ viewer \in BOOLEAN
  /\ deploy = "IDLE" /\ plan = "IDLE" /\ auto = TRUE
  /\ call = "none" /\ stream = Closed /\ closing = {} /\ console = {} /\ runs = 0
  /\ creating = FALSE
  /\ visits = 1
-----------------------------------------------------------------------------
(* The store's operations on the canvas. *)

Incident(n) == {e \in edges : n \in {e[1], e[2]}}

SelectNode(n) == focus' = [node |-> n, edge |-> IF n = Nothing THEN focus.edge ELSE Nothing]
SelectEdge(e) == focus' = [edge |-> e, node |-> IF e = Nothing THEN focus.node ELSE Nothing]

\* Mutant: a node can be added whatever runs.
M_AddNode(n) == nodes' = nodes \cup {n} /\ UNCHANGED edges

\* addNode
AddNode(n) ==
  /\ nodes' = IF executing THEN nodes ELSE nodes \cup {n}
  /\ UNCHANGED edges

\* Mutant: the connections of a deleted node stay.
M_DeleteNode(n) ==
  /\ nodes' = IF executing THEN nodes ELSE nodes \ {n}
  /\ UNCHANGED <<edges, focus>>

\* deleteNode
DeleteNode(n) ==
  IF executing THEN UNCHANGED canvas
  ELSE /\ nodes' = nodes \ {n}
       /\ edges' = edges \ Incident(n)
       /\ focus' = [focus EXCEPT !.node = IF @ = n THEN Nothing ELSE @]

\* deleteEdge, of several edges in turn
DeleteEdges(E) ==
  IF executing THEN UNCHANGED canvas
  ELSE /\ edges' = edges \ E
       /\ focus' = [focus EXCEPT !.edge = IF @ \in E THEN Nothing ELSE @]
       /\ UNCHANGED nodes

\* onNodesChange and onEdgesChange with what the delete key removes: React Flow
\* takes the connections of a deleted node along.
RemoveChanges(S, E) ==
  LET gone == E \cup UNION {Incident(n) : n \in S} IN
  /\ nodes' = nodes \ S
  /\ edges' = edges \ gone
  /\ focus' = [focus EXCEPT !.edge = IF @ \in gone THEN Nothing ELSE @]

\* setNodes and setEdges, which a peer's change, a load and a revert call.
Replace ==
  /\ nodes' \in SUBSET Ids
  /\ edges' \in {{}, {e \in nodes' \X nodes' : e[1] # e[2]}}
  /\ UNCHANGED focus
-----------------------------------------------------------------------------
(* The canvas. *)

OnCanvas == open /\ UNCHANGED <<executing, open, viewer, auto, creating, visits, run>>

ClickNode(n) == OnCanvas /\ n \in nodes /\ SelectNode(n) /\ UNCHANGED <<nodes, edges>>
ClickEdge(e) == OnCanvas /\ e \in edges /\ SelectEdge(e) /\ UNCHANGED <<nodes, edges>>
ClickPane    == /\ OnCanvas
                /\ focus' = [node |-> Nothing, edge |-> Nothing]
                /\ UNCHANGED <<nodes, edges>>

\* A node of the library is clicked, or dropped on the canvas.
AddFromLibrary(n) ==
  /\ OnCanvas
  /\ n \notin nodes
  /\ ~ReadOnly
  /\ AddNode(n)
  /\ SelectNode(n)

\* The bin on a node: shown to viewers too.
ClickBin(n) == OnCanvas /\ n \in nodes /\ ~executing /\ DeleteNode(n)

\* The crosses that clear the connections into or out of a node.
ClearConnections(n, side) ==
  /\ OnCanvas
  /\ n \in nodes
  /\ ~(executing \/ viewer)
  /\ DeleteEdges({e \in edges : e[side] = n})

\* Delete Connection in the inspector: offered to viewers too.
DeleteLink ==
  /\ OnCanvas
  /\ focus.edge \in edges
  /\ DeleteEdges({focus.edge})

PressDelete ==
  /\ OnCanvas
  /\ ~ReadOnly
  /\ \/ \E n \in nodes : RemoveChanges({n}, {})
     \/ \E e \in edges : RemoveChanges({}, {e})

\* addEdge leaves a connection that is already there as it is.
Connect(a, b) ==
  /\ OnCanvas
  /\ ~ReadOnly
  /\ edges' = edges \cup {<<a, b>>}
  /\ UNCHANGED <<nodes, focus>>

\* Clear canvas, in the header's menu: resetCanvas keeps the selected edge.
ClearCanvas ==
  /\ OnCanvas
  /\ ~ButtonsBusy
  /\ nodes' = {} /\ edges' = {}
  /\ focus' = [focus EXCEPT !.node = Nothing]

\* A peer's change, the load, or a revert: taken whatever runs.
Reload == OnCanvas /\ Replace

StartCustomNode ==
  /\ open /\ ~ReadOnly /\ ~creating
  /\ creating' = TRUE
  /\ UNCHANGED <<canvas, executing, open, viewer, auto, visits, run>>

\* Its answer may come when a run has started, and even when the page is gone.
CustomNodeSaved(n) ==
  /\ creating /\ creating' = FALSE
  /\ n \notin nodes
  /\ AddNode(n)
  /\ UNCHANGED <<focus, executing, open, viewer, auto, visits, run>>

CustomNodeRefused ==
  /\ creating /\ creating' = FALSE
  /\ UNCHANGED <<canvas, executing, open, viewer, auto, visits, run>>
-----------------------------------------------------------------------------
(* The runs. *)

OnRuns == open /\ UNCHANGED <<canvas, open, viewer, creating, visits>>

\* The status of a run's machine; starting it resets the other one.
Started(kind) ==
  IF kind = "plan" THEN plan' = "PENDING" /\ deploy' = "IDLE"
                   ELSE deploy' = "PENDING" /\ plan' = "IDLE"
Show(kind, status) ==
  IF kind = "plan" THEN plan' = status /\ UNCHANGED deploy
                   ELSE deploy' = status /\ UNCHANGED plan

\* Mutant: the socket of the run before stays.
M_Hang == UNCHANGED <<stream, closing>>

\* wsRef.current.close(): the socket says nothing more, but its onclose is still to
\* be called, which writes to the console of the page if that is still there.
Hang ==
  /\ stream' = Closed
  /\ closing' = IF open' THEN closing \cup ({stream.run} \ {0}) ELSE {}

\* handleDeployClick, handlePlanClick and handleDestroyClick up to the POST.
Click(kind) ==
  /\ OnRuns
  /\ runs < MaxRuns
  /\ ButtonEnabled(kind)
  /\ kind = "destroy" \/ nodes # {}
  /\ Started(kind)
  /\ executing' = TRUE
  /\ runs' = runs + 1
  /\ console' = {Line(runs + 1, "said")}
  /\ Hang
  /\ call' = kind
  /\ UNCHANGED auto

\* The answer names the run: its status is shown and its socket opened.
Accepted ==
  /\ OnRuns
  /\ call # "none"
  /\ Show(call, "PENDING")
  /\ \E left \in Says(call) : stream' = [run |-> runs, kind |-> call, left |-> left]
  /\ call' = "none"
  /\ UNCHANGED <<executing, auto, closing, console, runs>>

\* Refused, or not reached.
Refused ==
  /\ OnRuns
  /\ call # "none"
  /\ Show(call, "FAILED")
  /\ call' = "none"
  /\ UNCHANGED <<executing, auto, stream, closing, console, runs>>

\* A status_change of the socket, and the log lines before it.
Told ==
  /\ OnRuns
  /\ stream.left # <<>>
  /\ Show(stream.kind, Head(stream.left))
  /\ stream' = [stream EXCEPT !.left = Tail(@)]
  /\ console' = console \cup {Line(stream.run, "said")}
  /\ UNCHANGED <<executing, auto, call, closing, runs>>

\* The server closes the socket, or the connection is lost: the page writes a line
\* and keeps the status.
StreamLost ==
  /\ OnRuns
  /\ stream.run # 0
  /\ stream' = Closed
  /\ console' = console \cup {Line(stream.run, "closed")}
  /\ UNCHANGED <<executing, auto, deploy, plan, call, closing, runs>>

\* The onclose of a socket that a later click has closed: it writes its line too,
\* to the console that the click has cleared.
SocketClosed(r) ==
  /\ OnRuns
  /\ closing' = closing \ {r}
  /\ console' = console \cup {Line(r, "closed")}
  /\ UNCHANGED <<executing, auto, deploy, plan, call, stream, runs>>

\* The effect that tells the store, after a status that no click has set.
StoreLock ==
  /\ OnRuns
  /\ executing # PipelineBusy
  /\ executing' = PipelineBusy
  /\ UNCHANGED <<auto, run>>

ToggleAuto ==
  /\ OnRuns
  /\ auto' = ~auto
  /\ UNCHANGED <<executing, run>>

\* The page is left: its socket is closed, and what a POST still answers is shown
\* nowhere.  The store keeps the canvas, the selection and the lock.
Leave ==
  /\ open /\ open' = FALSE
  /\ deploy' = "IDLE" /\ plan' = "IDLE" /\ call' = "none" /\ auto' = TRUE
  /\ Hang
  /\ console' = {}
  /\ UNCHANGED <<canvas, executing, viewer, creating, visits, runs>>

Enter ==
  /\ ~open /\ open' = TRUE
  /\ visits < MaxVisits /\ visits' = visits + 1
  /\ viewer' \in BOOLEAN
  /\ UNCHANGED <<canvas, executing, auto, creating, run>>
-----------------------------------------------------------------------------
Next ==
  \/ \E n \in Ids : ClickNode(n) \/ AddFromLibrary(n) \/ ClickBin(n) \/ CustomNodeSaved(n)
  \/ \E n \in Ids, side \in {1, 2} : ClearConnections(n, side)
  \/ \E e \in edges : ClickEdge(e)
  \/ ClickPane \/ DeleteLink \/ PressDelete \/ ClearCanvas \/ Reload
  \/ \E a, b \in nodes : Connect(a, b)
  \/ StartCustomNode \/ CustomNodeRefused
  \/ \E kind \in Kinds : Click(kind)
  \/ Accepted \/ Refused \/ Told \/ StreamLost \/ StoreLock
  \/ \E r \in closing : SocketClosed(r)
  \/ ToggleAuto \/ Leave \/ Enter

Spec == Init /\ [][Next]_vars
-----------------------------------------------------------------------------
(* Properties. *)

Edge == Ids \X Ids

TypeOK ==
  /\ nodes \subseteq Ids /\ edges \subseteq Edge
  /\ focus \in [node : Ids \cup {Nothing}, edge : Edge \cup {Nothing}]
  /\ deploy \in Statuses /\ plan \in Statuses
  /\ call \in Kinds \cup {"none"}
  /\ stream \in [run : 0..MaxRuns, kind : Kinds \cup {"none"}, left : Seq(Statuses)]
  /\ closing \subseteq 1..MaxRuns
  /\ console \subseteq [run : 1..MaxRuns, word : {"said", "closed"}]
  /\ runs \in 0..MaxRuns /\ visits \in 0..MaxVisits
  /\ {executing, open, viewer, auto, creating} \subseteq BOOLEAN

\* The comment at the two statuses: each of the three handlers resets the other
\* one, "so at most one is ever non-IDLE at a time".  What the console shows is the
\* last run's, but for the one line that an earlier run's socket writes when it closes.
OneRunAtATime ==
  /\ deploy = "IDLE" \/ plan = "IDLE"
  /\ \A line \in console : line.run = runs \/ line = Line(line.run, "closed")

\* While a run is pending or running the store refuses too, wherever a change of
\* the canvas comes from.
LockReachesStore == PipelineBusy => executing

\* "Canvas is locked": the user's own actions, and answers that come late, change
\* no node and no connection while a run is pending or running; only a peer's
\* change, a load or a revert does.
LockKeeps == PipelineBusy => UNCHANGED <<nodes, edges>> \/ Reload
LockHolds == [][LockKeeps]_vars

\* Both ends of each connection are on the canvas, which is what is compiled,
\* and the inspector has one subject: "a node and an edge can't be selected together".
CanvasIsWhole ==
  /\ \A e \in edges : e[1] \in nodes /\ e[2] \in nodes
  /\ focus.node = Nothing \/ focus.edge = Nothing
=============================================================================
