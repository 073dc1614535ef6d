-------------------------- MODULE Workspace_proofs --------------------------
(****************************************************************************)
(* Proofs about the modules of the workspace page: Workbench,               *)
(* PlaybookOrder, Connector and Tour.                                       *)
(*                                                                          *)
(* The workspace page, for every set of node ids and any number of runs and *)
(* visits: the lock keeps what it promises, although the store learns of it *)
(* in an effect, and the canvas that is compiled stays whole.               *)
(*                                                                          *)
(* The argument: a POST is out only while its machine shows PENDING and no  *)
(* socket is open (CallIsPending), and a socket belongs to the last run and *)
(* says RUNNING only as its first word (StreamIsTheLast). So a machine      *)
(* becomes pending only by a click, which sets the store's lock itself, and *)
(* the lock never has to be set late, only lifted late (LockReachesStore).  *)
(*                                                                          *)
(* The playbook's order, for every number of nodes and every list of        *)
(* connections: a node's tasks follow those of the nodes before it unless a *)
(* cycle holds it back, and every node's tasks are written once.            *)
(*                                                                          *)
(* The argument: inDegree counts exactly the connections that are still     *)
(* waiting to be counted down (CountsWaiting), a node is queued when that   *)
(* set becomes empty and is in the queue or taken from then on, and a node  *)
(* whose set is empty has every node before it in the list.                 *)
(*                                                                          *)
(* A connection: whatever is stored tells what was chosen, as an override   *)
(* or as what is drawn without one (ChoiceIsStored).                        *)
(*                                                                          *)
(* The tour: a target that is measured has its box in the window            *)
(* (MeasuredInView), and each side the card is put on has room for it       *)
(* there.                                                                   *)
(****************************************************************************)
EXTENDS Workbench, PlaybookOrder, Connector, Tour, FiniteSetTheorems, SequenceTheorems, TLAPS

(* Workbench. *)

Words == {"RUNNING", "CLEANUP", "SUCCESS", "FAILED"}

\* What the machine of a kind of run shows, and the other one.
Shown(kind)  == IF kind = "plan" THEN plan ELSE deploy
Other(kind) == IF kind = "plan" THEN deploy ELSE plan

RunTypes ==
  /\ deploy \in Statuses /\ plan \in Statuses
  /\ call \in Kinds \cup {"none"}
  /\ stream \in [run : 0..MaxRuns, kind : Kinds \cup {"none"}, left : Seq(Statuses)]
  /\ closing \subseteq 1..MaxRuns /\ runs \in 0..MaxRuns
  /\ console \subseteq [run : 1..MaxRuns, word : {"said", "closed"}]
  /\ executing \in BOOLEAN /\ auto \in BOOLEAN

PageTypes ==
  /\ visits \in 0..MaxVisits
  /\ open \in BOOLEAN /\ viewer \in BOOLEAN /\ creating \in BOOLEAN

CanvasTypes ==
  /\ nodes \subseteq Ids /\ edges \subseteq Edge
  /\ focus \in [node : Ids \cup {Nothing}, edge : Edge \cup {Nothing}]

CallIsPending ==
  call # "none" => /\ Shown(call) = "PENDING" /\ Other(call) = "IDLE"
                   /\ stream.left = <<>>
                   /\ runs # 0

StreamIsTheLast ==
  stream.left # <<>> => /\ stream.left \in Seq(Words)
                        /\ \A i \in 2..Len(stream.left) : stream.left[i] # "RUNNING"
                        /\ Head(stream.left) = "RUNNING" => Shown(stream.kind) = "PENDING"
                        /\ Other(stream.kind) = "IDLE"
                        /\ stream.kind \in Kinds
                        /\ stream.run = runs /\ runs # 0

RunInv    == RunTypes /\ CallIsPending /\ StreamIsTheLast /\ OneRunAtATime /\ LockReachesStore
CanvasInv == CanvasTypes /\ CanvasIsWhole
Inv       == RunInv /\ CanvasInv /\ PageTypes

runVars == <<executing, auto, run>>
-----------------------------------------------------------------------------
(* What a socket says. *)

LEMMA SaysRunningFirst ==
  ASSUME NEW kind \in Kinds, NEW s \in Says(kind)
  PROVE  /\ s \in Seq(Words) /\ s # <<>> /\ Head(s) = "RUNNING"
         /\ \A i \in 2..Len(s) : s[i] # "RUNNING"
<1>1. \/ \E end \in Ends : s = <<"RUNNING", end>>
      \/ \E end \in Ends : s = <<"RUNNING", "CLEANUP", end>>
  BY DEF Says
<1>2. ASSUME NEW end \in Ends, s = <<"RUNNING", end>>
      PROVE  s \in Seq(Words) /\ s # <<>> /\ Head(s) = "RUNNING" /\ \A i \in 2..Len(s) : s[i] # "RUNNING"
  BY <1>2 DEF Words, Ends
<1>3. ASSUME NEW end \in Ends, s = <<"RUNNING", "CLEANUP", end>>
      PROVE  s \in Seq(Words) /\ s # <<>> /\ Head(s) = "RUNNING" /\ \A i \in 2..Len(s) : s[i] # "RUNNING"
  BY <1>3 DEF Words, Ends
<1> QED BY <1>1, <1>2, <1>3

LEMMA SaysTheRest ==
  ASSUME NEW s \in Seq(Words), s # <<>>, \A i \in 2..Len(s) : s[i] # "RUNNING"
  PROVE  /\ Head(s) \in Words /\ Tail(s) \in Seq(Words)
         /\ Tail(s) # <<>> => Head(Tail(s)) # "RUNNING"
         /\ \A i \in 2..Len(Tail(s)) : Tail(s)[i] # "RUNNING"
<1> DEFINE t == Tail(s)
<1>1. /\ Head(s) \in Words /\ t \in Seq(Words) /\ Len(s) \in Nat \ {0} /\ Len(t) = Len(s) - 1
      /\ \A i \in 1..Len(t) : t[i] = s[i + 1]
  OBVIOUS
<1>2. t # <<>> => Head(t) = t[1] /\ 1 \in 1..Len(t)
  BY <1>1
<1> HIDE DEF t
<1>3. \A i \in 1..Len(t) : i + 1 \in 2..Len(s)
  BY <1>1
<1>4. \A i \in 2..Len(t) : i \in 1..Len(t)
  BY <1>1
<1> QED BY <1>1, <1>2, <1>3, <1>4 DEF t

-----------------------------------------------------------------------------
(* The runs. *)

LEMMA RunInit == Init => RunInv
<1> SUFFICES ASSUME Init PROVE RunInv
  OBVIOUS
<1>1. RunTypes
  <2>1. stream \in [run : 0..MaxRuns, kind : Kinds \cup {"none"}, left : Seq(Statuses)]
    <3>1. <<>> \in Seq(Statuses) /\ 0 \in 0..MaxRuns
      BY WorkbenchAssumption
    <3> QED BY <3>1 DEF Init, Closed
  <2>2. runs \in 0..MaxRuns
    BY WorkbenchAssumption DEF Init
  <2> QED BY <2>1, <2>2 DEF Init, RunTypes, Statuses
<1>2. CallIsPending /\ StreamIsTheLast
  BY DEF Init, Closed, CallIsPending, StreamIsTheLast
<1>3. OneRunAtATime /\ LockReachesStore
  BY DEF Init, OneRunAtATime, LockReachesStore, PipelineBusy
<1> QED BY <1>1, <1>2, <1>3 DEF RunInv

LEMMA RunKept == RunInv /\ UNCHANGED runVars => RunInv'
BY DEF RunInv, runVars, run, RunTypes, CallIsPending, StreamIsTheLast, OneRunAtATime,
       LockReachesStore, PipelineBusy, Shown, Other

\* The run of an open socket is one that was started.
LEMMA RunNumbers == RunTypes => stream.run \in {0} \cup 1..MaxRuns
BY WorkbenchAssumption DEF RunTypes

LEMMA ClickRun == ASSUME NEW kind \in Kinds PROVE RunInv /\ Click(kind) => RunInv'
<1> SUFFICES ASSUME RunInv, Click(kind) PROVE RunInv'
  OBVIOUS
<1>1. /\ runs \in 0..MaxRuns /\ runs < MaxRuns /\ runs' = runs + 1
      /\ console' = {Line(runs + 1, "said")}
      /\ executing' = TRUE /\ auto' = auto /\ auto \in BOOLEAN
      /\ stream' = Closed /\ closing' \subseteq 1..MaxRuns /\ call' = kind
      /\ IF kind = "plan" THEN plan' = "PENDING" /\ deploy' = "IDLE"
                          ELSE deploy' = "PENDING" /\ plan' = "IDLE"
  BY RunNumbers DEF Click, OnRuns, Hang, Started, RunInv, RunTypes
<1>2. RunTypes'
  <2>1. runs + 1 \in 0..MaxRuns /\ runs + 1 \in 1..MaxRuns /\ 0 \in 0..MaxRuns
    BY <1>1, WorkbenchAssumption
  <2>2. stream' \in [run : 0..MaxRuns, kind : Kinds \cup {"none"}, left : Seq(Statuses)]
    <3>1. <<>> \in Seq(Statuses)
      OBVIOUS
    <3> QED BY <3>1, <2>1, <1>1 DEF Closed
  <2>3. console' \subseteq [run : 1..MaxRuns, word : {"said", "closed"}]
    BY <2>1, <1>1 DEF Line
  <2> QED BY <2>1, <2>2, <2>3, <1>1 DEF RunTypes, Statuses
<1>3. CallIsPending' /\ StreamIsTheLast'
  BY <1>1, WorkbenchAssumption DEF Closed, CallIsPending, StreamIsTheLast, Shown, Other
<1>4. OneRunAtATime' /\ LockReachesStore'
  BY <1>1 DEF OneRunAtATime, LockReachesStore, Line
<1> QED BY <1>2, <1>3, <1>4 DEF RunInv

LEMMA AcceptedRun == RunInv /\ Accepted => RunInv'
<1> SUFFICES ASSUME RunInv, Accepted PROVE RunInv'
  OBVIOUS
<1>1. PICK left \in Says(call) : stream' = [run |-> runs, kind |-> call, left |-> left]
  BY DEF Accepted
<1>2. /\ call \in Kinds /\ call' = "none" /\ UNCHANGED <<executing, auto, closing, console, runs>>
      /\ Shown(call) = "PENDING" /\ Other(call) = "IDLE" /\ runs # 0
      /\ RunTypes /\ OneRunAtATime /\ LockReachesStore
  BY DEF Accepted, RunInv, RunTypes, CallIsPending
<1>3. deploy' = deploy /\ plan' = plan
  BY <1>2 DEF Accepted, Show, Shown
<1>4. /\ left \in Seq(Words) /\ left # <<>> /\ Head(left) = "RUNNING"
      /\ \A i \in 2..Len(left) : left[i] # "RUNNING"
  BY <1>1, <1>2, SaysRunningFirst
<1>5. RunTypes'
  <2>1. left \in Seq(Statuses)
    BY <1>4 DEF Words, Statuses
  <2>2. stream' \in [run : 0..MaxRuns, kind : Kinds \cup {"none"}, left : Seq(Statuses)]
    BY <2>1, <1>1, <1>2 DEF RunTypes
  <2> QED BY <2>2, <1>2, <1>3 DEF RunTypes
<1>6. CallIsPending' /\ StreamIsTheLast'
  BY <1>1, <1>2, <1>3, <1>4 DEF CallIsPending, StreamIsTheLast, Shown, Other
<1>7. OneRunAtATime' /\ LockReachesStore'
  BY <1>2, <1>3 DEF OneRunAtATime, LockReachesStore, PipelineBusy
<1> QED BY <1>5, <1>6, <1>7 DEF RunInv

LEMMA RefusedRun == RunInv /\ Refused => RunInv'
<1> SUFFICES ASSUME RunInv, Refused PROVE RunInv'
  OBVIOUS
<1>1. /\ call \in Kinds /\ call' = "none" /\ UNCHANGED <<executing, auto, stream, closing, console, runs>>
      /\ Other(call) = "IDLE" /\ stream.left = <<>> /\ executing = TRUE
      /\ IF call = "plan" THEN plan' = "FAILED" /\ deploy' = deploy
                          ELSE deploy' = "FAILED" /\ plan' = plan
      /\ RunTypes /\ OneRunAtATime
  <2>1. PipelineBusy
    BY DEF Refused, RunInv, CallIsPending, Shown, PipelineBusy
  <2> QED BY <2>1 DEF Refused, RunInv, RunTypes, CallIsPending, LockReachesStore, Show
<1>2. RunTypes'
  BY <1>1 DEF RunTypes, Statuses
<1>3. CallIsPending' /\ StreamIsTheLast'
  BY <1>1 DEF CallIsPending, StreamIsTheLast
<1>4. OneRunAtATime' /\ LockReachesStore'
  BY <1>1 DEF OneRunAtATime, LockReachesStore, Other
<1> QED BY <1>2, <1>3, <1>4 DEF RunInv

LEMMA ToldRun == RunInv /\ Told => RunInv'
<1> SUFFICES ASSUME RunInv, Told PROVE RunInv'
  OBVIOUS
<1> DEFINE s == stream.left
           kind == stream.kind
<1>1. /\ s \in Seq(Words) /\ s # <<>> /\ \A i \in 2..Len(s) : s[i] # "RUNNING"
      /\ Head(s) = "RUNNING" => Shown(kind) = "PENDING"
      /\ Other(kind) = "IDLE" /\ kind \in Kinds /\ stream.run = runs /\ runs # 0
      /\ RunTypes /\ OneRunAtATime /\ LockReachesStore /\ CallIsPending
  BY DEF Told, RunInv, StreamIsTheLast
<1>2. /\ stream' = [stream EXCEPT !.left = Tail(s)]
      /\ console' = console \cup {Line(runs, "said")} /\ UNCHANGED <<executing, auto, call, closing, runs>>
      /\ IF kind = "plan" THEN plan' = Head(s) /\ deploy' = deploy
                          ELSE deploy' = Head(s) /\ plan' = plan
  BY <1>1 DEF Told, Show
<1>3. /\ Head(s) \in Words /\ Tail(s) \in Seq(Words)
      /\ Tail(s) # <<>> => Head(Tail(s)) # "RUNNING"
      /\ \A i \in 2..Len(Tail(s)) : Tail(s)[i] # "RUNNING"
  BY <1>1, SaysTheRest
<1>4. /\ stream'.left = Tail(s) /\ stream'.kind = kind /\ stream'.run = runs
      /\ stream' \in [run : 0..MaxRuns, kind : Kinds \cup {"none"}, left : Seq(Statuses)]
  <2>1. Tail(s) \in Seq(Statuses)
    BY <1>3 DEF Words, Statuses
  <2> QED BY <2>1, <1>1, <1>2 DEF RunTypes
<1> HIDE DEF s, kind
<1>5. call = "none"
  BY <1>1 DEF CallIsPending, s
<1>6. RunTypes'
  <2>1. runs \in 1..MaxRuns
    BY <1>1, WorkbenchAssumption DEF RunTypes
  <2>2. deploy' \in Statuses /\ plan' \in Statuses
    BY <1>1, <1>2, <1>3 DEF RunTypes, Words, Statuses
  <2>3. console' \subseteq [run : 1..MaxRuns, word : {"said", "closed"}]
    BY <2>1, <1>1, <1>2 DEF RunTypes, Line
  <2> QED BY <2>2, <2>3, <1>1, <1>2, <1>4 DEF RunTypes
<1>7. CallIsPending' /\ StreamIsTheLast'
  BY <1>1, <1>2, <1>3, <1>4, <1>5 DEF CallIsPending, StreamIsTheLast, Other
<1>8. OneRunAtATime'
  BY <1>1, <1>2 DEF OneRunAtATime, Other, Line
<1>9. LockReachesStore'
  <2>1. CASE Head(s) = "RUNNING"
    <3>1. executing = TRUE
      BY <2>1, <1>1 DEF LockReachesStore, PipelineBusy, Shown, RunTypes
    <3> QED BY <3>1, <1>2 DEF LockReachesStore
  <2>2. CASE Head(s) # "RUNNING"
    <3>1. ~PipelineBusy'
      BY <2>2, <1>1, <1>2, <1>3 DEF PipelineBusy, Other, Words
    <3> QED BY <3>1 DEF LockReachesStore
  <2> QED BY <2>1, <2>2
<1> QED BY <1>6, <1>7, <1>8, <1>9 DEF RunInv

\* A socket closes, or one that a click has closed calls its onclose.
LEMMA SocketClosedRun ==
  ASSUME RunInv, StreamLost \/ \E r \in closing : SocketClosed(r)
  PROVE  RunInv'
<1>1. \E r \in 1..MaxRuns : console' = console \cup {Line(r, "closed")}
  BY RunNumbers DEF StreamLost, SocketClosed, RunInv, RunTypes
<1>2. /\ stream' \in {stream, Closed} /\ closing' \subseteq closing
      /\ UNCHANGED <<executing, auto, deploy, plan, call, runs>>
  BY DEF StreamLost, SocketClosed
<1>3. stream' \in [run : 0..MaxRuns, kind : Kinds \cup {"none"}, left : Seq(Statuses)]
  <2>1. <<>> \in Seq(Statuses) /\ 0 \in 0..MaxRuns
    BY WorkbenchAssumption
  <2>2. Closed \in [run : 0..MaxRuns, kind : Kinds \cup {"none"}, left : Seq(Statuses)]
    BY <2>1 DEF Closed
  <2> QED BY <2>2, <1>2 DEF RunInv, RunTypes
<1>4. console' \subseteq [run : 1..MaxRuns, word : {"said", "closed"}]
  BY <1>1 DEF RunInv, RunTypes, Line
<1>5. RunTypes'
  BY <1>2, <1>3, <1>4 DEF RunInv, RunTypes
<1>6. CallIsPending' /\ StreamIsTheLast'
  BY <1>2 DEF RunInv, CallIsPending, StreamIsTheLast, Closed, Shown, Other
<1>7. OneRunAtATime' /\ LockReachesStore'
  BY <1>1, <1>2 DEF RunInv, OneRunAtATime, LockReachesStore, PipelineBusy, Line
<1> QED BY <1>5, <1>6, <1>7 DEF RunInv

LEMMA StoreLockRun == RunInv /\ StoreLock => RunInv'
<1> SUFFICES ASSUME RunInv, StoreLock PROVE RunInv'
  OBVIOUS
<1>1. executing' = PipelineBusy /\ UNCHANGED <<auto, deploy, plan, call, stream, closing, console, runs>>
  BY DEF StoreLock, run
<1>2. (PipelineBusy' <=> PipelineBusy) /\ executing' \in BOOLEAN
  BY <1>1 DEF PipelineBusy
<1>3. LockReachesStore'
  BY <1>1, <1>2 DEF LockReachesStore
<1>4. RunTypes'
  BY <1>1, <1>2 DEF RunInv, RunTypes
<1>5. CallIsPending' /\ StreamIsTheLast' /\ OneRunAtATime'
  BY <1>1 DEF RunInv, CallIsPending, StreamIsTheLast, OneRunAtATime, Shown, Other
<1> QED BY <1>3, <1>4, <1>5 DEF RunInv

LEMMA ToggleAutoRun == RunInv /\ ToggleAuto => RunInv'
<1> SUFFICES ASSUME RunInv, ToggleAuto PROVE RunInv'
  OBVIOUS
<1>1. auto' = ~auto /\ UNCHANGED <<executing, deploy, plan, call, stream, closing, console, runs>>
  BY DEF ToggleAuto, run
<1>2. auto' \in BOOLEAN
  BY <1>1
<1>3. RunTypes'
  BY <1>1, <1>2 DEF RunInv, RunTypes
<1>4. CallIsPending' /\ StreamIsTheLast' /\ OneRunAtATime' /\ LockReachesStore'
  BY <1>1 DEF RunInv, CallIsPending, StreamIsTheLast, OneRunAtATime, LockReachesStore,
              PipelineBusy, Shown, Other
<1> QED BY <1>3, <1>4 DEF RunInv

LEMMA LeaveRun == RunInv /\ Leave => RunInv'
<1> SUFFICES ASSUME RunInv, Leave PROVE RunInv'
  OBVIOUS
<1>1. /\ deploy' = "IDLE" /\ plan' = "IDLE" /\ call' = "none" /\ auto' = TRUE
      /\ stream' = Closed /\ closing' = {} /\ console' = {} /\ UNCHANGED <<executing, runs>>
  BY DEF Leave, Hang
<1>2. stream' \in [run : 0..MaxRuns, kind : Kinds \cup {"none"}, left : Seq(Statuses)]
  <2>1. <<>> \in Seq(Statuses) /\ 0 \in 0..MaxRuns
    BY WorkbenchAssumption
  <2> QED BY <2>1, <1>1 DEF Closed
<1>3. RunTypes'
  BY <1>1, <1>2 DEF RunInv, RunTypes, Statuses
<1>4. CallIsPending' /\ StreamIsTheLast' /\ OneRunAtATime' /\ LockReachesStore'
  BY <1>1 DEF Closed, CallIsPending, StreamIsTheLast, OneRunAtATime, LockReachesStore, PipelineBusy
<1> QED BY <1>3, <1>4 DEF RunInv

-----------------------------------------------------------------------------
(* The canvas. *)

LEMMA CanvasInit == Init => CanvasInv
BY DEF Init, CanvasInv, CanvasTypes, CanvasIsWhole, Edge

LEMMA CanvasKept == CanvasInv /\ UNCHANGED canvas => CanvasInv'
BY DEF CanvasInv, canvas, CanvasTypes, CanvasIsWhole

\* A selection of one thing leaves the other empty.
LEMMA NodeSelected ==
  ASSUME CanvasInv, NEW n \in Ids, SelectNode(n)
  PROVE  /\ focus' \in [node : Ids \cup {Nothing}, edge : Edge \cup {Nothing}]
         /\ focus'.edge = Nothing
<1>1. n # Nothing
  BY WorkbenchAssumption
<1> QED BY <1>1 DEF CanvasInv, SelectNode

LEMMA EdgeSelected ==
  ASSUME CanvasInv, NEW e \in Edge, SelectEdge(e)
  PROVE  /\ focus' \in [node : Ids \cup {Nothing}, edge : Edge \cup {Nothing}]
         /\ focus'.node = Nothing
<1>1. e # Nothing
  BY WorkbenchAssumption DEF Edge
<1> QED BY <1>1 DEF CanvasInv, SelectEdge

LEMMA NodeDeleted ==
  ASSUME CanvasInv, NEW n \in nodes, DeleteNode(n) PROVE CanvasInv'
<1>1. CASE executing
  BY <1>1, CanvasKept DEF DeleteNode
<1>2. CASE ~executing
  <2>1. /\ nodes' = nodes \ {n} /\ edges' = edges \ Incident(n)
        /\ focus' = [focus EXCEPT !.node = IF @ = n THEN Nothing ELSE @]
    BY <1>2 DEF DeleteNode
  <2>2. CanvasTypes'
    BY <2>1 DEF CanvasInv, CanvasTypes
  <2>3. \A e \in edges' : e[1] \in nodes' /\ e[2] \in nodes'
    BY <2>1 DEF CanvasInv, CanvasIsWhole, Incident
  <2>4. focus'.node = Nothing \/ focus'.edge = Nothing
    BY <2>1 DEF CanvasInv, CanvasTypes, CanvasIsWhole
  <2> QED BY <2>2, <2>3, <2>4 DEF CanvasInv, CanvasIsWhole
<1> QED BY <1>1, <1>2

LEMMA EdgesDeleted ==
  ASSUME CanvasInv, NEW E, DeleteEdges(E) PROVE CanvasInv'
<1>1. CASE executing
  BY <1>1, CanvasKept DEF DeleteEdges
<1>2. CASE ~executing
  <2>1. /\ nodes' = nodes /\ edges' = edges \ E
        /\ focus' = [focus EXCEPT !.edge = IF @ \in E THEN Nothing ELSE @]
    BY <1>2 DEF DeleteEdges
  <2>2. CanvasTypes'
    BY <2>1 DEF CanvasInv, CanvasTypes
  <2>3. CanvasIsWhole'
    BY <2>1 DEF CanvasInv, CanvasTypes, CanvasIsWhole
  <2> QED BY <2>2, <2>3 DEF CanvasInv
<1> QED BY <1>1, <1>2

LEMMA ChangesRemoved ==
  ASSUME CanvasInv, NEW S, NEW E, RemoveChanges(S, E) PROVE CanvasInv'
<1> DEFINE gone == E \cup UNION {Incident(n) : n \in S}
<1>1. /\ nodes' = nodes \ S /\ edges' = edges \ gone
      /\ focus' = [focus EXCEPT !.edge = IF @ \in gone THEN Nothing ELSE @]
  BY DEF RemoveChanges
<1>2. ASSUME NEW e \in edges' PROVE e[1] \notin S /\ e[2] \notin S
  <2>1. \A n \in S : e \notin Incident(n)
    BY <1>1
  <2> QED BY <2>1, <1>1 DEF Incident
<1> HIDE DEF gone
<1>3. CanvasTypes'
  BY <1>1 DEF CanvasInv, CanvasTypes
<1>4. CanvasIsWhole'
  BY <1>1, <1>2 DEF CanvasInv, CanvasTypes, CanvasIsWhole
<1> QED BY <1>3, <1>4 DEF CanvasInv

LEMMA CanvasReplaced ==
  ASSUME CanvasInv, Replace PROVE CanvasInv'
<1>1. /\ nodes' \subseteq Ids /\ focus' = focus
      /\ edges' = {} \/ edges' = {e \in nodes' \X nodes' : e[1] # e[2]}
  BY DEF Replace
<1>2. CanvasTypes'
  BY <1>1 DEF CanvasInv, CanvasTypes, Edge
<1>3. CanvasIsWhole'
  BY <1>1 DEF CanvasInv, CanvasIsWhole
<1> QED BY <1>2, <1>3 DEF CanvasInv

LEMMA PageKept == PageTypes /\ UNCHANGED <<open, viewer, creating, visits>> => PageTypes'
BY DEF PageTypes

\* A step of the canvas needs nothing shown but that the canvas stays whole.
LEMMA OnCanvasInv == Inv /\ OnCanvas /\ CanvasInv' => Inv'
<1> SUFFICES ASSUME Inv, OnCanvas, CanvasInv' PROVE Inv'
  OBVIOUS
<1>1. UNCHANGED runVars /\ UNCHANGED <<open, viewer, creating, visits>>
  BY DEF OnCanvas, runVars
<1> QED BY <1>1, RunKept, PageKept DEF Inv

LEMMA ClickInv ==
  ASSUME Inv, \/ \E n \in Ids : ClickNode(n)
              \/ \E e \in edges : ClickEdge(e)
              \/ ClickPane
  PROVE  Inv'
<1> DEFINE Selects ==
      /\ OnCanvas /\ nodes' = nodes /\ edges' = edges
      /\ focus' \in [node : Ids \cup {Nothing}, edge : Edge \cup {Nothing}]
      /\ focus'.node = Nothing \/ focus'.edge = Nothing
<1>1. CanvasInv
  BY DEF Inv
<1>2. ASSUME NEW n \in Ids, ClickNode(n) PROVE Selects
  BY <1>2, <1>1, NodeSelected DEF ClickNode
<1>3. ASSUME NEW e \in edges, ClickEdge(e) PROVE Selects
  <2>1. e \in Edge
    BY <1>1 DEF CanvasInv, CanvasTypes
  <2> QED BY <1>3, <2>1, <1>1, EdgeSelected DEF ClickEdge
<1>4. ASSUME ClickPane PROVE Selects
  BY <1>4 DEF ClickPane
<1>5. Selects
  BY <1>2, <1>3, <1>4
<1>6. CanvasInv'
  BY <1>1, <1>5 DEF CanvasInv, CanvasTypes, CanvasIsWhole
<1> QED BY <1>5, <1>6, OnCanvasInv

LEMMA AddFromLibraryInv == ASSUME NEW n \in Ids PROVE Inv /\ AddFromLibrary(n) => Inv'
<1> SUFFICES ASSUME Inv, AddFromLibrary(n) PROVE Inv'
  OBVIOUS
<1>1. /\ CanvasInv /\ OnCanvas /\ edges' = edges
      /\ nodes' = nodes \/ nodes' = nodes \cup {n}
  BY DEF Inv, AddFromLibrary, AddNode
<1>2. /\ focus' \in [node : Ids \cup {Nothing}, edge : Edge \cup {Nothing}]
      /\ focus'.edge = Nothing
  BY <1>1, NodeSelected DEF AddFromLibrary
<1>3. CanvasInv'
  BY <1>1, <1>2 DEF CanvasInv, CanvasTypes, CanvasIsWhole
<1> QED BY <1>1, <1>3, OnCanvasInv

LEMMA DeleteInv ==
  ASSUME Inv, \/ \E n \in Ids : ClickBin(n)
              \/ \E n \in Ids, side \in {1, 2} : ClearConnections(n, side)
              \/ DeleteLink
              \/ PressDelete
  PROVE  Inv'
<1>1. CanvasInv
  BY DEF Inv
<1>2. ASSUME NEW n \in Ids, ClickBin(n) PROVE OnCanvas /\ CanvasInv'
  BY <1>1, <1>2, NodeDeleted DEF ClickBin
<1>3. ASSUME NEW n \in Ids, NEW side \in {1, 2}, ClearConnections(n, side) PROVE OnCanvas /\ CanvasInv'
  BY <1>1, <1>3, EdgesDeleted DEF ClearConnections
<1>4. ASSUME DeleteLink PROVE OnCanvas /\ CanvasInv'
  BY <1>1, <1>4, EdgesDeleted DEF DeleteLink
<1>5. ASSUME PressDelete PROVE OnCanvas /\ CanvasInv'
  <2>1. OnCanvas /\ \E S, E : RemoveChanges(S, E)
    BY <1>5 DEF PressDelete
  <2> QED BY <2>1, <1>1, ChangesRemoved
<1> QED BY <1>2, <1>3, <1>4, <1>5, OnCanvasInv

LEMMA ConnectInv == ASSUME NEW a \in nodes, NEW b \in nodes PROVE Inv /\ Connect(a, b) => Inv'
<1> SUFFICES ASSUME Inv, Connect(a, b) PROVE Inv'
  OBVIOUS
<1>1. OnCanvas /\ edges' = edges \cup {<<a, b>>} /\ nodes' = nodes /\ focus' = focus
  BY DEF Connect
<1>2. CanvasTypes'
  BY <1>1 DEF Inv, CanvasInv, CanvasTypes, Edge
<1>3. CanvasIsWhole'
  BY <1>1 DEF Inv, CanvasInv, CanvasIsWhole
<1> QED BY <1>1, <1>2, <1>3, OnCanvasInv DEF CanvasInv

LEMMA ClearCanvasInv == Inv /\ ClearCanvas => Inv'
<1> SUFFICES ASSUME Inv, ClearCanvas PROVE Inv'
  OBVIOUS
<1>1. OnCanvas /\ edges' = {} /\ nodes' = {} /\ focus' = [focus EXCEPT !.node = Nothing]
  BY DEF ClearCanvas
<1>2. CanvasTypes' /\ focus'.node = Nothing
  BY <1>1 DEF Inv, CanvasInv, CanvasTypes
<1>3. CanvasIsWhole'
  BY <1>1, <1>2 DEF CanvasIsWhole
<1> QED BY <1>1, <1>2, <1>3, OnCanvasInv DEF CanvasInv

LEMMA ReloadInv == Inv /\ Reload => Inv'
<1> SUFFICES ASSUME Inv, Reload PROVE Inv'
  OBVIOUS
<1>1. OnCanvas /\ CanvasInv'
  BY CanvasReplaced DEF Inv, Reload
<1> QED BY <1>1, OnCanvasInv

\* A custom node is saved, or refused.
LEMMA CustomNodeInv ==
  ASSUME Inv, StartCustomNode \/ CustomNodeRefused \/ \E n \in Ids : CustomNodeSaved(n)
  PROVE  Inv'
<1>1. UNCHANGED runVars /\ open' = open /\ viewer' = viewer /\ visits' = visits /\ creating' \in BOOLEAN
  BY DEF StartCustomNode, CustomNodeRefused, CustomNodeSaved, runVars
<1>2. RunInv' /\ PageTypes'
  BY <1>1, RunKept DEF Inv, PageTypes
<1>3. CASE StartCustomNode \/ CustomNodeRefused
  BY <1>2, <1>3, CanvasKept DEF Inv, StartCustomNode, CustomNodeRefused
<1>4. ASSUME NEW n \in Ids, CustomNodeSaved(n) PROVE CanvasInv'
  <2>1. edges' = edges /\ focus' = focus /\ (nodes' = nodes \/ nodes' = nodes \cup {n})
    BY <1>4 DEF CustomNodeSaved, AddNode
  <2> QED BY <2>1 DEF Inv, CanvasInv, CanvasTypes, CanvasIsWhole
<1> QED BY <1>2, <1>3, <1>4 DEF Inv

LEMMA RunStepInv ==
  ASSUME Inv, \/ \E kind \in Kinds : Click(kind)
              \/ Accepted \/ Refused \/ Told \/ StreamLost \/ StoreLock \/ ToggleAuto
              \/ \E r \in closing : SocketClosed(r)
  PROVE  Inv'
<1>1. OnRuns
  BY DEF Click, Accepted, Refused, Told, StreamLost, SocketClosed, StoreLock, ToggleAuto
<1>2. CanvasInv' /\ PageTypes'
  BY <1>1, CanvasKept, PageKept DEF Inv, OnRuns
<1>3. RunInv'
  BY ClickRun, AcceptedRun, RefusedRun, ToldRun, SocketClosedRun, StoreLockRun, ToggleAutoRun DEF Inv
<1> QED BY <1>2, <1>3 DEF Inv

LEMMA VisitInv == ASSUME Inv, Leave \/ Enter PROVE Inv'
<1>1. CanvasInv'
  BY CanvasKept DEF Inv, Leave, Enter
<1>2. CASE Leave
  <2>1. PageTypes'
    BY <1>2 DEF Inv, PageTypes, Leave
  <2> QED BY <1>1, <1>2, <2>1, LeaveRun DEF Inv
<1>3. CASE Enter
  <2>1. PageTypes'
    <3>1. visits + 1 \in 0..MaxVisits
      BY <1>3, WorkbenchAssumption DEF Inv, PageTypes, Enter
    <3> QED BY <3>1, <1>3 DEF Inv, PageTypes, Enter
  <2>2. RunInv'
    BY <1>3, RunKept DEF Inv, Enter, runVars
  <2> QED BY <1>1, <2>1, <2>2 DEF Inv
<1> QED BY <1>2, <1>3

LEMMA InitInv == Init => Inv
<1> SUFFICES ASSUME Init PROVE Inv
  OBVIOUS
<1>1. PageTypes
  <2>1. 1 \in 0..MaxVisits
    BY WorkbenchAssumption
  <2> QED BY <2>1 DEF Init, PageTypes
<1> QED BY <1>1, RunInit, CanvasInit DEF Inv

LEMMA Invariance == Spec => []Inv
<1>1. Inv /\ Next => Inv'
  BY ClickInv, AddFromLibraryInv, DeleteInv, ConnectInv, ClearCanvasInv, ReloadInv, CustomNodeInv,
     RunStepInv, VisitInv DEF Next
<1>2. Inv /\ UNCHANGED vars => Inv'
  <2> SUFFICES ASSUME Inv, UNCHANGED vars PROVE Inv'
    OBVIOUS
  <2>1. UNCHANGED canvas /\ UNCHANGED runVars /\ UNCHANGED <<open, viewer, creating, visits>>
    BY DEF vars, canvas, runVars, run
  <2> QED BY <2>1, CanvasKept, RunKept, PageKept DEF Inv
<1> QED BY <1>1, <1>2, InitInv, PTL DEF Spec

-----------------------------------------------------------------------------
(* The theorems. *)

\* The page's and the store's variables keep their types.
THEOREM Typing == Spec => []TypeOK
<1>1. Inv => TypeOK
  BY DEF Inv, RunInv, RunTypes, PageTypes, CanvasInv, CanvasTypes, TypeOK
<1> QED BY <1>1, Invariance, PTL

\* The two statuses and the console are those of the last run, but for the closing
\* line of an earlier run's socket, whatever is clicked, answered, lost or left: the
\* three click handlers, wsRef and the onclose that stays with each socket.
THEOREM RunsAreOne == Spec => []OneRunAtATime
<1>1. Inv => OneRunAtATime
  BY DEF Inv, RunInv
<1> QED BY <1>1, Invariance, PTL

\* The store's own lock is never later than the page's, although an effect sets it.
THEOREM StoreIsLocked == Spec => []LockReachesStore
<1>1. Inv => LockReachesStore
  BY DEF Inv, RunInv
<1> QED BY <1>1, Invariance, PTL

\* The canvas that is compiled has both ends of every connection, and the
\* inspector one subject: the operations of useCanvasStore.ts.
THEOREM CanvasStaysWhole == Spec => []CanvasIsWhole
<1>1. Inv => CanvasIsWhole
  BY DEF Inv, CanvasInv
<1> QED BY <1>1, Invariance, PTL

\* While a run is pending or running, neither the user nor a late answer changes
\* the canvas: isPipelineBusy and the store's isExecuting.
THEOREM LockKeepsCanvas == Spec => LockHolds
<1>1. Inv /\ [Next]_vars => [LockKeeps]_vars
  <2> SUFFICES ASSUME Inv, Next, PipelineBusy PROVE UNCHANGED <<nodes, edges>> \/ Reload
    BY DEF LockKeeps
  <2>1. executing = TRUE /\ ReadOnly /\ ButtonsBusy
    BY DEF Inv, RunInv, RunTypes, LockReachesStore, ReadOnly, ButtonsBusy
  <2>2. ASSUME NEW n \in Ids, ClickNode(n) \/ AddFromLibrary(n) \/ ClickBin(n) \/ CustomNodeSaved(n)
        PROVE  UNCHANGED <<nodes, edges>>
    BY <2>1, <2>2 DEF ClickNode, AddFromLibrary, ClickBin, CustomNodeSaved, AddNode
  <2>3. ASSUME NEW n \in Ids, NEW side \in {1, 2}, ClearConnections(n, side)
        PROVE  UNCHANGED <<nodes, edges>>
    BY <2>1, <2>3 DEF ClearConnections
  <2>4. ASSUME DeleteLink PROVE UNCHANGED <<nodes, edges>>
    BY <2>1, <2>4 DEF DeleteLink, DeleteEdges, canvas
  <2>5. ASSUME (\E e \in edges : ClickEdge(e)) \/ ClickPane \/ StartCustomNode \/ CustomNodeRefused
        PROVE  UNCHANGED <<nodes, edges>>
    BY <2>5 DEF ClickEdge, ClickPane, StartCustomNode, CustomNodeRefused, canvas
  <2>6. ~PressDelete /\ ~ClearCanvas /\ \A a, b \in nodes : ~Connect(a, b)
    BY <2>1 DEF PressDelete, ClearCanvas, Connect
  <2>7. ASSUME OnRuns \/ Leave \/ Enter PROVE UNCHANGED <<nodes, edges>>
    BY <2>7 DEF OnRuns, Leave, Enter, canvas
  <2>8. (\E kind \in Kinds : Click(kind)) \/ Accepted \/ Refused \/ Told \/ StreamLost \/ StoreLock
          \/ ToggleAuto \/ (\E r \in closing : SocketClosed(r)) => OnRuns
    BY DEF Click, Accepted, Refused, Told, StreamLost, SocketClosed, StoreLock, ToggleAuto
  <2> QED BY <2>2, <2>3, <2>4, <2>5, <2>6, <2>7, <2>8 DEF Next
<1> QED BY <1>1, Invariance, PTL DEF Spec, LockHolds
-----------------------------------------------------------------------------
(* PlaybookOrder. *)

Once(s) == \A i, j \in 1..Len(s) : s[i] = s[j] => i = j

\* The connections to v that have not been counted down for it.
Waiting(v) == {e \in Edges : TargetOf(e) = v /\ (SourceOf(e) \notin Taken \/ e \in todo)}

Working       == phase \in {"seed", "sort"}
CountsWaiting == \A v \in Node : degree[v] = Cardinality(Waiting(v))
TodoIsTaken   == \A e \in todo : SourceOf(e) \in Taken
QueueIsFree   == Working => \A v \in Members(queue) : degree[v] = 0
TakenIsFree   == \A v \in Taken : degree[v] = 0
TakenInOrder  == \A j \in 1..kahn : \A e \in Edges :
                   TargetOf(e) = sorted[j] => \E i \in 1..(j - 1) : sorted[i] = SourceOf(e)
ListedOnce    == Once(sorted)
QueuedOnce    == Working => /\ Once(queue)
                            /\ Members(queue) \cap Members(sorted) = {}
                            /\ kahn = Len(sorted)
Seeded        == phase = "seed" => /\ todo = {} /\ sorted = <<>>
                                   /\ \A v \in Members(queue) : v < turn
                                   /\ \A v \in 1..(turn - 1) : degree[v] = 0 => v \in Members(queue)
FreeIsQueued  == phase = "sort" => \A v \in Node : degree[v] = 0 => v \in Members(queue) \cup Taken
RestIsHeld    == ~Working => /\ todo = {}
                             /\ \A v \in Node \ Taken : degree[v] # 0
RestIsListed  == /\ phase = "rest" => \A v \in 1..(turn - 1) : v \in Members(sorted)
                 /\ phase = "done" => Node \subseteq Members(sorted)

OrderInv == /\ OrderTypeOK /\ CountsWaiting /\ TodoIsTaken /\ QueueIsFree /\ TakenIsFree /\ TakenInOrder
       /\ ListedOnce /\ QueuedOnce /\ Seeded /\ FreeIsQueued /\ RestIsHeld /\ RestIsListed
-----------------------------------------------------------------------------
(* Sequences. *)

LEMMA Appended ==
  ASSUME NEW S, NEW s \in Seq(S), NEW x \in S
  PROVE  /\ Append(s, x) \in Seq(S)
         /\ Len(Append(s, x)) = Len(s) + 1
         /\ \A i \in 1..Len(s) : Append(s, x)[i] = s[i]
         /\ Append(s, x)[Len(s) + 1] = x
         /\ Members(Append(s, x)) = Members(s) \cup {x}
<1> DEFINE t == Append(s, x)
<1>1. t \in Seq(S) /\ Len(t) = Len(s) + 1 /\ Len(s) \in Nat /\ t[Len(s) + 1] = x
  OBVIOUS
<1>2. \A i \in 1..Len(s) : t[i] = s[i]
  OBVIOUS
<1>3. Members(t) \subseteq Members(s) \cup {x}
  <2> SUFFICES ASSUME NEW i \in 1..Len(t) PROVE t[i] \in Members(s) \cup {x}
    BY DEF Members
  <2>1. i \in 1..Len(s) \/ i = Len(s) + 1
    BY <1>1
  <2> QED BY <2>1, <1>1, <1>2 DEF Members
<1>4. Members(s) \cup {x} \subseteq Members(t)
  <2>1. ASSUME NEW i \in 1..Len(s) PROVE s[i] \in Members(t)
    <3>1. i \in 1..Len(t) BY <1>1
    <3> QED BY <3>1, <1>2 DEF Members
  <2>2. x \in Members(t)
    <3>1. Len(s) + 1 \in 1..Len(t) BY <1>1
    <3> QED BY <3>1, <1>1 DEF Members
  <2> QED BY <2>1, <2>2 DEF Members
<1> QED BY <1>1, <1>2, <1>3, <1>4

LEMMA AppendedOnce ==
  ASSUME NEW S, NEW s \in Seq(S), NEW x \in S, Once(s), x \notin Members(s)
  PROVE  Once(Append(s, x))
<1> DEFINE t == Append(s, x)
<1> SUFFICES ASSUME NEW i \in 1..Len(t), NEW j \in 1..Len(t), t[i] = t[j] PROVE i = j
  BY DEF Once
<1>1. Len(t) = Len(s) + 1 /\ Len(s) \in Nat /\ t[Len(s) + 1] = x /\ \A k \in 1..Len(s) : t[k] = s[k]
  BY Appended
<1>2. \A k \in 1..Len(s) : s[k] # x
  BY DEF Members
<1> HIDE DEF t
<1> QED BY <1>1, <1>2 DEF Once

LEMMA Shifted ==
  ASSUME NEW S, NEW s \in Seq(S), s # <<>>, Once(s)
  PROVE  /\ Tail(s) \in Seq(S) /\ Head(s) \in S
         /\ Once(Tail(s))
         /\ Head(s) \notin Members(Tail(s))
         /\ Members(s) = Members(Tail(s)) \cup {Head(s)}
<1> DEFINE t == Tail(s)
<1>1. /\ t \in Seq(S) /\ Head(s) \in S /\ Len(s) \in Nat \ {0} /\ Len(t) = Len(s) - 1
      /\ Head(s) = s[1] /\ \A i \in 1..Len(t) : t[i] = s[i + 1]
  OBVIOUS
<1> HIDE DEF t
<1>2. \A i \in 1..Len(t) : i + 1 \in 1..Len(s)
  BY <1>1
<1>3. Once(t)
  BY <1>1, <1>2 DEF Once
<1>4. Head(s) \notin Members(t)
  BY <1>1, <1>2 DEF Once, Members
<1>5. Members(t) \cup {Head(s)} \subseteq Members(s)
  BY <1>1, <1>2 DEF Members
<1>6. ASSUME NEW k \in 1..Len(s) PROVE s[k] \in Members(t) \cup {Head(s)}
  <2>1. CASE k = 1
    BY <2>1, <1>1
  <2>2. CASE k # 1
    <3>1. k - 1 \in 1..Len(t) /\ t[k - 1] = s[k]
      BY <2>2, <1>1
    <3> QED BY <3>1 DEF Members
  <2> QED BY <2>1, <2>2
<1> QED BY <1>1, <1>3, <1>4, <1>5, <1>6 DEF t, Members

-----------------------------------------------------------------------------
(* Counting. *)

WirePairs == (Node \cup Strays) \X (Node \cup Strays)

LEMMA WiresAreFinite ==
  ASSUME wires \in Seq(WirePairs)
  PROVE  \A v : IsFiniteSet(Waiting(v)) /\ Cardinality(Waiting(v)) \in Nat
<1>1. DOMAIN wires = 1..Len(wires) /\ Len(wires) \in Nat
  OBVIOUS
<1>2. IsFiniteSet(DOMAIN wires)
  BY <1>1, FS_Interval
<1>3. \A v : Waiting(v) \subseteq DOMAIN wires
  BY DEF Waiting, Edges
<1> QED BY <1>2, <1>3, FS_Subset, FS_CardinalityType

\* Nothing waits for a node exactly when its count is zero.
LEMMA FreeMeansNoneWaits ==
  ASSUME OrderTypeOK, CountsWaiting, NEW v \in Node
  PROVE  degree[v] = 0 <=> Waiting(v) = {}
<1>1. degree[v] = Cardinality(Waiting(v))
  BY DEF CountsWaiting
<1>2. IsFiniteSet(Waiting(v))
  BY WiresAreFinite DEF OrderTypeOK, WirePairs
<1> QED BY <1>1, <1>2, FS_EmptySet

LEMMA TakenAreNodes == OrderTypeOK => Taken \subseteq Node /\ Taken \subseteq Members(sorted)
<1> SUFFICES ASSUME OrderTypeOK PROVE Taken \subseteq Node /\ Taken \subseteq Members(sorted)
  OBVIOUS
<1>1. sorted \in Seq(Node) /\ Len(sorted) \in Nat /\ kahn \in 0..Len(sorted)
  BY DEF OrderTypeOK
<1>2. \A i \in 1..kahn : i \in 1..Len(sorted) /\ sorted[i] \in Node
  BY <1>1
<1> QED BY <1>2 DEF Taken, Members

\* The counts follow a step that leaves what waits as it is.
LEMMA SameCounts ==
  ASSUME CountsWaiting, degree' = degree,
         \A v \in Node : Waiting(v)' = Waiting(v)
  PROVE  CountsWaiting'
BY DEF CountsWaiting, Node
-----------------------------------------------------------------------------
(* The steps. *)

LEMMA OrderInitInv == OrderInit => OrderInv
<1> SUFFICES ASSUME OrderInit PROVE OrderInv
  OBVIOUS
<1>1. Taken = {} /\ Members(queue) = {} /\ Members(sorted) = {} /\ Len(sorted) = 0 /\ Len(queue) = 0
  BY DEF OrderInit, Taken, Members
<1>2. \A v : Waiting(v) = {e \in Edges : TargetOf(e) = v}
  BY <1>1 DEF Waiting
<1>3. CountsWaiting
  BY <1>2 DEF OrderInit, CountsWaiting
<1>4. OrderTypeOK
  <2>1. wires \in Seq(WirePairs)
    <3>1. PICK n \in 0..MaxWires : wires \in [1..n -> WirePairs]
      BY DEF OrderInit, WirePairs
    <3> QED BY <3>1, OrderAssumption
  <2>2. degree \in [Node -> Nat]
    <3>1. \A v : Cardinality({e \in Edges : TargetOf(e) = v}) \in Nat
      BY <2>1, <1>2, WiresAreFinite
    <3> QED BY <3>1 DEF OrderInit
  <2>3. queue \in Seq(Node) /\ sorted \in Seq(Node)
    BY DEF OrderInit
  <2> QED BY <2>1, <2>2, <2>3, <1>1, OrderAssumption DEF OrderInit, OrderTypeOK, WirePairs
<1> QED
  BY <1>1, <1>3, <1>4 DEF OrderInit, OrderInv, TodoIsTaken, QueueIsFree, TakenIsFree, TakenInOrder, ListedOnce,
     QueuedOnce, Seeded, FreeIsQueued, RestIsHeld, RestIsListed, Working, Once

LEMMA SeedInv == OrderInv /\ Seed => OrderInv'
<1> SUFFICES ASSUME OrderInv, Seed PROVE OrderInv'
  OBVIOUS
<1>1. turn \in Node /\ turn \in Nat \ {0} /\ turn + 1 \in 1..(N + 1) /\ OrderTypeOK
  BY OrderAssumption DEF OrderInv, OrderTypeOK, Seed, Node
<1>2. /\ Taken' = Taken /\ Edges' = Edges /\ Members(sorted)' = Members(sorted)
      /\ Working' /\ Working /\ kahn' = kahn /\ sorted' = sorted /\ degree' = degree
      /\ todo' = todo /\ phase' = "seed" /\ phase = "seed" /\ turn' = turn + 1 /\ wires' = wires
      /\ \A v : Waiting(v)' = Waiting(v)
  BY DEF Seed, Taken, Edges, Members, Working, Waiting, SourceOf, TargetOf
<1>3. CountsWaiting' /\ TodoIsTaken' /\ TakenIsFree' /\ TakenInOrder' /\ ListedOnce' /\ RestIsHeld'
      /\ RestIsListed' /\ FreeIsQueued'
  BY <1>2 DEF OrderInv, CountsWaiting, TodoIsTaken, TakenIsFree, TakenInOrder, ListedOnce, RestIsHeld,
              RestIsListed, FreeIsQueued, SourceOf, TargetOf
<1>4. /\ queue \in Seq(Node) /\ todo = {} /\ sorted = <<>> /\ kahn = Len(sorted)
      /\ \A v \in Members(queue) : v < turn
      /\ \A v \in 1..(turn - 1) : degree[v] = 0 => v \in Members(queue)
      /\ \A v \in Members(queue) : degree[v] = 0
      /\ Once(queue)
  BY <1>1, <1>2 DEF OrderInv, Seeded, OrderTypeOK, QueueIsFree, QueuedOnce
<1>5. Members(sorted) = {}
  BY <1>4 DEF Members
<1>6. turn \notin Members(queue)
  BY <1>1, <1>4
<1>7. \A v \in Members(queue) : v < turn + 1
  <2>1. Members(queue) \subseteq Nat
    BY <1>4, OrderAssumption DEF Members, Node
  <2> QED BY <2>1, <1>1, <1>4
<1>8. CASE degree[turn] = 0
  <2>1. queue' = Append(queue, turn)
    BY <1>8 DEF Seed
  <2>2. Members(queue)' = Members(queue) \cup {turn} /\ queue' \in Seq(Node)
    BY <2>1, <1>1, <1>4, Appended DEF Members
  <2>3. Once(queue)'
    BY <2>1, <1>1, <1>4, <1>6, AppendedOnce DEF Once
  <2>4. OrderTypeOK'
    BY <2>2, <1>1, <1>2 DEF OrderTypeOK, Seed
  <2>5. QueueIsFree'
    BY <2>2, <1>2, <1>4, <1>8 DEF QueueIsFree
  <2>6. QueuedOnce'
    BY <2>3, <1>2, <1>4, <1>5 DEF QueuedOnce
  <2>7. Seeded'
    <3>1. \A v \in Members(queue)' : v < turn'
      BY <2>2, <1>2, <1>7, <1>1
    <3>2. ASSUME NEW v \in 1..(turn' - 1), degree'[v] = 0 PROVE v \in Members(queue)'
      <4>1. v \in 1..(turn - 1) \/ v = turn
        BY <1>1, <1>2
      <4> QED BY <4>1, <3>2, <2>2, <1>2, <1>4
    <3> QED BY <3>1, <3>2, <1>2, <1>4 DEF Seeded
  <2> QED BY <1>3, <2>4, <2>5, <2>6, <2>7 DEF OrderInv
<1>9. CASE degree[turn] # 0
  <2>1. queue' = queue /\ Members(queue)' = Members(queue)
    BY <1>9 DEF Seed, Members
  <2>2. OrderTypeOK'
    BY <2>1, <1>1, <1>2 DEF OrderTypeOK, Seed
  <2>3. QueueIsFree'
    BY <2>1, <1>2, <1>4 DEF QueueIsFree
  <2>4. QueuedOnce'
    BY <2>1, <1>2, <1>4, <1>5 DEF QueuedOnce, Once
  <2>5. Seeded'
    <3>1. \A v \in Members(queue)' : v < turn'
      BY <2>1, <1>2, <1>7
    <3>2. ASSUME NEW v \in 1..(turn' - 1), degree'[v] = 0 PROVE v \in Members(queue)'
      <4>1. v \in 1..(turn - 1) \/ v = turn
        BY <1>1, <1>2
      <4> QED BY <4>1, <3>2, <2>1, <1>2, <1>4, <1>9
    <3> QED BY <3>1, <3>2, <1>2, <1>4 DEF Seeded
  <2> QED BY <1>3, <2>2, <2>3, <2>4, <2>5 DEF OrderInv
<1> QED BY <1>8, <1>9

LEMMA StartSortInv == OrderInv /\ StartSort => OrderInv'
<1> SUFFICES ASSUME OrderInv, StartSort PROVE OrderInv'
  OBVIOUS
<1>1. /\ Taken' = Taken /\ Edges' = Edges /\ Members(sorted)' = Members(sorted)
      /\ Members(queue)' = Members(queue) /\ \A v : Waiting(v)' = Waiting(v)
      /\ Working' /\ Working /\ phase' = "sort" /\ phase = "seed"
      /\ UNCHANGED <<wires, degree, queue, sorted, todo, turn, kahn>>
  BY DEF StartSort, Taken, Edges, Members, Working, Waiting, SourceOf, TargetOf
<1>2. Node \subseteq 1..(turn - 1)
  BY OrderAssumption DEF OrderInv, OrderTypeOK, StartSort, Node
<1>3. OrderTypeOK'
  BY <1>1 DEF OrderInv, OrderTypeOK
<1>4. CountsWaiting' /\ TodoIsTaken' /\ TakenIsFree' /\ TakenInOrder' /\ ListedOnce' /\ RestIsHeld'
      /\ RestIsListed'
  BY <1>1 DEF OrderInv, CountsWaiting, TodoIsTaken, TakenIsFree, TakenInOrder, ListedOnce, RestIsHeld,
              RestIsListed, SourceOf, TargetOf
<1>5. QueueIsFree' /\ QueuedOnce' /\ Seeded' /\ FreeIsQueued'
  BY <1>1, <1>2 DEF OrderInv, QueueIsFree, QueuedOnce, Seeded, FreeIsQueued, Once
<1> QED BY <1>3, <1>4, <1>5 DEF OrderInv

LEMMA TakeInv == OrderInv /\ Take => OrderInv'
<1> SUFFICES ASSUME OrderInv, Take PROVE OrderInv'
  OBVIOUS
<1> DEFINE h == Head(queue)
<1>1. /\ OrderTypeOK /\ queue \in Seq(Node) /\ sorted \in Seq(Node) /\ queue # <<>>
      /\ Len(sorted) \in Nat /\ kahn = Len(sorted) /\ todo = {}
      /\ Once(queue) /\ Once(sorted) /\ Members(queue) \cap Members(sorted) = {}
      /\ \A v \in Members(queue) : degree[v] = 0
      /\ Working /\ Working' /\ phase = "sort" /\ phase' = "sort"
  BY DEF OrderInv, OrderTypeOK, Take, Working, QueuedOnce, ListedOnce, QueueIsFree
<1>2. /\ queue' = Tail(queue) /\ sorted' = Append(sorted, h) /\ kahn' = kahn + 1
      /\ todo' = {e \in Edges : SourceOf(e) = h} /\ degree' = degree /\ Edges' = Edges
      /\ wires' = wires /\ turn' = turn
      /\ \A e : SourceOf(e)' = SourceOf(e) /\ TargetOf(e)' = TargetOf(e)
  BY DEF Take, Edges, SourceOf, TargetOf
<1>3. /\ queue' \in Seq(Node) /\ h \in Node /\ Once(queue)' /\ h \notin Members(queue)'
      /\ Members(queue) = Members(queue)' \cup {h}
  <2>1. /\ Tail(queue) \in Seq(Node) /\ h \in Node /\ Once(Tail(queue))
        /\ h \notin Members(Tail(queue)) /\ Members(queue) = Members(Tail(queue)) \cup {h}
    BY <1>1, Shifted
  <2>2. Members(queue)' = Members(Tail(queue)) /\ (Once(queue)' <=> Once(Tail(queue)))
    BY <1>2 DEF Members, Once
  <2> QED BY <2>1, <2>2, <1>2
<1>4. h \in Members(queue) /\ h \notin Members(sorted) /\ degree[h] = 0
  BY <1>1, <1>3
<1> HIDE DEF h
<1>5. /\ sorted' \in Seq(Node) /\ Len(sorted') = kahn + 1 /\ sorted'[kahn + 1] = h
      /\ \A i \in 1..kahn : sorted'[i] = sorted[i]
      /\ Members(sorted)' = Members(sorted) \cup {h}
  BY <1>1, <1>2, <1>3, Appended DEF Members
<1>6. Once(sorted)'
  BY <1>1, <1>2, <1>3, <1>4, AppendedOnce DEF Once
<1>7. Taken = Members(sorted) /\ Taken' = Members(sorted)'
  BY <1>1, <1>2, <1>5 DEF Taken, Members
<1>8. ASSUME NEW v \in Node PROVE Waiting(v)' = Waiting(v)
  <2>1. Waiting(v) = {e \in Edges : TargetOf(e) = v /\ SourceOf(e) \notin Taken}
    BY <1>1 DEF Waiting
  <2>2. Waiting(v)' = {e \in Edges : TargetOf(e) = v /\ (SourceOf(e) \notin Taken' \/ SourceOf(e) = h)}
    BY <1>2 DEF Waiting
  <2> QED BY <2>1, <2>2, <1>4, <1>5, <1>7
<1>9. \A e \in Edges : TargetOf(e) = h => SourceOf(e) \in Taken
  <2>1. Waiting(h) = {}
    BY <1>1, <1>3, <1>4, FreeMeansNoneWaits DEF OrderInv
  <2> QED BY <2>1 DEF Waiting
<1>10. OrderTypeOK'
  <2>1. kahn' \in 0..Len(sorted')
    BY <1>1, <1>2, <1>5
  <2>2. todo' \subseteq Edges'
    BY <1>2
  <2> QED BY <2>1, <2>2, <1>1, <1>2, <1>3, <1>5 DEF OrderTypeOK
<1>11. CountsWaiting'
  BY <1>2, <1>8, SameCounts DEF OrderInv
<1>12. TodoIsTaken' /\ TakenIsFree'
  BY <1>2, <1>4, <1>5, <1>7 DEF OrderInv, TodoIsTaken, TakenIsFree
<1>13. QueueIsFree' /\ ListedOnce'
  BY <1>1, <1>2, <1>3, <1>6 DEF QueueIsFree, ListedOnce
<1>14. TakenInOrder'
  <2> SUFFICES ASSUME NEW j \in 1..kahn', NEW e \in Edges, TargetOf(e) = sorted'[j]
               PROVE  \E i \in 1..(j - 1) : sorted'[i] = SourceOf(e)
    BY <1>2 DEF TakenInOrder
  <2>1. CASE j \in 1..kahn
    <3>1. PICK i \in 1..(j - 1) : sorted[i] = SourceOf(e)
      BY <2>1, <1>2, <1>5 DEF OrderInv, TakenInOrder
    <3>2. i \in 1..kahn
      BY <2>1, <1>1
    <3> QED BY <3>1, <3>2, <1>5
  <2>2. CASE j = kahn + 1
    <3>1. PICK i \in 1..kahn : sorted[i] = SourceOf(e)
      BY <2>2, <1>2, <1>5, <1>9 DEF Taken
    <3>2. i \in 1..(j - 1)
      BY <2>2, <1>1
    <3> QED BY <3>1, <3>2, <1>5
  <2> QED BY <2>1, <2>2, <1>1, <1>2
<1>15. QueuedOnce'
  <2>1. Members(queue)' \cap Members(sorted)' = {}
    BY <1>1, <1>3, <1>5
  <2> QED BY <2>1, <1>2, <1>3, <1>5 DEF QueuedOnce
<1>16. Seeded' /\ RestIsHeld' /\ RestIsListed'
  BY <1>1 DEF Seeded, RestIsHeld, RestIsListed
<1>17. FreeIsQueued'
  BY <1>1, <1>2, <1>3, <1>5, <1>7 DEF OrderInv, FreeIsQueued, Node
<1> QED BY <1>10, <1>11, <1>12, <1>13, <1>14, <1>15, <1>16, <1>17 DEF OrderInv

LEMMA CountDownInv == ASSUME NEW e \in todo PROVE OrderInv /\ CountDown(e) => OrderInv'
<1> SUFFICES ASSUME OrderInv, CountDown(e) PROVE OrderInv'
  OBVIOUS
<1>0. PICK b : b = TargetOf(e)
  OBVIOUS
<1>1. /\ OrderTypeOK /\ queue \in Seq(Node) /\ degree \in [Node -> Nat] /\ todo \subseteq Edges
      /\ kahn = Len(sorted) /\ Once(queue) /\ Members(queue) \cap Members(sorted) = {}
      /\ \A v \in Members(queue) : degree[v] = 0
      /\ Working /\ Working' /\ phase = "sort" /\ phase' = "sort"
  BY DEF OrderInv, OrderTypeOK, CountDown, Working, QueuedOnce, QueueIsFree
<1>2. /\ todo' = todo \ {e} /\ degree' = [degree EXCEPT ![b] = @ - 1]
      /\ queue' = IF degree[b] - 1 = 0 THEN Append(queue, b) ELSE queue
      /\ Edges' = Edges /\ Taken' = Taken /\ Members(sorted)' = Members(sorted)
      /\ UNCHANGED <<wires, sorted, phase, turn, kahn>>
      /\ \A x : SourceOf(x)' = SourceOf(x) /\ TargetOf(x)' = TargetOf(x)
  BY <1>0 DEF CountDown, Edges, Taken, Members, SourceOf, TargetOf
<1>3. b \in Node /\ TargetOf(e) = b /\ e \in Edges /\ SourceOf(e) \in Taken
  <2>1. e \in Edges /\ SourceOf(e) \in Taken
    BY <1>1 DEF OrderInv, TodoIsTaken
  <2> QED BY <2>1, <1>0 DEF Edges
<1>4. e \in Waiting(b) /\ Waiting(b)' = Waiting(b) \ {e}
  <2>1. Waiting(b) = {x \in Edges : TargetOf(x) = b /\ (SourceOf(x) \notin Taken \/ x \in todo)}
    BY DEF Waiting
  <2>2. Waiting(b)' = {x \in Edges : TargetOf(x) = b /\ (SourceOf(x) \notin Taken \/ x \in todo \ {e})}
    BY <1>2 DEF Waiting
  <2> QED BY <2>1, <2>2, <1>3
<1>5. \A v \in Node : v # b => Waiting(v)' = Waiting(v)
  BY <1>2, <1>3 DEF Waiting
<1>6. /\ degree[b] \in Nat \ {0} /\ degree'[b] = degree[b] - 1
      /\ \A v \in Node : v # b => degree'[v] = degree[v]
      /\ degree' \in [Node -> Nat]
  <2>1. degree[b] # 0
    BY <1>1, <1>3, <1>4, FreeMeansNoneWaits DEF OrderInv
  <2>2. degree[b] \in Nat \ {0} /\ degree[b] - 1 \in Nat
    BY <2>1, <1>1, <1>3
  <2> QED BY <2>2, <1>1, <1>2, <1>3
<1>7. CountsWaiting'
  <2>1. ASSUME NEW v \in Node PROVE degree'[v] = Cardinality(Waiting(v)')
    <3>1. degree[v] = Cardinality(Waiting(v))
      BY DEF OrderInv, CountsWaiting
    <3>2. CASE v = b
      <4>1. IsFiniteSet(Waiting(b)) /\ Cardinality(Waiting(b)) \in Nat
        BY <1>1, WiresAreFinite DEF OrderTypeOK, WirePairs
      <4>2. Cardinality(Waiting(b) \ {e}) = Cardinality(Waiting(b)) - 1
        BY <4>1, <1>4, FS_RemoveElement
      <4> QED BY <3>1, <3>2, <4>1, <4>2, <1>4, <1>6
    <3> QED BY <3>1, <3>2, <1>5, <1>6
  <2> QED BY <2>1 DEF CountsWaiting, Node
<1>8. b \notin Members(queue) /\ b \notin Taken
  BY <1>1, <1>6 DEF OrderInv, TakenIsFree
<1>9. Taken = Members(sorted)
  BY <1>1 DEF Taken, Members
<1>10. /\ queue' \in Seq(Node) /\ Once(queue)'
       /\ Members(queue)' = IF degree'[b] = 0 THEN Members(queue) \cup {b} ELSE Members(queue)
  <2>1. CASE degree'[b] = 0
    <3>1. queue' = Append(queue, b)
      BY <2>1, <1>2, <1>6
    <3>2. queue' \in Seq(Node) /\ Members(queue') = Members(queue) \cup {b}
      BY <3>1, <1>1, <1>3, Appended
    <3>3. Once(queue')
      BY <3>1, <1>1, <1>3, <1>8, AppendedOnce
    <3> QED BY <3>2, <3>3, <2>1 DEF Members, Once
  <2>2. CASE degree'[b] # 0
    <3>1. queue' = queue
      BY <2>2, <1>2, <1>6
    <3> QED BY <3>1, <2>2, <1>1 DEF Members, Once
  <2> QED BY <2>1, <2>2
<1>11. OrderTypeOK'
  BY <1>1, <1>2, <1>6, <1>10 DEF OrderTypeOK
<1>12. TodoIsTaken' /\ TakenInOrder' /\ ListedOnce'
  BY <1>2 DEF OrderInv, TodoIsTaken, TakenInOrder, ListedOnce, Once
<1>13. TakenIsFree'
  <2>1. Taken \subseteq Node
    BY <1>1, TakenAreNodes
  <2> QED BY <2>1, <1>2, <1>6, <1>8 DEF OrderInv, TakenIsFree
<1>14. QueueIsFree'
  <2>1. Members(queue) \subseteq Node
    BY <1>1 DEF Members
  <2> QED BY <2>1, <1>1, <1>6, <1>8, <1>10 DEF QueueIsFree
<1>15. QueuedOnce'
  BY <1>1, <1>2, <1>8, <1>9, <1>10 DEF QueuedOnce
<1>16. Seeded' /\ RestIsHeld' /\ RestIsListed'
  BY <1>1 DEF Seeded, RestIsHeld, RestIsListed
<1>17. FreeIsQueued'
  BY <1>1, <1>2, <1>6, <1>10 DEF OrderInv, FreeIsQueued, Node
<1> QED BY <1>7, <1>11, <1>12, <1>13, <1>14, <1>15, <1>16, <1>17 DEF OrderInv

LEMMA StartRestInv == OrderInv /\ StartRest => OrderInv'
<1> SUFFICES ASSUME OrderInv, StartRest PROVE OrderInv'
  OBVIOUS
<1>1. /\ Taken' = Taken /\ Edges' = Edges /\ Members(sorted)' = Members(sorted)
      /\ \A v : Waiting(v)' = Waiting(v)
      /\ ~Working' /\ Working /\ phase = "sort" /\ phase' = "rest" /\ turn' = 1
      /\ queue = <<>> /\ todo = {}
      /\ UNCHANGED <<wires, degree, queue, sorted, todo, kahn>>
  BY DEF StartRest, Taken, Edges, Members, Working, Waiting, SourceOf, TargetOf
<1>2. OrderTypeOK'
  BY <1>1, OrderAssumption DEF OrderInv, OrderTypeOK
<1>3. CountsWaiting' /\ TodoIsTaken' /\ TakenIsFree' /\ TakenInOrder' /\ ListedOnce'
  BY <1>1 DEF OrderInv, CountsWaiting, TodoIsTaken, TakenIsFree, TakenInOrder, ListedOnce, SourceOf, TargetOf
<1>4. QueueIsFree' /\ QueuedOnce' /\ Seeded' /\ FreeIsQueued' /\ RestIsListed'
  BY <1>1 DEF QueueIsFree, QueuedOnce, Seeded, FreeIsQueued, RestIsListed
<1>5. RestIsHeld'
  <2>1. Members(queue) = {}
    BY <1>1 DEF Members
  <2>2. \A v \in Node \ Taken : degree[v] # 0
    BY <2>1, <1>1 DEF OrderInv, FreeIsQueued
  <2> QED BY <2>2, <1>1 DEF RestIsHeld, Node
<1> QED BY <1>2, <1>3, <1>4, <1>5 DEF OrderInv

LEMMA RestInv == OrderInv /\ Rest => OrderInv'
<1> SUFFICES ASSUME OrderInv, Rest PROVE OrderInv'
  OBVIOUS
<1>1. /\ OrderTypeOK /\ turn \in Node /\ turn \in Nat \ {0} /\ turn + 1 \in 1..(N + 1)
      /\ sorted \in Seq(Node) /\ Len(sorted) \in Nat /\ kahn \in 0..Len(sorted)
  BY OrderAssumption DEF OrderInv, OrderTypeOK, Rest, Node
<1>2. /\ Edges' = Edges /\ ~Working' /\ ~Working /\ phase = "rest" /\ phase' = "rest"
      /\ turn' = turn + 1 /\ UNCHANGED <<wires, degree, queue, todo, kahn>>
      /\ sorted' = IF turn \in Members(sorted) THEN sorted ELSE Append(sorted, turn)
  BY DEF Rest, Edges, Working, SourceOf, TargetOf
<1>3. /\ sorted' \in Seq(Node) /\ Len(sorted') \in Nat /\ Len(sorted) <= Len(sorted')
      /\ \A i \in 1..Len(sorted) : sorted'[i] = sorted[i]
      /\ Members(sorted') = Members(sorted) \cup {turn}
      /\ Once(sorted')
  <2>1. CASE turn \in Members(sorted)
    BY <2>1, <1>1, <1>2 DEF OrderInv, ListedOnce
  <2>2. CASE turn \notin Members(sorted)
    <3>1. sorted' = Append(sorted, turn)
      BY <2>2, <1>2
    <3>2. Once(sorted)
      BY DEF OrderInv, ListedOnce
    <3> QED BY <3>1, <3>2, <2>2, <1>1, Appended, AppendedOnce
  <2> QED BY <2>1, <2>2
<1>4. \A i \in 1..kahn : sorted'[i] = sorted[i]
  BY <1>1, <1>3
<1>5. Taken' = Taken /\ \A e : SourceOf(e)' = SourceOf(e) /\ TargetOf(e)' = TargetOf(e)
  BY <1>2, <1>4 DEF Taken, SourceOf, TargetOf
<1>6. \A v : Waiting(v)' = Waiting(v)
  BY <1>2, <1>5 DEF Waiting
<1>7. OrderTypeOK'
  <2>1. kahn' \in 0..Len(sorted')
    BY <1>1, <1>2, <1>3
  <2> QED BY <2>1, <1>1, <1>2, <1>3 DEF OrderTypeOK
<1>8. CountsWaiting' /\ TodoIsTaken' /\ TakenIsFree' /\ RestIsHeld'
  BY <1>2, <1>5, <1>6 DEF OrderInv, CountsWaiting, TodoIsTaken, TakenIsFree, RestIsHeld
<1>9. TakenInOrder'
  <2> SUFFICES ASSUME NEW j \in 1..kahn', NEW e \in Edges, TargetOf(e) = sorted'[j]
               PROVE  \E i \in 1..(j - 1) : sorted'[i] = SourceOf(e)
    BY <1>2, <1>5 DEF TakenInOrder
  <2>1. PICK i \in 1..(j - 1) : sorted[i] = SourceOf(e)
    BY <1>2, <1>4 DEF OrderInv, TakenInOrder
  <2>2. i \in 1..kahn
    BY <1>1, <1>2
  <2> QED BY <2>1, <2>2, <1>4
<1>10. ListedOnce'
  BY <1>3 DEF ListedOnce, Once
<1>11. QueueIsFree' /\ QueuedOnce' /\ Seeded' /\ FreeIsQueued'
  BY <1>2 DEF QueueIsFree, QueuedOnce, Seeded, FreeIsQueued
<1>12. RestIsListed'
  <2> SUFFICES ASSUME NEW v \in 1..(turn' - 1) PROVE v \in Members(sorted')
    BY <1>2 DEF RestIsListed, Members
  <2>1. v \in 1..(turn - 1) \/ v = turn
    BY <1>1, <1>2
  <2> QED BY <2>1, <1>2, <1>3 DEF OrderInv, RestIsListed
<1> QED BY <1>7, <1>8, <1>9, <1>10, <1>11, <1>12 DEF OrderInv

LEMMA FinishInv == OrderInv /\ Finish => OrderInv'
<1> SUFFICES ASSUME OrderInv, Finish PROVE OrderInv'
  OBVIOUS
<1>1. /\ Taken' = Taken /\ Edges' = Edges /\ Members(sorted)' = Members(sorted)
      /\ \A v : Waiting(v)' = Waiting(v)
      /\ ~Working' /\ ~Working /\ phase = "rest" /\ phase' = "done"
      /\ UNCHANGED <<wires, degree, queue, sorted, todo, turn, kahn>>
  BY DEF Finish, Taken, Edges, Members, Working, Waiting, SourceOf, TargetOf
<1>2. Node \subseteq 1..(turn - 1)
  BY OrderAssumption DEF OrderInv, OrderTypeOK, Finish, Node
<1>3. OrderTypeOK'
  BY <1>1 DEF OrderInv, OrderTypeOK
<1>4. CountsWaiting' /\ TodoIsTaken' /\ TakenIsFree' /\ TakenInOrder' /\ ListedOnce' /\ RestIsHeld'
  BY <1>1 DEF OrderInv, CountsWaiting, TodoIsTaken, TakenIsFree, TakenInOrder, ListedOnce, RestIsHeld,
              SourceOf, TargetOf
<1>5. QueueIsFree' /\ QueuedOnce' /\ Seeded' /\ FreeIsQueued'
  BY <1>1 DEF QueueIsFree, QueuedOnce, Seeded, FreeIsQueued
<1>6. RestIsListed'
  BY <1>1, <1>2 DEF OrderInv, RestIsListed
<1> QED BY <1>3, <1>4, <1>5, <1>6 DEF OrderInv

LEMMA StutterInv == OrderInv /\ UNCHANGED orderVars => OrderInv'
<1> SUFFICES ASSUME OrderInv, UNCHANGED orderVars PROVE OrderInv'
  OBVIOUS
<1>1. /\ Taken' = Taken /\ Edges' = Edges /\ Members(sorted)' = Members(sorted)
      /\ Members(queue)' = Members(queue) /\ Working' = Working
      /\ \A v : Waiting(v)' = Waiting(v)
      /\ UNCHANGED <<wires, degree, queue, sorted, todo, phase, turn, kahn>>
  BY DEF orderVars, Taken, Edges, Members, Working, Waiting, SourceOf, TargetOf
<1>2. OrderTypeOK'
  BY <1>1 DEF OrderInv, OrderTypeOK
<1>3. CountsWaiting' /\ TodoIsTaken' /\ QueueIsFree' /\ TakenIsFree' /\ TakenInOrder' /\ ListedOnce'
  BY <1>1 DEF OrderInv, CountsWaiting, TodoIsTaken, QueueIsFree, TakenIsFree, TakenInOrder, ListedOnce,
              SourceOf, TargetOf
<1>4. QueuedOnce' /\ Seeded' /\ FreeIsQueued' /\ RestIsHeld' /\ RestIsListed'
  BY <1>1 DEF OrderInv, QueuedOnce, Seeded, FreeIsQueued, RestIsHeld, RestIsListed
<1> QED BY <1>2, <1>3, <1>4 DEF OrderInv
-----------------------------------------------------------------------------
(* The theorems. *)

LEMMA OrderInvariance == OrderSpec => []OrderInv
<1>1. OrderInv /\ [OrderNext]_orderVars => OrderInv'
  BY SeedInv, StartSortInv, TakeInv, CountDownInv, StartRestInv, RestInv, FinishInv, StutterInv
     DEF OrderNext
<1> QED BY OrderInitInv, <1>1, PTL DEF OrderSpec

\* The sort's variables keep their types: no count falls below zero, and what was
\* taken from the queue is at the front of the list.
THEOREM OrderTyping == OrderSpec => []OrderTypeOK
<1>1. OrderInv => OrderTypeOK
  BY DEF OrderInv
<1> QED BY <1>1, OrderInvariance, PTL

\* Tasks run after those of every node before them, and a node that is not taken
\* from the queue is held back by another such node: getSortedNodes.
THEOREM OrderFollowsEdges == OrderSpec => []TasksFollowEdges
<1>1. OrderInv => TasksFollowEdges
  <2> SUFFICES ASSUME OrderInv PROVE TasksFollowEdges
    OBVIOUS
  <2>1. ASSUME phase \in {"rest", "done"}, NEW v \in Node \ Taken
        PROVE  \E e \in Edges : TargetOf(e) = v /\ SourceOf(e) \notin Taken
    <3>1. degree[v] # 0 /\ todo = {}
      BY <2>1 DEF OrderInv, RestIsHeld, Working
    <3>2. Waiting(v) # {}
      BY <3>1, FreeMeansNoneWaits DEF OrderInv
    <3> QED BY <3>1, <3>2 DEF Waiting
  <2> QED BY <2>1 DEF OrderInv, TakenInOrder, TasksFollowEdges
<1> QED BY <1>1, OrderInvariance, PTL

\* No node's tasks are written twice and none is left out, whatever is drawn.
THEOREM OrderIsComplete == OrderSpec => []EveryNodeOnce
<1>1. OrderInv => EveryNodeOnce
  BY DEF OrderInv, ListedOnce, RestIsListed, EveryNodeOnce, Once
<1> QED BY <1>1, OrderInvariance, PTL
-----------------------------------------------------------------------------
(* Connector. *)

\* What is stored tells what was chosen: an override, or what is drawn without one.
ChoiceIsStored ==
  /\ CustomStroke(edge) = picked.stroke
  /\ StrokeWidth(edge) = IF picked.width # 0 THEN picked.width ELSE DEFAULT_EDGE_WIDTH

LEMMA WireTypeInit == WireInit => WireTypeOK
<1> SUFFICES ASSUME WireInit PROVE WireTypeOK
  OBVIOUS
<1>1. edge \in [stroke : Colours, customStroke : BOOLEAN, width : {0} \cup Widths,
                customWidth : BOOLEAN, animated : BOOLEAN]
  BY DEF WireInit, Colours
<1>2. edge.stroke \notin Legacy => edge.stroke \in Swatches \cup {""}
  BY <1>1 DEF Colours
<1> QED
  BY <1>1, <1>2 DEF WireInit, WireTypeOK

LEMMA WireTypeNext == WireTypeOK /\ [WireNext]_wireVars => WireTypeOK'
<1> SUFFICES ASSUME WireTypeOK, [WireNext]_wireVars PROVE WireTypeOK'
  OBVIOUS
<1> USE DEF WireTypeOK, Colours
<1>1. CustomStroke(edge) \in Colours /\ StrokeWidth(edge) \in {0, DEFAULT_EDGE_WIDTH} \cup Widths
  BY DEF CustomStroke, StrokeWidth
<1>2. ASSUME NEW a \in BOOLEAN, NEW s \in Colours, NEW w \in Widths \cup {StrokeWidth(edge)}, Send(a, s, w)
      PROVE  edge' \in [stroke : Colours, customStroke : BOOLEAN, width : {0} \cup Widths,
                        customWidth : BOOLEAN, animated : BOOLEAN]
  BY <1>1, <1>2 DEF Send, UpdateEdgeData, StrokeWidth, CustomStroke, DEFAULT_EDGE_WIDTH
<1>3. CASE Retype
  BY <1>1, <1>2, <1>3 DEF Retype
<1>4. CASE ToggleDash
  BY <1>1, <1>2, <1>4 DEF ToggleDash
<1>5. ASSUME NEW w \in Widths, Slide(w) PROVE WireTypeOK'
  BY <1>1, <1>2, <1>5 DEF Slide
<1>6. ASSUME NEW c \in Swatches \cup {""}, Pick(c) PROVE WireTypeOK'
  BY <1>1, <1>2, <1>6 DEF Pick
<1>7. ASSUME NEW t \in Techs, Retarget(t) PROVE WireTypeOK'
  BY <1>7 DEF Retarget
<1>8. CASE UNCHANGED wireVars
  BY <1>8 DEF wireVars
<1> QED
  BY <1>3, <1>4, <1>5, <1>6, <1>7, <1>8 DEF WireNext

\* Type correctness of a connection, its node and what was chosen.
THEOREM WireTyped == WireSpec => []WireTypeOK
  BY WireTypeInit, WireTypeNext, PTL DEF WireSpec

\* What is sent back as it is shown changes nothing of the look; a swatch and a width do.
LEMMA SendKeeps ==
  ASSUME NEW e, e \in [stroke : Colours, customStroke : BOOLEAN, width : {0} \cup Widths,
                       customWidth : BOOLEAN, animated : BOOLEAN],
         NEW a, NEW s \in Colours, NEW w
  PROVE  /\ CustomStroke(UpdateEdgeData(e, a, s, w)) = s
         /\ StrokeWidth(UpdateEdgeData(e, a, s, w)) =
              IF w = StrokeWidth(e) THEN StrokeWidth(e) ELSE IF w = 0 THEN DEFAULT_EDGE_WIDTH ELSE w
  BY DEF UpdateEdgeData, CustomStroke, StrokeWidth

LEMMA ChoiceNext == WireTypeOK /\ ChoiceIsStored /\ [WireNext]_wireVars => ChoiceIsStored'
<1> SUFFICES ASSUME WireTypeOK, ChoiceIsStored, [WireNext]_wireVars PROVE ChoiceIsStored'
  OBVIOUS
<1> USE DEF ChoiceIsStored
<1>1. edge \in [stroke : Colours, customStroke : BOOLEAN, width : {0} \cup Widths,
                customWidth : BOOLEAN, animated : BOOLEAN]
  BY DEF WireTypeOK
<1>2. picked \in [stroke : Swatches \cup {""}, width : {0} \cup Widths]
  BY DEF WireTypeOK
<1>a. CustomStroke(edge) \in Colours
  BY <1>1 DEF CustomStroke, Colours
<1>3. CASE Retype
  BY <1>1, <1>a, <1>3, SendKeeps DEF Retype, Send
<1>4. CASE ToggleDash
  BY <1>1, <1>a, <1>4, SendKeeps DEF ToggleDash, Send
<1>5. ASSUME NEW w \in Widths, Slide(w) PROVE ChoiceIsStored'
  <2>1. picked' = [picked EXCEPT !.width = w] /\ w # StrokeWidth(edge)
    BY <1>5 DEF Slide
  <2>2. picked'.stroke = picked.stroke /\ picked'.width = w
    BY <2>1, <1>2
  <2>3. edge' = UpdateEdgeData(edge, edge.animated, CustomStroke(edge), w)
    BY <1>5 DEF Slide, Send
  <2>4. CustomStroke(edge') = CustomStroke(edge) /\ StrokeWidth(edge') = IF w = 0 THEN DEFAULT_EDGE_WIDTH ELSE w
    BY <1>1, <1>a, <2>1, <2>3, SendKeeps
  <2> QED
    BY <2>2, <2>4
<1>6. ASSUME NEW c \in Swatches \cup {""}, Pick(c) PROVE ChoiceIsStored'
  <2>1. picked' = [picked EXCEPT !.stroke = c]
    BY <1>6 DEF Pick
  <2>0. c \in Colours /\ CustomStroke(edge) \in Colours
    BY <1>1 DEF Colours, CustomStroke
  <2>2. picked'.stroke = c /\ picked'.width = picked.width
    BY <2>1, <1>2
  <2>3. edge' = UpdateEdgeData(edge, edge.animated, c, StrokeWidth(edge))
    BY <1>6 DEF Pick, Send
  <2>4. CustomStroke(edge') = c /\ StrokeWidth(edge') = StrokeWidth(edge)
    BY <1>1, <2>0, <2>3 DEF UpdateEdgeData, CustomStroke, StrokeWidth
  <2> QED
    BY <2>2, <2>4
<1>7. ASSUME NEW t \in Techs, Retarget(t) PROVE ChoiceIsStored'
  BY <1>7 DEF Retarget
<1>8. CASE UNCHANGED wireVars
  BY <1>8 DEF wireVars
<1> QED
  BY <1>3, <1>4, <1>5, <1>6, <1>7, <1>8 DEF WireNext

\* A connection is drawn as the user chose, else by what it points at, for any
\* palettes and whatever it was saved with.
THEOREM LookFollowsChoice == WireSpec => []DrawnAsChosen
<1>1. WireInit => ChoiceIsStored
  <2> SUFFICES ASSUME WireInit PROVE ChoiceIsStored
    OBVIOUS
  <2>1. edge.customStroke = FALSE /\ edge.customWidth = FALSE
    BY DEF WireInit
  <2>2. picked.stroke = (IF edge.stroke \in Legacy THEN "" ELSE edge.stroke) /\ picked.width = 0
    BY DEF WireInit
  <2> QED
    BY <2>1, <2>2 DEF ChoiceIsStored, CustomStroke, StrokeWidth
<1>2. ChoiceIsStored => DrawnAsChosen
  BY DEF ChoiceIsStored, DrawnAsChosen, Drawn
<1> QED
  BY <1>1, <1>2, ChoiceNext, WireTyped, PTL DEF WireSpec
-----------------------------------------------------------------------------
(* Tour. *)

StepRecord == [target : Landmarks, placement : DOMAIN ORDER, task : BOOLEAN]
Sides == {"right", "bottom", "left", "top"}

\* The lists of steps are lists of steps, and not empty.
LEMMA WorkspaceList ==
  ASSUME NEW interactive \in BOOLEAN
  PROVE  WorkspaceSteps(interactive) \in Seq(StepRecord) /\ Len(WorkspaceSteps(interactive)) >= 1
<1> DEFINE s1 == Step("", "bottom", FALSE)
           s2 == IF interactive THEN Step("workarea", "bottom", TRUE) ELSE Step("library", "right", FALSE)
           s3 == Step("canvas", "bottom", interactive)
           s4 == Step("sandbox", "bottom", FALSE)
           s5 == Step("inspector", "left", FALSE)
           s6 == Step("views", "bottom", FALSE)
           s7 == Step("project-tools", "bottom", FALSE)
           s8 == Step("actions", "bottom", FALSE)
           s9 == Step("console", "top", FALSE)
           s10 == Step("help", "bottom", FALSE)
<1>1. WorkspaceSteps(interactive) = <<s1, s2, s3, s4, s5, s6, s7, s8, s9, s10>>
  BY DEF WorkspaceSteps
<1>2. s2 \in StepRecord
  <2>1. Step("workarea", "bottom", TRUE) \in StepRecord /\ Step("library", "right", FALSE) \in StepRecord
    BY DEF Step, StepRecord, ORDER, Landmarks
  <2> QED
    BY <2>1
<1>3. s1 \in StepRecord /\ s3 \in StepRecord /\ s4 \in StepRecord /\ s5 \in StepRecord
  BY DEF Step, StepRecord, ORDER, Landmarks
<1>4. /\ s6 \in StepRecord /\ s7 \in StepRecord /\ s8 \in StepRecord
      /\ s9 \in StepRecord /\ s10 \in StepRecord
  BY DEF Step, StepRecord, ORDER, Landmarks
<1> HIDE DEF s1, s2, s3, s4, s5, s6, s7, s8, s9, s10
<1> QED
  BY <1>1, <1>2, <1>3, <1>4

LEMMA DashboardList ==
  ASSUME NEW checklist \in BOOLEAN
  PROVE  DashboardSteps(checklist) \in Seq(StepRecord) /\ Len(DashboardSteps(checklist)) >= 1
<1> DEFINE s1 == Step("", "bottom", FALSE)
           s2 == Step("nav", "right", FALSE)
           s3 == Step("team", "bottom", FALSE)
           s4 == Step("search", "bottom", FALSE)
           s5 == Step("new-project", "bottom", FALSE)
           s6 == Step("checklist", "bottom", FALSE)
           s7 == Step("stats", "bottom", FALSE)
           s8 == Step("projects", "bottom", FALSE)
           s9 == Step("runs", "top", FALSE)
           s10 == Step("tools", "bottom", FALSE)
           before == <<s1, s2, s3, s4, s5>>
           between == IF checklist THEN <<s6>> ELSE <<>>
           after == <<s7, s8, s9, s10>>
<1>1. DashboardSteps(checklist) = (before \o between) \o after
  BY DEF DashboardSteps
<1>2. /\ s1 \in StepRecord /\ s2 \in StepRecord /\ s3 \in StepRecord
      /\ s4 \in StepRecord /\ s5 \in StepRecord
  BY DEF Step, StepRecord, ORDER, Landmarks
<1>3. /\ s6 \in StepRecord /\ s7 \in StepRecord /\ s8 \in StepRecord
      /\ s9 \in StepRecord /\ s10 \in StepRecord
  BY DEF Step, StepRecord, ORDER, Landmarks
<1> HIDE DEF s1, s2, s3, s4, s5, s6, s7, s8, s9, s10
<1>4. before \in Seq(StepRecord) /\ Len(before) = 5
  BY <1>2
<1>5. between \in Seq(StepRecord)
  BY <1>3
<1>6. after \in Seq(StepRecord)
  BY <1>3
<1> HIDE DEF before, between, after
<1> QED
  BY <1>1, <1>4, <1>5, <1>6, ConcatProperties
-----------------------------------------------------------------------------
LEMMA TourTypeInit == TourInit => TourTypeOK
<1> SUFFICES ASSUME TourInit PROVE TourTypeOK
  OBVIOUS
<1>1. active \in Seq(StepRecord) /\ Len(active) >= 1
  BY WorkspaceList, DashboardList DEF TourInit
<1>2. seen \in [vp : Windows, box : Boxes \cup {NoBox}, height : Heights \cup {460}]
  BY DEF TourInit
<1> QED
  BY <1>1, <1>2 DEF TourInit, TourTypeOK, StepRecord, last

LEMMA PlacesType ==
  ASSUME NEW s, NEW vp
  PROVE  \A b \in Places(s, vp) : b = NoBox \/ (b \in Boxes /\ InView(b, vp))
  BY DEF Places

LEMMA GoType ==
  ASSUME TourTypeOK, Open, NEW delta \in {1, -1}, go(delta)
  PROVE  /\ index' \in 1..last
         /\ leaving' \in {"no", "finished", "skipped"}
         /\ box' = box \/ box' = NoBox \/ (box' \in Boxes /\ InView(box', window))
<1>1. last \in Nat
  BY DEF TourTypeOK, last
<1>2. CASE requestClose("finished")
  BY <1>2 DEF requestClose, TourTypeOK
<1>3. CASE UNCHANGED <<index, box, leaving>>
  BY <1>3 DEF TourTypeOK
<1>4. CASE /\ ~(index + delta > last) /\ ~(index + delta < 1)
           /\ index' = index + delta /\ box' \in Places(active[index'], window) /\ UNCHANGED leaving
  BY <1>1, <1>4, PlacesType DEF TourTypeOK
<1> QED
  BY <1>2, <1>3, <1>4 DEF go

LEMMA TourTypeNext == TourTypeOK /\ [TourNext]_tourVars => TourTypeOK'
<1> SUFFICES ASSUME TourTypeOK, [TourNext]_tourVars PROVE TourTypeOK'
  OBVIOUS
<1> USE DEF TourTypeOK, last
<1>1. ASSUME NEW delta \in {1, -1}, Press(delta) PROVE TourTypeOK'
  BY <1>1, GoType DEF Press, Open
<1>2. ASSUME NEW delta \in {1, -1}, NEW onCard \in BOOLEAN, PressArrow(delta, onCard) PROVE TourTypeOK'
  BY <1>1, <1>2 DEF PressArrow
<1>3. CASE Skip
  BY <1>3 DEF Skip, requestClose, Open
<1>4. CASE TaskDone
  BY <1>4 DEF TaskDone
<1>5. CASE Measure
  BY <1>5 DEF Measure
<1>6. ASSUME NEW h \in Heights, CardResized(h) PROVE TourTypeOK'
  BY <1>6 DEF CardResized
<1>7. CASE PageMoves
  BY <1>7, PlacesType DEF PageMoves
<1>8. CASE FadedOut
  BY <1>8 DEF FadedOut
<1>9. CASE UNCHANGED tourVars
  BY <1>9 DEF tourVars
<1> QED
  BY <1>1, <1>2, <1>3, <1>4, <1>5, <1>6, <1>7, <1>8, <1>9 DEF TourNext

\* Type correctness of the tour: it stays within its list of steps.
THEOREM TourTyped == TourSpec => []TourTypeOK
  BY TourTypeInit, TourTypeNext, PTL DEF TourSpec
-----------------------------------------------------------------------------
\* What was measured belongs together: the box is in view in the window that was
\* measured with it, as it is in the window it is in now.
MeasuredInView ==
  /\ box = NoBox \/ InView(box, window)
  /\ seen.box = NoBox \/ InView(seen.box, seen.vp)

LEMMA MeasuredNext == TourTypeOK /\ MeasuredInView /\ [TourNext]_tourVars => MeasuredInView'
<1> SUFFICES ASSUME TourTypeOK, MeasuredInView, [TourNext]_tourVars PROVE MeasuredInView'
  OBVIOUS
<1> USE DEF MeasuredInView
<1>1. ASSUME NEW delta \in {1, -1}, Press(delta) PROVE MeasuredInView'
  BY <1>1, GoType DEF Press
<1>2. ASSUME NEW delta \in {1, -1}, NEW onCard \in BOOLEAN, PressArrow(delta, onCard) PROVE MeasuredInView'
  BY <1>1, <1>2 DEF PressArrow
<1>3. CASE Skip
  BY <1>3 DEF Skip, requestClose
<1>4. CASE TaskDone
  BY <1>4 DEF TaskDone
<1>5. CASE Measure
  <2>1. seen'.vp = window /\ seen'.box = box /\ box' = box /\ window' = window
    BY <1>5 DEF Measure, TourTypeOK
  <2> QED
    BY <2>1
<1>6. ASSUME NEW h \in Heights, CardResized(h) PROVE MeasuredInView'
  <2>1. seen'.vp = seen.vp /\ seen'.box = seen.box /\ box' = box /\ window' = window
    BY <1>6 DEF CardResized, TourTypeOK
  <2> QED
    BY <2>1
<1>7. CASE PageMoves
  BY <1>7, PlacesType DEF PageMoves
<1>8. CASE FadedOut
  BY <1>8 DEF FadedOut
<1>9. CASE UNCHANGED tourVars
  BY <1>9 DEF tourVars
<1> QED
  BY <1>1, <1>2, <1>3, <1>4, <1>5, <1>6, <1>7, <1>8, <1>9 DEF TourNext
-----------------------------------------------------------------------------
BoxRecord == [top : Int, left : Int, width : Nat, height : Nat]

LEMMA Clamped ==
  ASSUME NEW value \in Int, NEW min \in Int, NEW max \in Int, min <= max
  PROVE  clamp(value, min, max) \in min..max
  BY DEF clamp, Lower, Higher

LEMMA Half == \A n \in Int : n \div 2 \in Int
  OBVIOUS

\* What a card at a place must meet: within the margins, and clear of the target.
CardFits(card, pop, vp) ==
  /\ card.left \in TOUR_MARGIN..MaxLeft(pop, vp)
  /\ MaxTop(pop, vp) >= TOUR_MARGIN => card.top \in TOUR_MARGIN..MaxTop(pop, vp)

CardClear(card, pop, target) ==
  ~Meet([top |-> card.top, left |-> card.left, width |-> pop.w, height |-> pop.h], target)

\* A side that has room takes the card with its margins, and clear of a target that is
\* in view but for the room around it.
LEMMA SideFits ==
  ASSUME NEW b \in BoxRecord, NEW pop \in [w : Int, h : Nat], NEW vp \in [w : Nat, h : Nat],
         InView(b, vp), MaxLeft(pop, vp) >= TOUR_MARGIN,
         NEW side \in Sides, HasRoom(side, Frame(b), pop, vp)
  PROVE  /\ CardFits(OnSide(side, Frame(b), pop, vp), pop, vp)
         /\ CardClear(OnSide(side, Frame(b), pop, vp), pop, Frame(b))
         /\ OnSide(side, Frame(b), pop, vp).placement = side
<1> DEFINE target == Frame(b)
<1>1. /\ target \in BoxRecord
      /\ target.top = b.top - 12 /\ target.left = b.left - 12
      /\ target.width = b.width + 24 /\ target.height = b.height + 24
  BY DEF Frame, BoxRecord, TOUR_PAD
<1>2. /\ b.top < vp.h /\ b.left < vp.w /\ b.top + b.height > 0 /\ b.left + b.width > 0
      /\ b.top \in Int /\ b.left \in Int /\ b.width \in Nat /\ b.height \in Nat
  BY DEF InView, BoxRecord
<1>0. /\ pop.w \in Int /\ pop.h \in Nat /\ vp.w \in Nat /\ vp.h \in Nat
      /\ MaxLeft(pop, vp) \in Int /\ MaxTop(pop, vp) \in Int /\ TOUR_MARGIN \in Int
  BY DEF MaxLeft, MaxTop, TOUR_MARGIN
<1>3. CentreX(target) - pop.w \div 2 \in Int /\ CentreY(target) - pop.h \div 2 \in Int
  BY <1>1, Half DEF CentreX, CentreY, BoxRecord
<1>4. MaxLeft(pop, vp) = vp.w - pop.w - 32 /\ MaxTop(pop, vp) = vp.h - pop.h - 32 /\ TOUR_MARGIN = 32
  BY DEF MaxLeft, MaxTop, TOUR_MARGIN
<1> DEFINE alongX == clamp(CentreX(target) - pop.w \div 2, TOUR_MARGIN, MaxLeft(pop, vp))
           alongY == clamp(CentreY(target) - pop.h \div 2, TOUR_MARGIN, MaxTop(pop, vp))
<1>5. alongX \in TOUR_MARGIN..MaxLeft(pop, vp)
  BY <1>0, <1>3, Clamped
<1>6. MaxTop(pop, vp) >= TOUR_MARGIN => alongY \in TOUR_MARGIN..MaxTop(pop, vp)
  BY <1>0, <1>3, Clamped
<1>7. alongY \in Int
  BY <1>0, <1>3 DEF clamp, Lower, Higher
<1> DEFINE card == OnSide(side, target, pop, vp)
           at == Beside(side, target, pop, vp)
<1>8. card.top = at.top /\ card.left = at.left /\ card.placement = side
  BY DEF OnSide
<1>9. HasRoom(side, target, pop, vp)
  OBVIOUS
<1> HIDE DEF target, alongX, alongY, card, at
<1>10. ASSUME side = "right" PROVE CardFits(card, pop, vp) /\ CardClear(card, pop, target)
  <2>1. at.top = alongY /\ at.left = target.left + target.width + 28
    BY <1>10 DEF Beside, TOUR_GAP, alongX, alongY, at
  <2>2. at.left <= MaxLeft(pop, vp)
    BY <1>9, <1>10 DEF HasRoom, at
  <2>3. CardFits(card, pop, vp)
    BY <1>0, <2>1, <2>2, <1>1, <1>2, <1>4, <1>6, <1>7, <1>8 DEF CardFits
  <2>4. CardClear(card, pop, target)
    BY <1>0, <2>1, <2>2, <1>1, <1>2, <1>4, <1>6, <1>7, <1>8 DEF CardClear, Meet
  <2> QED
    BY <2>3, <2>4
<1>11. ASSUME side = "left" PROVE CardFits(card, pop, vp) /\ CardClear(card, pop, target)
  <2>1. at.top = alongY /\ at.left = target.left - 28 - pop.w
    BY <1>11 DEF Beside, TOUR_GAP, alongX, alongY, at
  <2>2. at.left >= TOUR_MARGIN
    BY <1>9, <1>11 DEF HasRoom, at
  <2>3. CardFits(card, pop, vp)
    BY <1>0, <2>1, <2>2, <1>1, <1>2, <1>4, <1>6, <1>7, <1>8 DEF CardFits
  <2>4. CardClear(card, pop, target)
    BY <1>0, <2>1, <2>2, <1>1, <1>2, <1>4, <1>6, <1>7, <1>8 DEF CardClear, Meet
  <2> QED
    BY <2>3, <2>4
<1>12. ASSUME side = "bottom" PROVE CardFits(card, pop, vp) /\ CardClear(card, pop, target)
  <2>1. at.left = alongX /\ at.top = target.top + target.height + 28
    BY <1>12 DEF Beside, TOUR_GAP, alongX, alongY, at
  <2>2. at.top <= MaxTop(pop, vp)
    BY <1>9, <1>12 DEF HasRoom, at
  <2>3. CardFits(card, pop, vp)
    BY <1>0, <2>1, <2>2, <1>1, <1>2, <1>4, <1>5, <1>8 DEF CardFits
  <2>4. CardClear(card, pop, target)
    BY <1>0, <2>1, <2>2, <1>1, <1>2, <1>4, <1>5, <1>8 DEF CardClear, Meet
  <2> QED
    BY <2>3, <2>4
<1>13. ASSUME side = "top" PROVE CardFits(card, pop, vp) /\ CardClear(card, pop, target)
  <2>1. at.left = alongX /\ at.top = target.top - 28 - pop.h
    BY <1>13 DEF Beside, TOUR_GAP, alongX, alongY, at
  <2>2. at.top >= TOUR_MARGIN
    BY <1>9, <1>13 DEF HasRoom, at
  <2>3. CardFits(card, pop, vp)
    BY <1>0, <2>1, <2>2, <1>1, <1>2, <1>4, <1>5, <1>8 DEF CardFits
  <2>4. CardClear(card, pop, target)
    BY <1>0, <2>1, <2>2, <1>1, <1>2, <1>4, <1>5, <1>8 DEF CardClear, Meet
  <2> QED
    BY <2>3, <2>4
<1> QED
  BY <1>8, <1>10, <1>11, <1>12, <1>13 DEF Sides, card, target

\* Where no side is taken, the card keeps its margins over or away from the target.
LEMMA OtherwiseFits ==
  ASSUME NEW target \in BoxRecord, NEW pop \in [w : Int, h : Nat], NEW vp \in [w : Nat, h : Nat],
         MaxLeft(pop, vp) >= TOUR_MARGIN
  PROVE  /\ CardFits(Docked(target, pop, vp), pop, vp) /\ Docked(target, pop, vp).placement = "sheet"
         /\ CardFits(Over(target, pop, vp), pop, vp) /\ Over(target, pop, vp).placement = "overlap"
         /\ CardFits(Centred(pop, vp), pop, vp)
<1>1. /\ CentreX(target) - pop.w \div 2 \in Int /\ (vp.w - pop.w) \div 2 \in Int
      /\ (vp.h - pop.h) \div 2 \in Int /\ MaxLeft(pop, vp) \in Int /\ MaxTop(pop, vp) \in Int
      /\ TOUR_MARGIN \in Int
  BY Half DEF CentreX, BoxRecord, MaxLeft, MaxTop, TOUR_MARGIN
<1>2. /\ clamp(CentreX(target) - pop.w \div 2, TOUR_MARGIN, MaxLeft(pop, vp)) \in TOUR_MARGIN..MaxLeft(pop, vp)
      /\ clamp((vp.w - pop.w) \div 2, TOUR_MARGIN, MaxLeft(pop, vp)) \in TOUR_MARGIN..MaxLeft(pop, vp)
      /\ MaxTop(pop, vp) >= TOUR_MARGIN =>
           clamp((vp.h - pop.h) \div 2, TOUR_MARGIN, MaxTop(pop, vp)) \in TOUR_MARGIN..MaxTop(pop, vp)
  BY <1>1, Clamped
<1>3. MaxTop(pop, vp) >= TOUR_MARGIN =>
        /\ Higher(TOUR_MARGIN, MaxTop(pop, vp)) \in TOUR_MARGIN..MaxTop(pop, vp)
        /\ TOUR_MARGIN \in TOUR_MARGIN..MaxTop(pop, vp)
  BY <1>1 DEF Higher
<1>4. CardFits(Docked(target, pop, vp), pop, vp) /\ Docked(target, pop, vp).placement = "sheet"
  BY <1>2, <1>3 DEF Docked, CardFits
<1>5. CardFits(Over(target, pop, vp), pop, vp) /\ Over(target, pop, vp).placement = "overlap"
  BY <1>2, <1>3 DEF Over, CardFits
<1>6. CardFits(Centred(pop, vp), pop, vp)
  BY <1>2 DEF Centred, CardFits
<1> QED
  BY <1>4, <1>5, <1>6

\* The card keeps its margins to the window that was measured, and covers its target only
\* where nothing else is left, for every window, box and height.
LEMMA PlacedWell ==
  ASSUME NEW b, b \in BoxRecord \/ b = NoBox, NEW pop \in [w : Int, h : Nat], NEW vp \in [w : Nat, h : Nat],
         b = NoBox \/ InView(b, vp), MaxLeft(pop, vp) >= TOUR_MARGIN, NEW preferred \in Sides
  PROVE  LET card == placePopover(IF b = NoBox THEN NoBox ELSE Frame(b), pop, vp, preferred)
         IN /\ CardFits(card, pop, vp)
            /\ b # NoBox /\ card.placement \notin {"sheet", "overlap"} => CardClear(card, pop, Frame(b))
<1> DEFINE card == placePopover(IF b = NoBox THEN NoBox ELSE Frame(b), pop, vp, preferred)
<1>1. CASE b = NoBox
  <2>1. card = Centred(pop, vp)
    BY <1>1 DEF placePopover
  <2>3. [top |-> 0, left |-> 0, width |-> 0, height |-> 0] \in BoxRecord
    BY DEF BoxRecord
  <2> QED
    BY <1>1, <2>1, <2>3, OtherwiseFits
<1>2. CASE b # NoBox
  <2>1. b \in BoxRecord /\ InView(b, vp) /\ Frame(b) \in BoxRecord /\ Frame(b) # NoBox
    <3>1. b \in BoxRecord /\ InView(b, vp)
      BY <1>2
    <3>2. Frame(b) \in BoxRecord /\ Frame(b).width = b.width + 24
      BY <3>1 DEF Frame, BoxRecord, TOUR_PAD
    <3>3. NoBox.width = -1
      BY DEF NoBox
    <3> QED
      BY <3>1, <3>2, <3>3 DEF BoxRecord
  <2>2. CASE vp.w < TOUR_SHEET_BELOW
    BY <2>1, <2>2, <1>2, OtherwiseFits DEF placePopover
  <2>3. CASE ~(vp.w < TOUR_SHEET_BELOW)
    <3>1. card = FirstSide(ORDER[preferred], Frame(b), pop, vp)
      BY <1>2, <2>1, <2>3 DEF placePopover
    <3>2. PICK sides : sides = ORDER[preferred]
      OBVIOUS
    <3>3. sides[1] \in Sides /\ sides[2] \in Sides /\ sides[3] \in Sides /\ sides[4] \in Sides
      BY <3>2 DEF ORDER, Sides
    <3>4. \/ \E side \in Sides : HasRoom(side, Frame(b), pop, vp) /\ card = OnSide(side, Frame(b), pop, vp)
          \/ card = Over(Frame(b), pop, vp)
      BY <3>1, <3>2, <3>3 DEF FirstSide
    <3> HIDE DEF card
    <3>5. ASSUME NEW side \in Sides, HasRoom(side, Frame(b), pop, vp), card = OnSide(side, Frame(b), pop, vp)
          PROVE  CardFits(card, pop, vp) /\ CardClear(card, pop, Frame(b))
      BY <2>1, <3>5, SideFits
    <3>6. ASSUME card = Over(Frame(b), pop, vp)
          PROVE  CardFits(card, pop, vp) /\ card.placement = "overlap"
      BY <2>1, <3>6, OtherwiseFits
    <3>7. CardFits(card, pop, vp) /\ (card.placement \notin {"sheet", "overlap"} => CardClear(card, pop, Frame(b)))
      BY <3>4, <3>5, <3>6
    <3> QED
      BY <3>7 DEF card
  <2> QED
    BY <2>2, <2>3
<1> QED
  BY <1>1, <1>2

\* The card of the tour stays where it was put, or finds its place again, for every window,
\* every box of a target that shows partly in it and every height of the card.
THEOREM CardKeepsItsPlace == TourSpec => []CardIsPlaced
<1>1. TourInit => MeasuredInView
  BY DEF TourInit, MeasuredInView
<1>2. TourTypeOK /\ MeasuredInView => CardIsPlaced
  <2> SUFFICES ASSUME TourTypeOK, MeasuredInView PROVE CardIsPlaced
    OBVIOUS
  <2>1. seen.vp \in [w : Nat, h : Nat] /\ seen.height \in Nat /\ (seen.box \in BoxRecord \/ seen.box = NoBox)
    <3>1. seen.vp \in Windows /\ seen.box \in Boxes \cup {NoBox} /\ seen.height \in Heights \cup {460}
      BY DEF TourTypeOK
    <3>2. seen.height \in Nat
      <4>1. Heights \cup {460} \subseteq Nat
        BY TourAssumption
      <4> QED
        BY <3>1, <4>1
    <3>4. seen.vp \in [w : Nat, h : Nat]
      BY <3>1, TourAssumption
    <3>3. seen.box \in BoxRecord \/ seen.box = NoBox
      BY <3>1, TourAssumption DEF BoxRecord
    <3> QED
      BY <3>2, <3>3, <3>4
  <2>2. CardSize \in [w : Int, h : Nat] /\ MaxLeft(CardSize, seen.vp) >= TOUR_MARGIN
    BY <2>1 DEF CardSize, Lower, CARD_WIDTH, TOUR_MARGIN, MaxLeft
  <2>3. step.placement \in Sides
    <3>1. active \in Seq(StepRecord) /\ index \in 1..Len(active)
      BY DEF TourTypeOK, StepRecord, last
    <3>2. step \in StepRecord
      BY <3>1 DEF step
    <3>3. DOMAIN ORDER = Sides
      BY DEF ORDER, Sides
    <3> QED
      BY <3>2, <3>3 DEF StepRecord
  <2>4. seen.box = NoBox \/ InView(seen.box, seen.vp)
    BY DEF MeasuredInView
  <2>5. /\ CardFits(Card, CardSize, seen.vp)
        /\ seen.box # NoBox /\ Card.placement \notin {"sheet", "overlap"} => CardClear(Card, CardSize, Frame(seen.box))
    BY <2>1, <2>2, <2>3, <2>4, PlacedWell DEF Card
  <2> QED
    BY <2>5 DEF CardIsPlaced, CardFits, CardClear
<1> QED
  BY <1>1, <1>2, TourTyped, MeasuredNext, PTL DEF TourSpec
=============================================================================
