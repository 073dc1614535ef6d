--------------------------- MODULE PlaybookOrder ---------------------------
(****************************************************************************)
(* The order of the playbook's tasks: getSortedNodes of                     *)
(* src/apps/web/app/lib/exportYaml.ts, which sorts the canvas along its     *)
(* connections and puts what a cycle holds back at the end.                 *)
(*                                                                          *)
(* Nodes are numbered in canvas order.  One step is one turn of a loop: the *)
(* loop over all nodes that seeds the queue, the one that takes a node from *)
(* the queue and counts down its neighbours one by one, and the loop over   *)
(* all nodes that appends those left over.  The connections are a list, in  *)
(* which an imported or loaded canvas may repeat one: each counts for       *)
(* itself, and a node's neighbours come in the order of the list.           *)
(****************************************************************************)
EXTENDS OrderConstants, Naturals, Sequences, FiniteSets

VARIABLES
  wires,   \* edges: the list of connections, pairs of a source and a target id
  degree,  \* inDegree: per node, the connections to it not counted down yet
  queue,   \* the nodes nothing holds back
  sorted,  \* sortedIds
  todo,    \* the connections of the node taken last that are still to be counted down
  phase,   \* the loop that runs: "seed", "sort", "rest", or "done"
  turn,    \* the node a loop over all nodes is at
  kahn     \* how many nodes were taken from the queue

orderVars == <<wires, degree, queue, sorted, todo, phase, turn, kahn>>

Node == 1..N

SourceOf(e) == wires[e][1]
TargetOf(e) == wires[e][2]

\* The places of the list that count: both ends of the connection are on the canvas.
Edges == {e \in DOMAIN wires : SourceOf(e) \in Node /\ TargetOf(e) \in Node}

Members(s) == {s[i] : i \in 1..Len(s)}

OrderInit ==
  /\ \E n \in 0..MaxWires : wires \in [1..n -> (Node \cup Strays) \X (Node \cup Strays)]
  /\ degree = [v \in Node |-> Cardinality({e \in Edges : TargetOf(e) = v})]
  /\ queue = <<>>
  /\ sorted = <<>>
  /\ todo = {}
  /\ phase = "seed"
  /\ turn = 1
  /\ kahn = 0

\* The first loop: nodes that nothing leads to, in canvas order.
Seed ==
  /\ phase = "seed"
  /\ turn <= N
  /\ queue' = IF degree[turn] = 0 THEN Append(queue, turn) ELSE queue
  /\ turn' = turn + 1
  /\ UNCHANGED <<wires, degree, sorted, todo, phase, kahn>>

StartSort ==
  /\ phase = "seed"
  /\ turn > N
  /\ phase' = "sort"
  /\ UNCHANGED <<wires, degree, queue, sorted, todo, turn, kahn>>

\* Mutant: a node connected twice to the same one is counted down once.
M_Take ==
  /\ phase = "sort"
  /\ todo = {}
  /\ queue # <<>>
  /\ queue' = Tail(queue)
  /\ sorted' = Append(sorted, Head(queue))
  /\ kahn' = kahn + 1
  /\ todo' = {e \in Edges : SourceOf(e) = Head(queue) /\ \A first \in 1..(e - 1) : wires[first] # wires[e]}
  /\ UNCHANGED <<wires, degree, phase, turn>>

\* The next of the queue goes to the list.
Take ==
  /\ phase = "sort"
  /\ todo = {}
  /\ queue # <<>>
  /\ queue' = Tail(queue)
  /\ sorted' = Append(sorted, Head(queue))
  /\ kahn' = kahn + 1
  /\ todo' = {e \in Edges : SourceOf(e) = Head(queue)}
  /\ UNCHANGED <<wires, degree, phase, turn>>

\* Mutant: a neighbour is queued each time it is counted down.
M_CountDown(e) ==
  /\ phase = "sort"
  /\ \A later \in todo : e <= later
  /\ todo' = todo \ {e}
  /\ degree' = [degree EXCEPT ![TargetOf(e)] = @ - 1]
  /\ queue' = Append(queue, TargetOf(e))
  /\ UNCHANGED <<wires, sorted, phase, turn, kahn>>

\* One neighbour of it: when nothing holds it back any more, it is queued.
CountDown(e) ==
  /\ phase = "sort"
  /\ \A later \in todo : e <= later
  /\ todo' = todo \ {e}
  /\ degree' = [degree EXCEPT ![TargetOf(e)] = @ - 1]
  /\ queue' = IF degree[TargetOf(e)] - 1 = 0 THEN Append(queue, TargetOf(e)) ELSE queue
  /\ UNCHANGED <<wires, sorted, phase, turn, kahn>>

\* The queue is empty: what is not in the list is appended.
StartRest ==
  /\ phase = "sort"
  /\ todo = {}
  /\ queue = <<>>
  /\ phase' = "rest"
  /\ turn' = 1
  /\ UNCHANGED <<wires, degree, queue, sorted, todo, kahn>>

Rest ==
  /\ phase = "rest"
  /\ turn <= N
  /\ sorted' = IF turn \in Members(sorted) THEN sorted ELSE Append(sorted, turn)
  /\ turn' = turn + 1
  /\ UNCHANGED <<wires, degree, queue, todo, phase, kahn>>

Finish ==
  /\ phase = "rest"
  /\ turn > N
  /\ phase' = "done"
  /\ UNCHANGED <<wires, degree, queue, sorted, todo, turn, kahn>>

OrderNext ==
  \/ Seed
  \/ StartSort
  \/ Take
  \/ \E e \in todo : CountDown(e)
  \/ StartRest
  \/ Rest
  \/ Finish

OrderSpec == OrderInit /\ [][OrderNext]_orderVars
-----------------------------------------------------------------------------
(* Properties. *)

OrderTypeOK ==
  /\ wires \in Seq((Node \cup Strays) \X (Node \cup Strays))
  /\ degree \in [Node -> Nat]
  /\ queue \in Seq(Node)
  /\ sorted \in Seq(Node)
  /\ todo \subseteq Edges
  /\ phase \in {"seed", "sort", "rest", "done"}
  /\ turn \in 1..(N + 1)
  /\ kahn \in 0..Len(sorted)

\* The nodes taken from the queue.
Taken == {sorted[i] : i \in 1..kahn}

\* Each node that was taken from the queue stands after every node with a
\* connection to it, and a node that never was is held back by another such node,
\* so that a cycle leads to it: on a canvas without cycles the tasks of a node run
\* after those of every node before it.
TasksFollowEdges ==
  /\ \A j \in 1..kahn : \A e \in Edges :
       TargetOf(e) = sorted[j] => \E i \in 1..(j - 1) : sorted[i] = SourceOf(e)
  /\ phase \in {"rest", "done"} =>
       \A v \in Node \ Taken : \E e \in Edges : TargetOf(e) = v /\ SourceOf(e) \notin Taken

\* No node's tasks are written twice, and in the end none is left out, whatever
\* cycles, repeated connections or connections to nowhere the canvas has.
EveryNodeOnce ==
  /\ \A i, j \in 1..Len(sorted) : sorted[i] = sorted[j] => i = j
  /\ phase = "done" => Node \subseteq Members(sorted)
=============================================================================
