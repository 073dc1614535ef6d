--------------------------- MODULE OrderConstants ---------------------------
(****************************************************************************)
(* The constants of PlaybookOrder.                                          *)
(****************************************************************************)
EXTENDS Naturals

CONSTANTS
  N,        \* the number of nodes on the canvas
  Strays,   \* ids that connections may name though no node has them
  MaxWires  \* bound: connections

ASSUME OrderAssumption ==
  /\ N \in Nat
  /\ Strays \cap (1..N) = {}
  /\ MaxWires \in Nat
=============================================================================
