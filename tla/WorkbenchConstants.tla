------------------------- MODULE WorkbenchConstants -------------------------
(****************************************************************************)
(* The constants of Workbench.                                              *)
(****************************************************************************)
EXTENDS Naturals

CONSTANTS
  Ids,      \* node ids
  Nothing,  \* no node, no edge, no status
  MaxRuns,  \* bound: clicks on Deploy, Plan or Destroy
  MaxVisits \* bound: times the page is opened

ASSUME WorkbenchAssumption ==
  /\ Nothing \notin Ids \cup (Ids \X Ids)
  /\ MaxRuns \in Nat /\ MaxVisits \in Nat \ {0}
=============================================================================
