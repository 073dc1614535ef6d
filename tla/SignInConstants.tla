--------------------------- MODULE SignInConstants ---------------------------
(* The parameters of SignIn.                                                *)
EXTENDS Naturals, FiniteSets

CONSTANTS
  Providers,  \* google and github in the code
  Resets,     \* ids of reset links; an id is used once
  Callers     \* requests under way at a time

ASSUME SignInAssumption == Resets \subseteq Nat /\ IsFiniteSet(Resets) /\ IsFiniteSet(Callers)
=============================================================================
