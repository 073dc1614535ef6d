---------------------------- MODULE TeamConstants ----------------------------
(* The parameters of Team.                                                  *)
EXTENDS Naturals, FiniteSets

CONSTANTS
  Users,          \* accounts
  Owner,          \* the one that owns the team
  Veterans,       \* the other members at the start
  Addresses,      \* email addresses
  Invites,        \* ids of invites; an id is used once
  Requests,       \* accepts under way at a time
  Movers,         \* bound: the accounts that may change their address
  Assignable,     \* the roles an invite may give: ADMIN and MEMBER in the code
  FreeMaxMembers, \* freeMaxMembers, 3 in the code
  Misread         \* what a count may read besides the number: nothing, or 0 if
                  \* its query may fail

ASSUME TeamAssumption ==
  /\ Owner \in Users /\ Veterans \subseteq Users \ {Owner} /\ Movers \subseteq Users
  /\ IsFiniteSet(Users) /\ IsFiniteSet(Requests)
  /\ "MEMBER" \in Assignable /\ {"OWNER", "none"} \cap Assignable = {}
  /\ FreeMaxMembers \in Nat
  /\ Misread \subseteq {0}
=============================================================================
