-------------------------- MODULE LimiterConstants --------------------------
(* The parameters of RateLimiter.                                           *)
EXTENDS Integers

CONSTANTS
  Keys,      \* client addresses or user ids
  Rate,      \* tokens added per window
  Window,    \* its length
  Capacity,  \* what a bucket holds
  Interval,  \* ticks between two sweeps of the janitor
  MaxTime    \* bound: ticks

ASSUME LimiterAssumption ==
  /\ Rate \in Nat /\ Window \in Nat \ {0} /\ Capacity \in Nat \ {0}
  /\ Interval \in Nat \ {0} /\ MaxTime \in Nat
=============================================================================
