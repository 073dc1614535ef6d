------------------------------ MODULE MCServer ------------------------------
(* TLC instance of the API's modules about accounts, teams, agents and      *)
(* limits, one at a time: each behaviour is one of the component that part  *)
(* names.  The variables of the others rest in one of their initial states  *)
(* meanwhile.  Team is there twice: one accept with all that may come in    *)
(* between, and, as Seats, two accepts, named like the callers of SignIn,   *)
(* that compete for the seats of a free team while no invite lapses.        *)
(* Addresses are named like the users that start with them: Team treats     *)
(* addresses alike, so one assignment stands for all.                       *)
EXTENDS Team, SignIn, RateLimiter, Agents, Billing, TLC

CONSTANTS SeatUsers, SeatVeterans  \* of Team, for the seats

ASSUME SeatsAssumption ==
  Owner \in SeatUsers /\ SeatVeterans \subseteq SeatUsers \ {Owner} /\ IsFiniteSet(SeatUsers)

\* part, and the variables of Seats, which are 0 while it does not run.
VARIABLES part, s1, s2, s3, s4, s5, s6, s7, s8, s9, s10

slots      == <<s1, s2, s3, s4, s5, s6, s7, s8, s9, s10>>
ownVars    == <<vars, signInVars, limiterVars, agentsVars, billingVars>>
serverVars == <<part, ownVars, slots>>

Seats == INSTANCE Team WITH Users <- SeatUsers, Veterans <- SeatVeterans,
           Addresses <- SeatUsers, Requests <- Callers, Movers <- {}, Assignable <- {"MEMBER"}, Misread <- {},
           email <- s1, verified <- s2, role <- s3, plan <- s4, invite <- s5,
           late <- s6, call <- s7, held <- s8, proven <- s9, allowance <- s10

Parts == {"team", "account", "limiter", "agents", "billing", "seats"}

-----------------------------------------------------------------------------
\* The state a component rests in: one of its initial states.
Resting(component, state) == part # component => state

ServerInit ==
  /\ part \in Parts
  /\ email = [u \in Users |-> u] /\ Init
  /\ Resting("account", password = TRUE /\ linked = {}) /\ SignInInit
  /\ LimiterInit
  /\ AgentsInit
  /\ Resting("billing", claim = [s \in Subscriptions |-> None]) /\ BillingInit
  /\ IF part = "seats" THEN s1 = [u \in SeatUsers |-> u] /\ Seats!Init
     ELSE s1 = 0 /\ s2 = 0 /\ s3 = 0 /\ s4 = 0 /\ s5 = 0
            /\ s6 = 0 /\ s7 = 0 /\ s8 = 0 /\ s9 = 0 /\ s10 = 0

TeamPart    == part = "team" /\ Next
                 /\ UNCHANGED <<part, signInVars, limiterVars, agentsVars, billingVars, slots>>
AccountPart == part = "account" /\ SignInNext
                 /\ UNCHANGED <<part, vars, limiterVars, agentsVars, billingVars, slots>>
LimiterPart == part = "limiter" /\ LimiterNext
                 /\ UNCHANGED <<part, vars, signInVars, agentsVars, billingVars, slots>>
AgentsPart  == part = "agents" /\ AgentsNext
                 /\ UNCHANGED <<part, vars, signInVars, limiterVars, billingVars, slots>>
BillingPart == part = "billing" /\ BillingNext
                 /\ UNCHANGED <<part, vars, signInVars, limiterVars, agentsVars, slots>>
SeatsPart   == part = "seats" /\ Seats!Next /\ UNCHANGED <<part, ownVars, s6>>

ServerNext ==
  \/ TeamPart \/ AccountPart \/ LimiterPart
  \/ AgentsPart \/ BillingPart \/ SeatsPart

ServerSpec == ServerInit /\ [][ServerNext]_serverVars

Symmetry == Permutations(SeatUsers \ ({Owner} \cup SeatVeterans)) \cup Permutations(Paired)
              \cup Permutations(BilledTeams) \cup Permutations(Invites) \cup Permutations(Callers)
-----------------------------------------------------------------------------
\* Team: parallel accepts pass the limit by less than their number.
OverrunIsSmall == part = "seats" => Seats!OverrunIsBounded
=============================================================================
