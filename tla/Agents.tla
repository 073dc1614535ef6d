------------------------------- MODULE Agents -------------------------------
(****************************************************************************)
(* The sandbox agents of one project and the gate that deploy and destroy   *)
(* put before a run (src/apps/api/pairing.go, handleDeploy and              *)
(* handleDestroy of main.go).                                               *)
(*                                                                          *)
(* The gate asks for the status of the latest agent; a later query looks    *)
(* for an active one.  Revoking is two statements and a call to the         *)
(* gateway.  The gateway and the agents, which this repository only talks   *)
(* to, hold the tunnels and report them in calls that may overtake each     *)
(* other.  SANDBOX_AGENT_BETA is on.                                        *)
(****************************************************************************)
EXTENDS Naturals, FiniteSets

CONSTANTS
  Paired,    \* agent ids
  Deploys,   \* deploys and destroys under way at a time
  MaxStamp,  \* bound: registered_at, in whole seconds
  MaxReports \* bound: callbacks on their way at a time

ASSUME AgentsAssumption == MaxStamp \in Nat

VARIABLES
  status,   \* paired_agents.status, "none" for an agent without a row
  stamp,    \* paired_agents.registered_at
  clock,    \* the second it is
  token,    \* agent_pairing_tokens: "none", "live" or "revoked"
  revoking, \* per agent: how far a revoke has come
  tunnels,  \* external: the agents that have a tunnel
  reports,  \* external: status callbacks on their way
  deploy,   \* per caller: the request under way and how it ended
  steady    \* history: per caller, no status has changed since it passed the gate

agentsVars == <<status, stamp, clock, token, revoking, tunnels, reports, deploy, steady>>

NoDeploy == [at |-> "idle", seen |-> "none", agent |-> {}]

Registered == {a \in Paired : status[a] # "none"}

\* ORDER BY registered_at DESC LIMIT 1: any of those registered in the same second.
Latest(S) == {a \in S : \A b \in S : stamp[b] <= stamp[a]}

AgentsInit ==
  /\ status = [a \in Paired |-> "none"]
  /\ stamp = [a \in Paired |-> 0]
  /\ clock = 0
  /\ token = [a \in Paired |-> "none"]
  /\ revoking = [a \in Paired |-> "no"]
  /\ tunnels = {} /\ reports = {}
  /\ deploy = [d \in Deploys |-> NoDeploy]
  /\ steady = [d \in Deploys |-> TRUE]

\* What every change of a status does to the callers between their two queries.
Changed == steady' = [d \in Deploys |-> steady[d] /\ deploy[d].at # "gated"]

-----------------------------------------------------------------------------
(* Pairing: the agent, the gateway and the routes they call.                *)

NextSecond ==
  /\ clock < MaxStamp
  /\ clock' = clock + 1
  /\ UNCHANGED <<status, stamp, token, revoking, tunnels, reports, deploy, steady>>

\* handleRegisterAgent
Register(a) ==
  /\ status[a] = "none"
  /\ status' = [status EXCEPT ![a] = "PENDING"]
  /\ stamp' = [stamp EXCEPT ![a] = clock]
  /\ Changed
  /\ UNCHANGED <<clock, token, revoking, tunnels, reports, deploy>>

\* handlePairAgent has the gateway issue a token, and handleRegisterAgentToken stores it.
Pair(a) ==
  /\ status[a] # "none"
  /\ token' = [token EXCEPT ![a] = "live"]
  /\ UNCHANGED <<status, stamp, clock, revoking, tunnels, reports, deploy, steady>>

\* The agent connects with a token the gateway finds good (handleValidateAgentToken),
\* and the gateway reports it.
Connect(a) ==
  /\ token[a] = "live" /\ a \notin tunnels /\ Cardinality(reports) < MaxReports
  /\ tunnels' = tunnels \cup {a}
  /\ reports' = reports \cup {<<a, "ACTIVE">>}
  /\ UNCHANGED <<status, stamp, clock, token, revoking, deploy, steady>>

\* The tunnel dies.
Drop(a) ==
  /\ a \in tunnels /\ Cardinality(reports) < MaxReports
  /\ tunnels' = tunnels \ {a}
  /\ reports' = reports \cup {<<a, "DISCONNECTED">>}
  /\ UNCHANGED <<status, stamp, clock, token, revoking, deploy, steady>>

\* handleAgentStatusCallback: what it says is written over what there is.
Report(r) ==
  /\ r \in reports
  /\ reports' = reports \ {r}
  /\ status' = [status EXCEPT ![r[1]] = r[2]]
  /\ Changed
  /\ UNCHANGED <<stamp, clock, token, revoking, tunnels, deploy>>

\* A callback is lost: the gateway does not repeat it.
Lose(r) ==
  /\ r \in reports
  /\ reports' = reports \ {r}
  /\ UNCHANGED <<status, stamp, clock, token, revoking, tunnels, deploy, steady>>

\* handleRevokeAgent: its row, its tokens, and its tunnel if the gateway answers.
Revoke(a) ==
  /\ status[a] # "none" /\ revoking[a] = "no"
  /\ status' = [status EXCEPT ![a] = "REVOKED"]
  /\ revoking' = [revoking EXCEPT ![a] = "row"]
  /\ Changed
  /\ UNCHANGED <<stamp, clock, token, tunnels, reports, deploy>>

RevokeTokens(a) ==
  /\ revoking[a] = "row"
  /\ token' = [token EXCEPT ![a] = IF @ = "live" THEN "revoked" ELSE @]
  /\ revoking' = [revoking EXCEPT ![a] = "tokens"]
  /\ UNCHANGED <<status, stamp, clock, tunnels, reports, deploy, steady>>

Disconnect(a) ==
  /\ revoking[a] = "tokens"
  /\ revoking' = [revoking EXCEPT ![a] = "no"]
  /\ \/ tunnels' = tunnels \ {a}
     \/ UNCHANGED tunnels
  /\ UNCHANGED <<status, stamp, clock, token, reports, deploy, steady>>

-----------------------------------------------------------------------------
(* handleDeploy and handleDestroy.                                          *)

\* Mutant: an agent whose tunnel has died is let through.
M_NotConnected(s) == s = "PENDING"

NotConnected(s) == s \in {"PENDING", "DISCONNECTED"}

\* latestPairedAgentStatus: the request is refused or passes the gate.
Gate(d) ==
  /\ deploy[d] = NoDeploy
  /\ \E s \in IF Registered = {} THEN {"none"} ELSE {status[a] : a \in Latest(Registered)} :
       deploy' = [deploy EXCEPT ![d] = [at |-> IF NotConnected(s) THEN "refused" ELSE "gated",
                                    seen |-> s, agent |-> {}]]
  /\ steady' = [steady EXCEPT ![d] = TRUE]
  /\ UNCHANGED <<status, stamp, clock, token, revoking, tunnels, reports>>

Active == {a \in Paired : status[a] = "ACTIVE"}

\* resolvePairedAgent: the run gets an agent, or goes the way without one.
Resolve(d) ==
  /\ deploy[d].at = "gated"
  /\ \E S \in IF Active = {} THEN {{}} ELSE {{a} : a \in Latest(Active)} :
       deploy' = [deploy EXCEPT ![d] = [@ EXCEPT !.at = IF S = {} THEN "hosted" ELSE "local", !.agent = S]]
  /\ UNCHANGED <<status, stamp, clock, token, revoking, tunnels, reports, steady>>

\* A query or the decryption of the key fails: the request goes on as if there were
\* no agent.
Unread(d) ==
  /\ \/ deploy[d] = NoDeploy /\ deploy' = [deploy EXCEPT ![d] = [NoDeploy EXCEPT !.at = "gated", !.seen = "unread"]]
     \/ deploy[d].at = "gated" /\ deploy' = [deploy EXCEPT ![d] = [@ EXCEPT !.at = "hosted", !.seen = "unread"]]
  /\ UNCHANGED <<status, stamp, clock, token, revoking, tunnels, reports, steady>>

\* The run is on its way, or the free plan has no sandbox without an agent.
Done(d) ==
  /\ deploy[d].at \in {"refused", "hosted", "local"}
  /\ deploy' = [deploy EXCEPT ![d] = NoDeploy]
  /\ steady' = [steady EXCEPT ![d] = TRUE]
  /\ UNCHANGED <<status, stamp, clock, token, revoking, tunnels, reports>>

AgentsNext ==
  \/ NextSecond
  \/ \E a \in Paired : \/ Register(a) \/ Pair(a) \/ Connect(a) \/ Drop(a)
                       \/ Revoke(a) \/ RevokeTokens(a) \/ Disconnect(a)
  \/ \E r \in reports : Report(r) \/ Lose(r)
  \/ \E d \in Deploys : Gate(d) \/ Resolve(d) \/ Unread(d) \/ Done(d)

AgentsSpec == AgentsInit /\ [][AgentsNext]_agentsVars
-----------------------------------------------------------------------------
(* Properties.                                                              *)

Statuses == {"PENDING", "ACTIVE", "DISCONNECTED", "REVOKED"}

AgentsTypeOK ==
  /\ status \in [Paired -> Statuses \cup {"none"}]
  /\ stamp \in [Paired -> 0..MaxStamp] /\ clock \in 0..MaxStamp
  /\ token \in [Paired -> {"none", "live", "revoked"}]
  /\ revoking \in [Paired -> {"no", "row", "tokens"}]
  /\ tunnels \subseteq Paired /\ reports \subseteq Paired \X {"ACTIVE", "DISCONNECTED"}
  /\ deploy \in [Deploys -> [at : {"idle", "refused", "gated", "hosted", "local"},
                           seen : Statuses \cup {"none", "unread"}, agent : SUBSET Paired]]
  /\ steady \in [Deploys -> BOOLEAN]

\* An agent that is to be used is never passed over in silence: a run goes without
\* one only if none was ever registered, the latest is revoked, a query failed, or a
\* status changed while the request was between its two queries.
NoSilentFallThrough ==
  \A d \in Deploys :
    deploy[d].at = "hosted" /\ deploy[d].seen # "unread" /\ steady[d] =>
      deploy[d].seen \in {"none", "REVOKED"} /\ deploy[d].agent = {}

\* "A REVOKED latest agent [...] correctly falls back to normal sandbox/live behavior
\* exactly like never paired": without a change in between, a deploy that found the
\* latest agent revoked uses no agent.
RevokedFallsBack ==
  \A d \in Deploys : deploy[d].at = "local" /\ steady[d] => deploy[d].seen # "REVOKED"
=============================================================================
