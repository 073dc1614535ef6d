---------------------------- MODULE Server_proofs ----------------------------
(****************************************************************************)
(* Proofs about the modules of the API that stand beside the runs: the      *)
(* agent gate (Agents), billing (Billing), the seats of a team (Seats, of   *)
(* MCServer), and what an account's routes let through (SignIn and          *)
(* RateLimiter).                                                            *)
(*                                                                          *)
(* The gate: as long as no status changes between a request's two queries,  *)
(* what it has seen of an agent is the status of one (GateIsTrue), so one   *)
(* that is passed over was not there.                                       *)
(*                                                                          *)
(* Billing: a delivery that has its team found it free or with its own      *)
(* subscription, and while no two deliveries overlapped no other            *)
(* subscription is on its way there (BoundIsFree).                          *)
(*                                                                          *)
(* The seats: they are one more team, so what Team_proofs shows of every    *)
(* team is cited for it (Proved).                                           *)
(*                                                                          *)
(* The ways in: whoever is about to delete an identity counted two, and     *)
(* another is left for as long as nobody deletes a different one.           *)
(*                                                                          *)
(* The links: an insert moves one from the callers that are about to insert *)
(* to the links in use, and taking back empties the latter; so the two      *)
(* together never exceed the most callers there were.                       *)
(*                                                                          *)
(* A stored bucket has lost the token of the request that made or refilled  *)
(* it, so it is never full, and the janitor finds nothing to delete.        *)
(*                                                                          *)
(* The bound on bursts follows the last refill of a key. As long as it is   *)
(* not after the moment the observer began to count, what was granted and   *)
(* what is left make at most one bucket; a key that was granted something   *)
(* had its last refill less than a window before that moment, so the next   *)
(* refill is of one window, and the one after comes too late.               *)
(****************************************************************************)
EXTENDS MCServer, FiniteSetTheorems, TLAPS

(* Agents. *)

CallTypes == [at : {"idle", "refused", "gated", "hosted", "local"},
              seen : Statuses \cup {"none", "unread"}, agent : SUBSET Paired]

\* A request that is past the gate, over agents whose status has stayed what it was,
\* has seen the status of one of them, or there was none.
GateIsTrue ==
  \A d \in Deploys :
    /\ deploy[d].at = "gated" /\ deploy[d].seen # "unread" /\ steady[d] =>
         /\ ~NotConnected(deploy[d].seen)
         /\ deploy[d].agent = {}
         /\ \/ deploy[d].seen = "none"
            \/ \E a \in Paired : deploy[d].seen = status[a]
    /\ deploy[d].at = "hosted" /\ deploy[d].seen # "unread" /\ steady[d] =>
         deploy[d].seen \in {"none", "REVOKED"} /\ deploy[d].agent = {}

LEMMA AgentsTypeInit == AgentsInit => AgentsTypeOK
<1> SUFFICES ASSUME AgentsInit PROVE AgentsTypeOK
  OBVIOUS
<1>1. NoDeploy \in CallTypes
  BY DEF NoDeploy, CallTypes
<1>2. 0 \in 0..MaxStamp
  BY AgentsAssumption
<1> QED
  BY <1>1, <1>2 DEF AgentsInit, AgentsTypeOK, CallTypes

LEMMA AgentsTypeNext == AgentsTypeOK /\ [AgentsNext]_agentsVars => AgentsTypeOK'
<1> SUFFICES ASSUME AgentsTypeOK, [AgentsNext]_agentsVars PROVE AgentsTypeOK'
  OBVIOUS
<1> USE DEF AgentsTypeOK
<1>1. CASE NextSecond
  BY <1>1, AgentsAssumption DEF NextSecond
<1>2. ASSUME NEW a \in Paired, Register(a) PROVE AgentsTypeOK'
  BY <1>2 DEF Register, Changed, Statuses
<1>3. ASSUME NEW a \in Paired, Pair(a) PROVE AgentsTypeOK'
  BY <1>3 DEF Pair
<1>4. ASSUME NEW a \in Paired, Connect(a) PROVE AgentsTypeOK'
  BY <1>4 DEF Connect
<1>5. ASSUME NEW a \in Paired, Drop(a) PROVE AgentsTypeOK'
  BY <1>5 DEF Drop
<1>6. ASSUME NEW a \in Paired, Revoke(a) PROVE AgentsTypeOK'
  BY <1>6 DEF Revoke, Changed, Statuses
<1>7. ASSUME NEW a \in Paired, RevokeTokens(a) PROVE AgentsTypeOK'
  BY <1>7 DEF RevokeTokens
<1>8. ASSUME NEW a \in Paired, Disconnect(a) PROVE AgentsTypeOK'
  BY <1>8 DEF Disconnect
<1>9. ASSUME NEW r \in reports, Report(r) PROVE AgentsTypeOK'
  BY <1>9 DEF Report, Changed, Statuses
<1>10. ASSUME NEW r \in reports, Lose(r) PROVE AgentsTypeOK'
  BY <1>10 DEF Lose
<1>11. ASSUME NEW d \in Deploys, Gate(d) PROVE AgentsTypeOK'
  <2>1. PICK s \in IF Registered = {} THEN {"none"} ELSE {status[a] : a \in Latest(Registered)} :
          deploy' = [deploy EXCEPT ![d] = [at |-> IF NotConnected(s) THEN "refused" ELSE "gated",
                                           seen |-> s, agent |-> {}]]
    BY <1>11 DEF Gate
  <2>2. s \in Statuses \cup {"none", "unread"}
    BY DEF Latest, Registered
  <2>3. [at |-> IF NotConnected(s) THEN "refused" ELSE "gated", seen |-> s, agent |-> {}] \in CallTypes
    BY <2>2 DEF CallTypes
  <2>4. deploy' \in [Deploys -> CallTypes]
    BY <2>1, <2>3 DEF CallTypes
  <2> QED
    BY <1>11, <2>4 DEF Gate, CallTypes
<1>12. ASSUME NEW d \in Deploys, Resolve(d) PROVE AgentsTypeOK'
  <2>1. PICK S \in IF Active = {} THEN {{}} ELSE {{a} : a \in Latest(Active)} :
          deploy' = [deploy EXCEPT ![d] = [@ EXCEPT !.at = IF S = {} THEN "hosted" ELSE "local", !.agent = S]]
    BY <1>12 DEF Resolve
  <2>2. S \in SUBSET Paired
    BY DEF Latest, Active
  <2>3. [deploy[d] EXCEPT !.at = IF S = {} THEN "hosted" ELSE "local", !.agent = S] \in CallTypes
    BY <2>2 DEF CallTypes
  <2>4. deploy' \in [Deploys -> CallTypes]
    BY <2>1, <2>3 DEF CallTypes
  <2> QED
    BY <1>12, <2>4 DEF Resolve, CallTypes
<1>13. ASSUME NEW d \in Deploys, Unread(d) PROVE AgentsTypeOK'
  <2>1. deploy[d] \in CallTypes /\ [NoDeploy EXCEPT !.at = "gated", !.seen = "unread"] \in CallTypes
    BY DEF CallTypes, NoDeploy
  <2>2. [deploy[d] EXCEPT !.at = "hosted", !.seen = "unread"] \in CallTypes
    BY <2>1 DEF CallTypes
  <2>3. deploy' \in [Deploys -> CallTypes]
    BY <1>13, <2>1, <2>2 DEF Unread, CallTypes
  <2> QED
    BY <1>13, <2>3 DEF Unread, CallTypes
<1>14. ASSUME NEW d \in Deploys, Done(d) PROVE AgentsTypeOK'
  BY <1>14 DEF Done, NoDeploy
<1>15. CASE UNCHANGED agentsVars
  BY <1>15 DEF agentsVars
<1> QED
  BY <1>1, <1>2, <1>3, <1>4, <1>5, <1>6, <1>7, <1>8, <1>9, <1>10, <1>11, <1>12, <1>13, <1>14, <1>15
     DEF AgentsNext

\* Type correctness of agents, callbacks and the requests at the gate.
THEOREM AgentsTyped == AgentsSpec => []AgentsTypeOK
  BY AgentsTypeInit, AgentsTypeNext, PTL DEF AgentsSpec

LEMMA GateInit == AgentsInit => GateIsTrue
  BY DEF AgentsInit, GateIsTrue, NoDeploy

LEMMA GateNext == AgentsTypeOK /\ GateIsTrue /\ [AgentsNext]_agentsVars => GateIsTrue'
<1> SUFFICES ASSUME AgentsTypeOK, GateIsTrue, [AgentsNext]_agentsVars PROVE GateIsTrue'
  OBVIOUS
<1>a. ASSUME UNCHANGED <<status, deploy, steady>> PROVE GateIsTrue'
  BY <1>a DEF GateIsTrue
<1>b. ASSUME Changed, UNCHANGED deploy PROVE GateIsTrue'
  BY <1>b DEF GateIsTrue, Changed, AgentsTypeOK
<1>1. CASE NextSecond
  BY <1>1, <1>a DEF NextSecond
<1>2. ASSUME NEW a \in Paired, Register(a) PROVE GateIsTrue'
  BY <1>2, <1>b DEF Register
<1>3. ASSUME NEW a \in Paired, Pair(a) PROVE GateIsTrue'
  BY <1>3, <1>a DEF Pair
<1>4. ASSUME NEW a \in Paired, Connect(a) PROVE GateIsTrue'
  BY <1>4, <1>a DEF Connect
<1>5. ASSUME NEW a \in Paired, Drop(a) PROVE GateIsTrue'
  BY <1>5, <1>a DEF Drop
<1>6. ASSUME NEW a \in Paired, Revoke(a) PROVE GateIsTrue'
  BY <1>6, <1>b DEF Revoke
<1>7. ASSUME NEW a \in Paired, RevokeTokens(a) PROVE GateIsTrue'
  BY <1>7, <1>a DEF RevokeTokens
<1>8. ASSUME NEW a \in Paired, Disconnect(a) PROVE GateIsTrue'
  BY <1>8, <1>a DEF Disconnect
<1>9. ASSUME NEW r \in reports, Report(r) PROVE GateIsTrue'
  BY <1>9, <1>b DEF Report
<1>10. ASSUME NEW r \in reports, Lose(r) PROVE GateIsTrue'
  BY <1>10, <1>a DEF Lose
<1>11. ASSUME NEW d \in Deploys, Gate(d) PROVE GateIsTrue'
  <2>1. PICK s \in IF Registered = {} THEN {"none"} ELSE {status[a] : a \in Latest(Registered)} :
          deploy' = [deploy EXCEPT ![d] = [at |-> IF NotConnected(s) THEN "refused" ELSE "gated",
                                           seen |-> s, agent |-> {}]]
    BY <1>11 DEF Gate
  <2>2. s = "none" \/ \E a \in Paired : s = status[a]
    BY DEF Latest, Registered
  <2>3. UNCHANGED status /\ steady' = [steady EXCEPT ![d] = TRUE]
    BY <1>11 DEF Gate
  <2>4. ASSUME NEW e \in Deploys, e # d PROVE deploy'[e] = deploy[e] /\ steady'[e] = steady[e]
    BY <2>1, <2>3, <2>4 DEF AgentsTypeOK
  <2>5. deploy'[d] = [at |-> IF NotConnected(s) THEN "refused" ELSE "gated", seen |-> s, agent |-> {}]
    BY <2>1 DEF AgentsTypeOK
  <2> QED
    BY <2>2, <2>3, <2>4, <2>5 DEF GateIsTrue
<1>12. ASSUME NEW d \in Deploys, Resolve(d) PROVE GateIsTrue'
  <2>1. PICK S \in IF Active = {} THEN {{}} ELSE {{a} : a \in Latest(Active)} :
          deploy' = [deploy EXCEPT ![d] = [@ EXCEPT !.at = IF S = {} THEN "hosted" ELSE "local", !.agent = S]]
    BY <1>12 DEF Resolve
  <2>2. S = {} => \A a \in Paired : status[a] # "ACTIVE"
    BY DEF Active
  <2>3. UNCHANGED <<status, steady>> /\ deploy[d].at = "gated"
    BY <1>12 DEF Resolve
  <2>4. ASSUME NEW e \in Deploys, e # d PROVE deploy'[e] = deploy[e]
    BY <2>1, <2>4 DEF AgentsTypeOK
  <2>5. /\ deploy'[d].at = IF S = {} THEN "hosted" ELSE "local"
        /\ deploy'[d].seen = deploy[d].seen /\ deploy'[d].agent = S
    BY <2>1 DEF AgentsTypeOK
  <2>6. deploy[d].seen # "unread" /\ steady[d] /\ S = {} => deploy[d].seen \in {"none", "REVOKED"}
    BY <2>2, <2>3 DEF GateIsTrue, AgentsTypeOK, Statuses, NotConnected
  <2> QED
    BY <2>3, <2>4, <2>5, <2>6 DEF GateIsTrue
<1>13. ASSUME NEW d \in Deploys, Unread(d) PROVE GateIsTrue'
  <2>1. UNCHANGED <<status, steady>> /\ deploy'[d].seen = "unread"
    BY <1>13 DEF Unread, NoDeploy, AgentsTypeOK
  <2>2. ASSUME NEW e \in Deploys, e # d PROVE deploy'[e] = deploy[e]
    BY <1>13, <2>2 DEF Unread, AgentsTypeOK
  <2> QED
    BY <2>1, <2>2 DEF GateIsTrue
<1>14. ASSUME NEW d \in Deploys, Done(d) PROVE GateIsTrue'
  <2>1. UNCHANGED status /\ deploy'[d] = NoDeploy
    BY <1>14 DEF Done, AgentsTypeOK
  <2>2. ASSUME NEW e \in Deploys, e # d PROVE deploy'[e] = deploy[e] /\ steady'[e] = steady[e]
    BY <1>14, <2>2 DEF Done, AgentsTypeOK
  <2> QED
    BY <2>1, <2>2 DEF GateIsTrue, NoDeploy
<1>15. CASE UNCHANGED agentsVars
  BY <1>15, <1>a DEF agentsVars
<1> QED
  BY <1>1, <1>2, <1>3, <1>4, <1>5, <1>6, <1>7, <1>8, <1>9, <1>10, <1>11, <1>12, <1>13, <1>14, <1>15
     DEF AgentsNext

\* For any agents and requests: none that should have been used or waited for is
\* passed over, unless a status changed between a request's two queries.
THEOREM AgentsAreHeeded == AgentsSpec => []NoSilentFallThrough
<1>1. GateIsTrue => NoSilentFallThrough
  BY DEF GateIsTrue, NoSilentFallThrough
<1> QED
  BY <1>1, GateInit, GateNext, AgentsTyped, PTL DEF AgentsSpec
-----------------------------------------------------------------------------
(* Billing. *)

Found    == [at : {"finding", "claiming", "applied"}, event : Events]
ToATeam  == [at : {"bound"}, event : Events, team : BilledTeams]

\* A delivery that has its team found it free, or with its own subscription; and as
\* long as none overlapped, no other subscription is on its way there.
BoundIsFree ==
  /\ \A t \in BilledTeams : team[t].live => team[t].subscription # None
  /\ ~overlapped => \A d \in Deliveries, t \in BilledTeams :
       Bound(d, t) =>
         /\ team[t].live => team[t].subscription = delivery[d].event.of
         /\ \A o \in Deliveries : Bound(o, t) => delivery[o].event.of = delivery[d].event.of

LEMMA DeliveryCases ==
  ASSUME BillingTypeOK, NEW d \in Deliveries
  PROVE  /\ delivery[d] # NoDelivery => delivery[d] \in Found \cup ToATeam
         /\ delivery[d].at = "bound" => delivery[d] \in ToATeam
         /\ delivery[d].at \in {"finding", "claiming", "applied"} => delivery[d] \in Found
  BY DEF BillingTypeOK, Found, ToATeam, NoDelivery

LEMMA BillingTypeInit == BillingInit => BillingTypeOK
<1> SUFFICES ASSUME BillingInit PROVE BillingTypeOK
  OBVIOUS
<1>1. [subscription |-> None, live |-> FALSE] \in [subscription : Subscriptions \cup {None}, live : BOOLEAN]
  OBVIOUS
<1>2. team \in [BilledTeams -> [subscription : Subscriptions \cup {None}, live : BOOLEAN]]
  BY <1>1 DEF BillingInit
<1>3. delivery \in [Deliveries -> {NoDelivery} \cup Found \cup ToATeam]
  BY DEF BillingInit
<1> QED
  BY <1>2, <1>3 DEF BillingInit, BillingTypeOK, Found, ToATeam

LEMMA BillingTypeNext == BillingTypeOK /\ [BillingNext]_billingVars => BillingTypeOK'
<1> SUFFICES ASSUME BillingTypeOK, [BillingNext]_billingVars PROVE BillingTypeOK'
  OBVIOUS
<1>a. ASSUME NEW d \in Deliveries, NEW r \in {NoDelivery} \cup Found \cup ToATeam,
             delivery' = [delivery EXCEPT ![d] = r]
      PROVE  delivery' \in [Deliveries -> {NoDelivery} \cup Found \cup ToATeam]
  BY <1>a DEF BillingTypeOK, Found, ToATeam
<1>b. ASSUME NEW d \in Deliveries, NEW t \in BilledTeams, delivery[d] \in Found, Bind(d, t)
      PROVE  BillingTypeOK'
  <2>1. [at |-> "bound", event |-> delivery[d].event, team |-> t] \in ToATeam
    BY <1>b DEF Found, ToATeam
  <2>2. delivery' = [delivery EXCEPT ![d] = [at |-> "bound", event |-> delivery[d].event, team |-> t]]
    BY <1>b DEF Bind
  <2>3. delivery' \in [Deliveries -> {NoDelivery} \cup Found \cup ToATeam]
    BY <1>a, <2>1, <2>2
  <2>4. overlapped' \in BOOLEAN
    BY <1>b DEF Bind, BillingTypeOK
  <2> QED
    BY <1>b, <2>3, <2>4 DEF Bind, BillingTypeOK, Found, ToATeam
<1>1. ASSUME NEW d \in Deliveries, NEW e \in Events, Deliver(d, e) PROVE BillingTypeOK'
  <2>1. [at |-> "finding", event |-> e] \in Found
    BY DEF Found
  <2> QED
    BY <1>1, <1>a, <2>1 DEF Deliver, BillingTypeOK, Found, ToATeam
<1>2. ASSUME NEW d \in Deliveries, FindBySubscription(d) PROVE BillingTypeOK'
  BY <1>2, <1>b, DeliveryCases DEF FindBySubscription
<1>3. ASSUME NEW d \in Deliveries, NotFound(d) PROVE BillingTypeOK'
  <2>1. delivery[d] \in Found
    BY <1>3, DeliveryCases DEF NotFound
  <2>2. [delivery[d] EXCEPT !.at = "claiming"] \in Found
    BY <2>1 DEF Found
  <2>3. delivery' = [delivery EXCEPT ![d] = [delivery[d] EXCEPT !.at = "claiming"]]
    BY <1>3 DEF NotFound, BillingTypeOK
  <2> QED
    BY <1>3, <1>a, <2>2, <2>3 DEF NotFound, BillingTypeOK, Found, ToATeam
<1>4. ASSUME NEW d \in Deliveries, FindByClaim(d) PROVE BillingTypeOK'
  <2>1. delivery[d] \in Found
    BY <1>4, DeliveryCases DEF FindByClaim
  <2>2. claim[delivery[d].event.of] \in BilledTeams
    BY <1>4, <2>1 DEF FindByClaim, Found, Events, BillingTypeOK
  <2> QED
    BY <1>4, <1>b, <2>1, <2>2 DEF FindByClaim
<1>5. ASSUME NEW d \in Deliveries, TurnDown(d) PROVE BillingTypeOK'
  BY <1>5, <1>a DEF TurnDown, BillingTypeOK, Found, ToATeam
<1>6. ASSUME NEW d \in Deliveries, Apply(d) PROVE BillingTypeOK'
  <2>1. delivery[d] \in ToATeam
    BY <1>6, DeliveryCases DEF Apply
  <2>2. [subscription |-> delivery[d].event.of, live |-> delivery[d].event.live]
          \in [subscription : Subscriptions \cup {None}, live : BOOLEAN]
    BY <2>1 DEF ToATeam, Events
  <2>3. team' \in [BilledTeams -> [subscription : Subscriptions \cup {None}, live : BOOLEAN]]
    BY <1>6, <2>2 DEF Apply, BillingTypeOK
  <2>4. [at |-> "applied", event |-> delivery[d].event] \in Found
    BY <2>1 DEF Found, ToATeam
  <2>5. delivery' = [delivery EXCEPT ![d] = [at |-> "applied", event |-> delivery[d].event]]
    BY <1>6 DEF Apply
  <2>6. delivery' \in [Deliveries -> {NoDelivery} \cup Found \cup ToATeam]
    BY <1>a, <2>4, <2>5
  <2> QED
    BY <1>6, <2>3, <2>6 DEF Apply, BillingTypeOK, Found, ToATeam
<1>7. ASSUME NEW d \in Deliveries, Record(d) PROVE BillingTypeOK'
  <2>1. delivery[d].event \in Events
    BY <1>7, DeliveryCases DEF Record, Found
  <2> QED
    BY <1>7, <1>a, <2>1 DEF Record, BillingTypeOK, Found, ToATeam
<1>8. ASSUME NEW d \in Deliveries, DeliveryFails(d) PROVE BillingTypeOK'
  BY <1>8, <1>a DEF DeliveryFails, BillingTypeOK, Found, ToATeam
<1>9. CASE UNCHANGED billingVars
  BY <1>9 DEF billingVars, BillingTypeOK
<1> QED
  BY <1>1, <1>2, <1>3, <1>4, <1>5, <1>6, <1>7, <1>8, <1>9 DEF BillingNext

\* Type correctness of the webhook's tables and the deliveries under way.
THEOREM BillingTyped == BillingSpec => []BillingTypeOK
  BY BillingTypeInit, BillingTypeNext, PTL DEF BillingSpec

LEMMA FreeInit == BillingInit => BoundIsFree
  BY DEF BillingInit, BoundIsFree, Bound, NoDelivery

\* Deliveries that are not bound do not matter.
LEMMA FreeKept ==
  ASSUME BillingTypeOK, BoundIsFree, NEW d \in Deliveries, NEW r, r.at # "bound",
         delivery' = [delivery EXCEPT ![d] = r], UNCHANGED <<team, overlapped>>
  PROVE  BoundIsFree'
<1>1. delivery'[d] = r /\ \A o \in Deliveries \ {d} : delivery'[o] = delivery[o]
  BY DEF BillingTypeOK
<1> QED
  BY <1>1 DEF BoundIsFree, Bound

LEMMA FreeBind ==
  ASSUME BillingTypeOK, BoundIsFree, NEW d \in Deliveries, NEW t \in BilledTeams,
         delivery[d] \in Found, team[t].live => team[t].subscription = delivery[d].event.of, Bind(d, t)
  PROVE  BoundIsFree'
<1>1. /\ delivery'[d] = [at |-> "bound", event |-> delivery[d].event, team |-> t]
      /\ \A o \in Deliveries \ {d} : delivery'[o] = delivery[o]
      /\ UNCHANGED team
  BY DEF BillingTypeOK, Bind
<1>2. ~overlapped' => ~overlapped /\ \A o \in Deliveries \ {d} :
        Bound(o, t) => delivery[o].event.of = delivery[d].event.of
  BY DEF Bind, BillingTypeOK
<1> QED
  BY <1>1, <1>2 DEF BoundIsFree, Bound

LEMMA FreeNext == BillingTypeOK /\ BoundIsFree /\ [BillingNext]_billingVars => BoundIsFree'
<1> SUFFICES ASSUME BillingTypeOK, BoundIsFree, [BillingNext]_billingVars PROVE BoundIsFree'
  OBVIOUS
<1>0. NoDelivery.at # "bound"
  BY DEF NoDelivery
<1>1. ASSUME NEW d \in Deliveries, NEW e \in Events, Deliver(d, e) PROVE BoundIsFree'
  BY <1>1, FreeKept DEF Deliver
<1>2. ASSUME NEW d \in Deliveries, FindBySubscription(d) PROVE BoundIsFree'
  BY <1>2, FreeBind, DeliveryCases DEF FindBySubscription
<1>3. ASSUME NEW d \in Deliveries, NotFound(d) PROVE BoundIsFree'
  <2>1. delivery[d] \in Found
    BY <1>3, DeliveryCases DEF NotFound
  <2>2. delivery' = [delivery EXCEPT ![d] = [delivery[d] EXCEPT !.at = "claiming"]]
    BY <1>3 DEF NotFound, BillingTypeOK
  <2>3. [delivery[d] EXCEPT !.at = "claiming"].at # "bound"
    BY <2>1 DEF Found
  <2> QED
    BY <1>3, <2>2, <2>3, FreeKept DEF NotFound
<1>4. ASSUME NEW d \in Deliveries, FindByClaim(d) PROVE BoundIsFree'
  <2>1. delivery[d] \in Found
    BY <1>4, DeliveryCases DEF FindByClaim
  <2>2. PICK t \in BilledTeams : MayBind(delivery[d].event.of, t) /\ Bind(d, t)
    BY <1>4, <2>1 DEF FindByClaim, Found, Events, BillingTypeOK
  <2>3. team[t].live => team[t].subscription = delivery[d].event.of
    BY <2>2 DEF MayBind, BoundIsFree, BillingTypeOK
  <2> QED
    BY <2>1, <2>2, <2>3, FreeBind
<1>5. ASSUME NEW d \in Deliveries, TurnDown(d) PROVE BoundIsFree'
  BY <1>0, <1>5, FreeKept DEF TurnDown
<1>6. ASSUME NEW d \in Deliveries, Apply(d) PROVE BoundIsFree'
  <2>1. delivery[d] \in ToATeam
    BY <1>6, DeliveryCases DEF Apply
  <2> DEFINE t == delivery[d].team
             s == delivery[d].event.of
  <2>2. t \in BilledTeams /\ s \in Subscriptions /\ Bound(d, t)
    BY <2>1 DEF ToATeam, Events, Bound
  <2>3. /\ team'[t].subscription = s
        /\ \A u \in BilledTeams \ {t} : team'[u] = team[u]
        /\ delivery'[d].at = "applied"
        /\ \A o \in Deliveries \ {d} : delivery'[o] = delivery[o]
        /\ UNCHANGED overlapped
    BY <1>6, <2>2 DEF Apply, BillingTypeOK
  <2> QED
    BY <2>2, <2>3, BillingAssumption DEF BoundIsFree, Bound
<1>7. ASSUME NEW d \in Deliveries, Record(d) PROVE BoundIsFree'
  BY <1>0, <1>7, FreeKept DEF Record
<1>8. ASSUME NEW d \in Deliveries, DeliveryFails(d) PROVE BoundIsFree'
  BY <1>0, <1>8, FreeKept DEF DeliveryFails
<1>9. CASE UNCHANGED billingVars
  BY <1>9 DEF billingVars, BoundIsFree, Bound
<1> QED
  BY <1>1, <1>2, <1>3, <1>4, <1>5, <1>6, <1>7, <1>8, <1>9 DEF BillingNext

LEMMA LiveStaysNext ==
  BillingTypeOK /\ BoundIsFree /\ [BillingNext]_billingVars => LiveStays \/ UNCHANGED billingVars
<1> SUFFICES ASSUME BillingTypeOK, BoundIsFree, [BillingNext]_billingVars PROVE LiveStays
  OBVIOUS
<1>1. ASSUME UNCHANGED team PROVE LiveStays
  BY <1>1 DEF LiveStays
<1>2. ASSUME NEW d \in Deliveries, Apply(d) PROVE LiveStays
  <2>1. delivery[d] \in ToATeam
    BY <1>2, DeliveryCases DEF Apply
  <2> DEFINE t == delivery[d].team
             s == delivery[d].event.of
  <2>2. t \in BilledTeams /\ Bound(d, t)
    BY <2>1 DEF ToATeam, Bound
  <2>3. team'[t].subscription = s /\ \A u \in BilledTeams \ {t} : team'[u] = team[u]
    BY <1>2, <2>2 DEF Apply, BillingTypeOK
  <2> QED
    BY <2>2, <2>3 DEF LiveStays, BoundIsFree
<1>3. ASSUME NEW d \in Deliveries, \/ \E e \in Events : Deliver(d, e)
                                   \/ FindBySubscription(d) \/ NotFound(d) \/ FindByClaim(d)
                                   \/ TurnDown(d) \/ Record(d) \/ DeliveryFails(d)
      PROVE UNCHANGED team
  BY <1>3 DEF Deliver, FindBySubscription, NotFound, FindByClaim, TurnDown, Record, DeliveryFails, Bind
<1> QED
  BY <1>1, <1>2, <1>3 DEF BillingNext, billingVars

\* For any teams, subscriptions and number of deliveries at a time: a live
\* subscription is replaced only if deliveries for different ones overlapped.
THEOREM LiveIsKept == BillingSpec => NeverRebound
  BY FreeInit, FreeNext, BillingTyped, LiveStaysNext, PTL DEF BillingSpec, NeverRebound
-----------------------------------------------------------------------------
(* The seats of a team. *)

\* What is proved about a team, for the team that Seats is.
Proved == INSTANCE Team_proofs WITH Users <- SeatUsers, Veterans <- SeatVeterans,
            Addresses <- SeatUsers, Requests <- Callers, Movers <- {}, Assignable <- {"MEMBER"}, Misread <- {},
            email <- s1, verified <- s2, role <- s3, plan <- s4, invite <- s5,
            late <- s6, call <- s7, held <- s8, proven <- s9, allowance <- s10

LEMMA SeatsAssumed == Proved!TeamAssumption
  BY TeamAssumption, SeatsAssumption, SignInAssumption
     DEF Proved!TeamAssumption, Proved!IsFiniteSet, IsFiniteSet

\* Seats and Proved are the same team: both substitute the same for the constants and
\* the variables of Team.
LEMMA SameInit == Seats!Init => Proved!Init
  BY DEF Seats!Init, Proved!Init, Seats!Unsent, Proved!Unsent, Seats!Idle, Proved!Idle,
     Seats!Cardinality, Proved!Cardinality

LEMMA SameNext == Seats!Next => Proved!Next
<1>1. Seats!InviteStep => Proved!InviteStep
  BY DEF Seats!InviteStep, Proved!InviteStep, Seats!DraftInvite, Proved!DraftInvite,
     Seats!InsertInvite, Proved!InsertInvite, Seats!RevokeInvite, Proved!RevokeInvite,
     Seats!Lapse, Proved!Lapse, Seats!SetStatus, Proved!SetStatus, Seats!Members,
     Proved!Members, Seats!Pending, Proved!Pending, Seats!Reserved, Proved!Reserved,
     Seats!Exists, Proved!Exists, Seats!Counts, Proved!Counts, Seats!Full, Proved!Full,
     Seats!Unsent, Proved!Unsent, Seats!Cardinality, Proved!Cardinality
<1>2. Seats!AcceptStep => Proved!AcceptStep
  BY DEF Seats!AcceptStep, Proved!AcceptStep, Seats!FindInvite, Proved!FindInvite,
     Seats!MatchAccount, Proved!MatchAccount, Seats!LookUpMember, Proved!LookUpMember,
     Seats!ExpireInvite, Proved!ExpireInvite, Seats!ReadPlan, Proved!ReadPlan,
     Seats!CountMembers, Proved!CountMembers, Seats!Join, Proved!Join, Seats!Fail,
     Proved!Fail, Seats!SetStatus, Proved!SetStatus, Seats!Members, Proved!Members,
     Seats!Exists, Proved!Exists, Seats!Counts, Proved!Counts, Seats!Full, Proved!Full,
     Seats!Idle, Proved!Idle, Seats!Proceed, Proved!Proceed, Seats!Answer, Proved!Answer,
     Seats!Cardinality, Proved!Cardinality
<1>3. Seats!RosterStep => Proved!RosterStep
  BY DEF Seats!RosterStep, Proved!RosterStep, Seats!ChangeRole, Proved!ChangeRole,
     Seats!RemoveMember, Proved!RemoveMember, Seats!ChangeEmail, Proved!ChangeEmail,
     Seats!Upgrade, Proved!Upgrade, Seats!Downgrade, Proved!Downgrade, Seats!Members,
     Proved!Members, Seats!Entering, Proved!Entering, Seats!Cardinality, Proved!Cardinality
<1> QED
  BY <1>1, <1>2, <1>3 DEF Seats!Next, Proved!Next

LEMMA SameBound == Proved!OverrunIsBounded => Seats!OverrunIsBounded
  BY DEF Seats!OverrunIsBounded, Proved!OverrunIsBounded, Seats!Members, Proved!Members,
     Seats!Cardinality, Proved!Cardinality

\* While the seats run, they are as Team_proofs shows them to be.
SeatsAreBounded == part = "seats" => Proved!TypeOK /\ Proved!SeatsInv

LEMMA SeatsStart == ServerInit => SeatsAreBounded
  BY SeatsAssumed, SameInit, Proved!TypeInit, Proved!SeatsInit DEF ServerInit, SeatsAreBounded

LEMMA SeatsStep == SeatsAreBounded /\ [ServerNext]_serverVars => SeatsAreBounded'
<1> SUFFICES ASSUME SeatsAreBounded, [ServerNext]_serverVars, part' = "seats"
             PROVE  Proved!TypeOK' /\ Proved!SeatsInv'
  BY DEF SeatsAreBounded
<1>1. part = "seats" /\ (Seats!Next \/ UNCHANGED slots)
  BY DEF ServerNext, TeamPart, AccountPart, LimiterPart, AgentsPart, BillingPart, SeatsPart, serverVars
<1>2. [Proved!Next]_(Proved!vars)
  BY <1>1, SameNext DEF slots, Proved!vars
<1> QED
  BY <1>1, <1>2, SeatsAssumed, Proved!TypeNext, Proved!SeatsNext DEF SeatsAreBounded

\* Two accepts, or any number of callers, that compete for the seats of a free team pass its
\* limit by less than their number.
THEOREM SeatsOverrunIsSmall == ServerSpec => []OverrunIsSmall
<1>1. SeatsAreBounded => OverrunIsSmall
  <2>1. Proved!TypeOK /\ Proved!SeatsInv => Proved!OverrunIsBounded
    BY SeatsAssumed, Proved!SeatsWithin
  <2> QED
    BY <2>1, SameBound DEF SeatsAreBounded, OverrunIsSmall
<1> QED
  BY <1>1, SeatsStart, SeatsStep, PTL DEF ServerSpec
-----------------------------------------------------------------------------
(* SignIn and RateLimiter. *)

USE SignInAssumption, LimiterAssumption

-----------------------------------------------------------------------------
(* SignIn: the invariants. *)

\* What a caller that is about to delete relies on.
WaysInv ==
  /\ AWayInRemains
  /\ \A c \in Callers : request[c].at = "counting" => (request[c].secured => password)
  /\ \A c \in Callers : request[c].at = "removing" =>
       password \/ rivals \/ \E p \in linked : p # request[c].of
  /\ \A c, d \in Callers : request[c].at = "removing" /\ request[d].at = "removing" =>
       rivals \/ request[c].of = request[d].of

\* The links that no failed UPDATE has spared.
Unspared == Unused \ spared

LinksInv == Cardinality(Unspared) + Cardinality(Sending) <= senders

-----------------------------------------------------------------------------
(* Types.                                                                   *)

LEMMA TypeInit == SignInInit => SignInTypeOK
<1> SUFFICES ASSUME SignInInit PROVE SignInTypeOK
  OBVIOUS
<1>1. senders \in Nat
  BY DEF SignInInit
<1>2. password \in BOOLEAN /\ rivals \in BOOLEAN
  BY Zenon DEF SignInInit
<1>3. linked \subseteq Providers /\ overdue \subseteq Resets
  BY DEF SignInInit
<1>4. reset \in [Resets -> {"unsent", "unused", "used"}]
  BY DEF SignInInit
<1>5. request \in [Callers -> Calls]
  BY DEF SignInInit, Calls
<1>6. spared \subseteq Resets
  BY DEF SignInInit
<1> QED
  BY <1>1, <1>2, <1>3, <1>4, <1>5, <1>6 DEF SignInTypeOK

LEMMA TypeNext == SignInTypeOK /\ [SignInNext]_signInVars => SignInTypeOK'
<1> SUFFICES ASSUME SignInTypeOK, [SignInNext]_signInVars PROVE SignInTypeOK'
  OBVIOUS
<1> USE DEF SignInTypeOK
<1>1. ASSUME NEW c \in Callers, NEW p \in Providers, AskPassword(c, p) PROVE SignInTypeOK'
  BY <1>1 DEF AskPassword, Calls
<1>2. ASSUME NEW c \in Callers, CountWaysIn(c) PROVE SignInTypeOK'
  <2>1. request[c].of \in Providers
    BY <1>2 DEF CountWaysIn, Calls, Quiet
  <2>2. request' \in [Callers -> Calls]
    BY <1>2, <2>1 DEF CountWaysIn, Calls
  <2>3. rivals' \in BOOLEAN
    BY <1>2 DEF CountWaysIn
  <2> QED
    BY <1>2, <2>2, <2>3 DEF CountWaysIn
<1>3. ASSUME NEW c \in Callers, Unlink(c) PROVE SignInTypeOK'
  BY <1>3 DEF Unlink, Calls
<1>4. ASSUME NEW p \in Providers, Link(p) PROVE SignInTypeOK'
  BY <1>4 DEF Link
<1>5. ASSUME NEW c \in Callers, TakeBack(c) PROVE SignInTypeOK'
  <2>1. senders' \in Nat
    <3>1. IsFiniteSet(Sending)
      BY FS_Subset DEF Sending
    <3>2. Cardinality(Sending) \in Nat
      BY <3>1, FS_CardinalityType
    <3> QED
      BY <1>5, <3>2 DEF TakeBack, Larger
  <2> QED
    BY <1>5, <2>1 DEF TakeBack, Unused, Calls
<1>6. ASSUME NEW c \in Callers, NEW l \in Resets, InsertLink(c, l) PROVE SignInTypeOK'
  BY <1>6 DEF InsertLink, Calls
<1>7. ASSUME NEW l \in Resets, RunOut(l) PROVE SignInTypeOK'
  BY <1>7 DEF RunOut
<1>8. ASSUME NEW c \in Callers, NEW l \in Resets, ReadLink(c, l) PROVE SignInTypeOK'
  BY <1>8 DEF ReadLink, Calls
<1>9. ASSUME NEW c \in Callers, SetPassword(c) PROVE SignInTypeOK'
  BY <1>9 DEF SetPassword, Calls
<1>10. ASSUME NEW c \in Callers, Break(c) PROVE SignInTypeOK'
  BY <1>10 DEF Break, Calls
<1>11. CASE UNCHANGED signInVars
  BY <1>11 DEF signInVars
<1> QED
  BY <1>1, <1>2, <1>3, <1>4, <1>5, <1>6, <1>7, <1>8, <1>9, <1>10, <1>11 DEF SignInNext

-----------------------------------------------------------------------------
(* The ways in.                                                             *)

LEMMA WaysInit == SignInInit => WaysInv
  BY DEF SignInInit, WaysInv, AWayInRemains, Quiet

\* Who counts at least two identities leaves one.
LEMMA OneIsLeft ==
  ASSUME NEW c \in Callers, ~LastWayIn(c), ~request[c].secured, NEW p
  PROVE  \E q \in linked : q # p
<1>1. linked = {} => Cardinality(linked) = 0
  BY FS_EmptySet
<1>2. linked = {p} => Cardinality(linked) = 1
  BY FS_Singleton
<1>3. ~(Cardinality(linked) <= 1)
  BY DEF LastWayIn
<1>4. linked # {} /\ linked # {p}
  BY <1>1, <1>2, <1>3
<1> QED
  BY <1>4

LEMMA WaysNext == SignInTypeOK /\ WaysInv /\ [SignInNext]_signInVars => WaysInv'
<1> SUFFICES ASSUME SignInTypeOK, WaysInv, [SignInNext]_signInVars PROVE WaysInv'
  OBVIOUS
<1> USE DEF SignInTypeOK, WaysInv, AWayInRemains
<1>1. ASSUME NEW c \in Callers, NEW p \in Providers, AskPassword(c, p) PROVE WaysInv'
  BY <1>1 DEF AskPassword
<1>2. ASSUME NEW c \in Callers, CountWaysIn(c) PROVE WaysInv'
  <2> DEFINE p == request[c].of
  <2>1. CASE LastWayIn(c)
    BY <1>2, <2>1 DEF CountWaysIn, Quiet
  <2>2. CASE ~LastWayIn(c)
    <3>1. /\ request' = [request EXCEPT ![c] = [at |-> "removing", of |-> p]]
          /\ rivals' = (rivals \/ \E q \in Providers \ {p} : Removing(q) # {})
          /\ UNCHANGED <<password, linked>>
      BY <1>2, <2>2 DEF CountWaysIn
    <3>2. password \/ \E q \in linked : q # p
      <4>1. request[c].secured => password
        BY <1>2 DEF CountWaysIn
      <4>2. ~request[c].secured => \E q \in linked : q # p
        BY <2>2, OneIsLeft
      <4> QED
        BY <4>1, <4>2
    <3>3. \A d \in Callers : d # c => request'[d] = request[d]
      BY <3>1
    <3>4. request'[c] = [at |-> "removing", of |-> p]
      BY <3>1
    <3>5. \A d \in Callers : d # c /\ request[d].at = "removing" /\ request[d].of # p => rivals'
      <4> SUFFICES ASSUME NEW d \in Callers, d # c, request[d].at = "removing", request[d].of # p
                   PROVE  rivals'
        OBVIOUS
      <4>1. request[d].of \in Providers
        BY DEF Calls, Quiet
      <4>2. d \in Removing(request[d].of)
        BY DEF Removing
      <4> QED
        BY <3>1, <4>1, <4>2
    <3>6. rivals => rivals'
      BY <3>1
    <3>7. AWayInRemains'
      BY <3>1, <3>6
    <3>8. \A d \in Callers : request'[d].at = "counting" => (request'[d].secured => password')
      BY <3>1, <3>3, <3>4
    <3>9. \A d \in Callers : request'[d].at = "removing" =>
            password' \/ rivals' \/ \E q \in linked' : q # request'[d].of
      BY <3>1, <3>2, <3>3, <3>4, <3>6
    <3>10. \A d, e \in Callers : request'[d].at = "removing" /\ request'[e].at = "removing" =>
             rivals' \/ request'[d].of = request'[e].of
      BY <3>3, <3>4, <3>5, <3>6
    <3> QED
      BY <3>7, <3>8, <3>9, <3>10
  <2> QED
    BY <2>1, <2>2
<1>3. ASSUME NEW c \in Callers, Unlink(c) PROVE WaysInv'
  <2>1. /\ request[c].at = "removing" /\ linked' = linked \ {request[c].of}
        /\ \A d \in Callers : d # c => request'[d] = request[d]
        /\ request'[c].at = "idle"
        /\ UNCHANGED <<password, rivals>>
    BY <1>3 DEF Unlink, Quiet
  <2>2. AWayInRemains'
    BY <2>1
  <2>3. \A d \in Callers : request'[d].at = "counting" => (request'[d].secured => password')
    BY <2>1
  <2>4. \A d \in Callers : request'[d].at = "removing" =>
          password' \/ rivals' \/ \E q \in linked' : q # request'[d].of
    BY <2>1
  <2>5. \A d, e \in Callers : request'[d].at = "removing" /\ request'[e].at = "removing" =>
          rivals' \/ request'[d].of = request'[e].of
    BY <2>1
  <2> QED
    BY <2>2, <2>3, <2>4, <2>5
<1>4. ASSUME NEW p \in Providers, Link(p) PROVE WaysInv'
  BY <1>4 DEF Link
<1>5. ASSUME NEW c \in Callers, TakeBack(c) PROVE WaysInv'
  BY <1>5 DEF TakeBack
<1>6. ASSUME NEW c \in Callers, NEW l \in Resets, InsertLink(c, l) PROVE WaysInv'
  BY <1>6 DEF InsertLink, Quiet
<1>7. ASSUME NEW l \in Resets, RunOut(l) PROVE WaysInv'
  BY <1>7 DEF RunOut
<1>8. ASSUME NEW c \in Callers, NEW l \in Resets, ReadLink(c, l) PROVE WaysInv'
  BY <1>8 DEF ReadLink
<1>9. ASSUME NEW c \in Callers, SetPassword(c) PROVE WaysInv'
  BY <1>9 DEF SetPassword, Quiet
<1>10. ASSUME NEW c \in Callers, Break(c) PROVE WaysInv'
  BY <1>10 DEF Break, Quiet
<1>11. CASE UNCHANGED signInVars
  BY <1>11 DEF signInVars
<1> QED
  BY <1>1, <1>2, <1>3, <1>4, <1>5, <1>6, <1>7, <1>8, <1>9, <1>10, <1>11 DEF SignInNext

-----------------------------------------------------------------------------
(* The links.                                                               *)

LEMMA LinksInit == SignInInit => LinksInv
<1> SUFFICES ASSUME SignInInit PROVE LinksInv
  OBVIOUS
<1>1. Unspared = {} /\ Sending = {}
  BY DEF SignInInit, Unspared, Unused, Sending, Quiet
<1> QED
  BY <1>1, FS_EmptySet DEF SignInInit, LinksInv

\* The two sets are finite.
LEMMA LinkCounts ==
  /\ IsFiniteSet(Unspared) /\ IsFiniteSet(Sending)
  /\ Cardinality(Unspared) \in Nat /\ Cardinality(Sending) \in Nat
<1>1. IsFiniteSet(Unspared) /\ IsFiniteSet(Sending)
  BY FS_Subset DEF Unspared, Unused, Sending
<1> QED
  BY <1>1, FS_CardinalityType

\* A step that adds to neither set keeps the bound.
LEMMA LinksShrink ==
  ASSUME SignInTypeOK, LinksInv, Unspared' \subseteq Unspared, Sending' \subseteq Sending, senders' = senders
  PROVE  LinksInv'
<1>1. Cardinality(Unspared') <= Cardinality(Unspared) /\ Cardinality(Unspared') \in Nat
  BY LinkCounts, FS_Subset, FS_CardinalityType
<1>2. Cardinality(Sending') <= Cardinality(Sending) /\ Cardinality(Sending') \in Nat
  BY LinkCounts, FS_Subset, FS_CardinalityType
<1> QED
  BY <1>1, <1>2, LinkCounts DEF LinksInv, SignInTypeOK

LEMMA LinksNext == SignInTypeOK /\ LinksInv /\ [SignInNext]_signInVars => LinksInv'
<1> SUFFICES ASSUME SignInTypeOK, LinksInv, [SignInNext]_signInVars PROVE LinksInv'
  OBVIOUS
<1>1. ASSUME NEW c \in Callers, TakeBack(c) PROVE LinksInv'
  <2>1. Unspared' = {}
    BY <1>1 DEF TakeBack, Unspared, Unused, SignInTypeOK
  <2>2. c \notin Sending /\ Sending' = Sending \cup {c}
    BY <1>1 DEF TakeBack, Sending, Quiet, SignInTypeOK
  <2>3. Cardinality(Sending') = Cardinality(Sending) + 1
    BY <2>2, LinkCounts, FS_AddElement
  <2>4. Cardinality(Unspared') = 0
    BY <2>1, FS_EmptySet
  <2>5. senders' = Larger(senders, Cardinality(Sending) + 1)
    BY <1>1 DEF TakeBack
  <2> QED
    BY <2>3, <2>4, <2>5, LinkCounts DEF LinksInv, Larger, SignInTypeOK
<1>2. ASSUME NEW c \in Callers, NEW l \in Resets, InsertLink(c, l) PROVE LinksInv'
  <2>1. l \notin Unspared /\ Unspared' \subseteq Unspared \cup {l}
    BY <1>2 DEF InsertLink, Unspared, Unused, SignInTypeOK
  <2>2. c \in Sending /\ Sending' = Sending \ {c}
    BY <1>2 DEF InsertLink, Sending, Quiet, SignInTypeOK
  <2>3. Cardinality(Unspared') <= Cardinality(Unspared) + 1 /\ Cardinality(Unspared') \in Nat
    <3>1. /\ IsFiniteSet(Unspared \cup {l})
          /\ Cardinality(Unspared \cup {l}) = Cardinality(Unspared) + 1
      BY <2>1, LinkCounts, FS_AddElement
    <3>. QED
      BY <2>1, <3>1, FS_Subset, FS_CardinalityType
  <2>4. Cardinality(Sending') = Cardinality(Sending) - 1
    BY <2>2, LinkCounts, FS_RemoveElement
  <2>5. senders' = senders
    BY <1>2 DEF InsertLink
  <2> QED
    BY <2>3, <2>4, <2>5, LinkCounts DEF LinksInv, SignInTypeOK
<1>3. CASE \E c \in Callers : CountWaysIn(c) \/ Unlink(c) \/ Break(c)
  <2>1. Unspared' \subseteq Unspared /\ Sending' \subseteq Sending /\ senders' = senders
    BY <1>3 DEF CountWaysIn, Unlink, Break, Unspared, Unused, Sending, Quiet, SignInTypeOK
  <2> QED
    BY <2>1, LinksShrink
<1>4. CASE \E c \in Callers : SetPassword(c)
  <2>1. Unspared' \subseteq Unspared /\ Sending' \subseteq Sending /\ senders' = senders
    BY <1>4 DEF SetPassword, Unspared, Unused, Sending, Quiet, SignInTypeOK
  <2> QED
    BY <2>1, LinksShrink
<1>5. CASE \E c \in Callers : \/ \E p \in Providers : AskPassword(c, p)
                             \/ \E l \in Resets : ReadLink(c, l)
  <2>1. Unspared' \subseteq Unspared /\ Sending' \subseteq Sending /\ senders' = senders
    BY <1>5 DEF AskPassword, ReadLink, Unspared, Unused, Sending, Quiet, SignInTypeOK
  <2> QED
    BY <2>1, LinksShrink
<1>6. CASE (\E p \in Providers : Link(p)) \/ (\E l \in Resets : RunOut(l)) \/ UNCHANGED signInVars
  <2>1. Unspared' \subseteq Unspared /\ Sending' \subseteq Sending /\ senders' = senders
    BY <1>6 DEF Link, RunOut, signInVars, Unspared, Unused, Sending
  <2> QED
    BY <2>1, LinksShrink
<1> QED
  BY <1>1, <1>2, <1>3, <1>4, <1>5, <1>6 DEF SignInNext

-----------------------------------------------------------------------------
(* Theorems.                                                                *)

\* Types of the account's rows and of the requests under way.
THEOREM SignInTyping == SignInSpec => []SignInTypeOK
  BY TypeInit, TypeNext, PTL DEF SignInSpec

\* For any number of providers and requests, only overlapping removals of different
\* identities take the last way to sign in.
THEOREM WaysInRemain == SignInSpec => []AWayInRemains
<1>1. WaysInv => AWayInRemains
  BY DEF WaysInv
<1> QED
  BY <1>1, TypeInit, TypeNext, WaysInit, WaysNext, PTL DEF SignInSpec

\* For any number of links and requests, no more links are in use than requests were
\* sending one at a time, but for those an UPDATE that failed has spared.
THEOREM LinksSuperseded == SignInSpec => []LinksAreSuperseded
<1>1. SignInTypeOK /\ LinksInv => LinksAreSuperseded
  BY LinkCounts DEF SignInTypeOK, LinksInv, Unspared, LinksAreSuperseded
<1> QED
  BY <1>1, TypeInit, TypeNext, LinksInit, LinksNext, PTL DEF SignInSpec

-----------------------------------------------------------------------------
(* RateLimiter: the invariants. *)

\* A bucket in the map.
Stored(b) ==
  /\ b \in [tokens : Int, lastRefill : Nat]
  /\ b.tokens \in 0..(Capacity - 1) /\ b.lastRefill <= now

BucketsInv == \A k \in Keys : buckets[k] = NoBucket \/ Stored(buckets[k])

\* What the observer has counted of one key.
Counted(k) ==
  /\ watched[k] = -1 => granted[k] = 0
  /\ watched[k] <= now
  /\ buckets[k] = NoBucket => granted[k] = 0
  /\ granted[k] > 0 => buckets[k].lastRefill + Window > watched[k]
  /\ watched[k] # -1 /\ now < watched[k] + Window /\ buckets[k] # NoBucket =>
       IF buckets[k].lastRefill <= watched[k]
       THEN granted[k] + buckets[k].tokens <= Capacity
       ELSE granted[k] + buckets[k].tokens <= Capacity + Rate

CountsInv == \A k \in Keys : Counted(k)

-----------------------------------------------------------------------------
(* Windows.                                                                 *)

\* The whole windows in a stretch of time.
LEMMA WholeWindows ==
  ASSUME NEW e \in Nat
  PROVE  /\ e \div Window \in Nat
         /\ (e \div Window) * Window \in Nat
         /\ (e \div Window) * Window <= e
         /\ e < (e \div Window) * Window + Window
<1>1. e \div Window \in Nat
  BY SMT
<1>2. e = Window * (e \div Window) + (e % Window) /\ e % Window \in 0..(Window - 1)
  BY SMT
<1> QED
  BY <1>1, <1>2, SMT

\* A number of windows is none, one or at least two.
LEMMA SomeWindows ==
  ASSUME NEW p \in Nat
  PROVE  /\ p = 0 => p * Window = 0
         /\ p = 1 => p * Window = Window
         /\ p >= 2 => p * Window >= Window + Window
<1>1. p >= 2 => p * Window >= 2 * Window
  <2>1. SUFFICES ASSUME p >= 2 PROVE p * Window >= 2 * Window
    OBVIOUS
  <2>2. p * Window = (p - 2) * Window + 2 * Window
    BY SMT
  <2>3. (p - 2) * Window >= 0
    BY <2>1, SMT
  <2> QED
    BY <2>2, <2>3, SMT
<1> QED
  BY <1>1, SMT

\* What Allow finds: no more than a bucket, last refilled less than a window ago.
LEMMA RefilledBucket ==
  ASSUME NEW b, now \in Nat, Stored(b)
  PROVE  /\ Refilled(b) \in [tokens : Int, lastRefill : Nat]
         /\ Refilled(b).tokens \in 0..Capacity
         /\ b.lastRefill <= Refilled(b).lastRefill
         /\ Refilled(b).lastRefill <= now /\ now < Refilled(b).lastRefill + Window
         /\ \/ Refilled(b) = b
            \/ /\ Refilled(b).lastRefill = b.lastRefill + Window
               /\ Refilled(b).tokens <= b.tokens + Rate
            \/ Refilled(b).lastRefill >= b.lastRefill + Window + Window
<1> DEFINE e == Elapsed(b)
           p == Periods(b)
<1>1. e \in Nat /\ e = now - b.lastRefill
  BY DEF Stored, Elapsed
<1>2. p = e \div Window
  BY DEF Periods
<1>3. p \in Nat /\ p * Window \in Nat /\ p * Window <= e /\ e < p * Window + Window
  BY <1>1, <1>2, WholeWindows
<1>4. p * Rate \in Nat
  BY <1>3, SMT
<1>5. CASE e < Window
  <2>1. Refilled(b) = b
    BY <1>5 DEF Refilled
  <2> QED
    BY <2>1, <1>1, <1>5 DEF Stored
<1>6. CASE ~(e < Window)
  <2> DEFINE full == IF b.tokens + p * Rate > Capacity THEN Capacity ELSE b.tokens + p * Rate
  <2>1. Refilled(b) = [tokens |-> full, lastRefill |-> b.lastRefill + p * Window]
    BY <1>6 DEF Refilled
  <2>2. full \in 0..Capacity /\ full <= b.tokens + p * Rate
    <3> HIDE DEF p
    <3> QED
      BY <1>4 DEF Stored
  <2>3. p # 0
    <3>1. p = 0 => p * Window = 0
      BY <1>3, SomeWindows
    <3> HIDE DEF e, p
    <3> QED
      BY <1>1, <1>3, <1>6, <3>1
  <2>4. p = 1 => p * Rate = Rate
    BY SMT
  <2>5. b.lastRefill \in Nat /\ b.tokens \in Int /\ now = b.lastRefill + e
    BY <1>1 DEF Stored
  <2> HIDE DEF e, p, full
  <2>6. p = 1 \/ p >= 2
    BY <1>3, <2>3
  <2>7. \/ p * Window = Window /\ full <= b.tokens + Rate
        \/ p * Window >= Window + Window
    BY <1>3, <2>2, <2>4, <2>6, SomeWindows
  <2>8. p * Window \in Nat /\ p * Window <= e /\ e < p * Window + Window
    BY <1>3
  <2> DEFINE w == p * Window
  <2> HIDE DEF w
  <2>9. w \in Nat /\ w <= e /\ e < w + Window
    BY <2>8 DEF w
  <2>10. (w = Window /\ full <= b.tokens + Rate) \/ w >= Window + Window
    BY <2>7 DEF w
  <2>11. Refilled(b) = [tokens |-> full, lastRefill |-> b.lastRefill + w]
    BY <2>1 DEF w
  <2> QED
    BY <1>1, <2>2, <2>5, <2>9, <2>10, <2>11
<1> QED
  BY <1>5, <1>6

-----------------------------------------------------------------------------
(* The invariants hold at the start and every step keeps them.              *)

Inv == LimiterTypeOK /\ BucketsInv /\ CountsInv

LEMMA InvInit == LimiterInit => Inv
<1> SUFFICES ASSUME LimiterInit PROVE Inv
  OBVIOUS
<1>1. LimiterTypeOK
  BY DEF LimiterInit, LimiterTypeOK, NoBucket
<1> QED
  BY <1>1 DEF LimiterInit, Inv, BucketsInv, CountsInv, Counted

\* Requests that find a bucket: the same arithmetic, granted or not.
LEMMA InvRequest ==
  ASSUME Inv, NEW k \in Keys, Allow(k) \/ Refuse(k)
  PROVE  Inv'
<1> DEFINE b == buckets[k]
           r == Refilled(b)
<1>1. Stored(b) /\ b # NoBucket /\ now \in Nat
  BY DEF Inv, BucketsInv, LimiterTypeOK, Allow, Refuse
<1>2. /\ r \in [tokens : Int, lastRefill : Nat]
      /\ r.tokens \in 0..Capacity
      /\ b.lastRefill <= r.lastRefill
      /\ r.lastRefill <= now /\ now < r.lastRefill + Window
      /\ \/ r = b
         \/ r.lastRefill = b.lastRefill + Window /\ r.tokens <= b.tokens + Rate
         \/ r.lastRefill >= b.lastRefill + Window + Window
  BY <1>1, RefilledBucket
<1> DEFINE c == buckets'[k]
           g == granted'[k]
<1> HIDE DEF r
<1>3. /\ c.lastRefill = r.lastRefill /\ c.tokens \in 0..(Capacity - 1)
      /\ c \in [tokens : Int, lastRefill : Nat]
      /\ g \in Nat
      /\ watched[k] = -1 => g = granted[k]
      /\ watched[k] # -1 => g + c.tokens = granted[k] + r.tokens
  <2>1. CASE Allow(k)
    <3>1. c = [r EXCEPT !.tokens = @ - 1] /\ r.tokens > 0
      <4>1. buckets' = [buckets EXCEPT ![k] = Taken(r)] /\ r.tokens > 0
        BY <2>1 DEF Allow, r
      <4> QED
        BY <4>1 DEF Inv, LimiterTypeOK, Taken
    <3>2. g = IF watched[k] # -1 THEN granted[k] + 1 ELSE granted[k]
      BY <2>1 DEF Allow, Count, Inv, LimiterTypeOK
    <3>3. granted[k] \in Nat
      BY DEF Inv, LimiterTypeOK
    <3> HIDE DEF c, g
    <3> QED
      BY <3>1, <3>2, <3>3, <1>2
  <2>2. CASE Refuse(k)
    BY <2>2, <1>2 DEF Refuse, Inv, LimiterTypeOK, r
  <2> QED
    BY <2>1, <2>2
<1>4. /\ \A j \in Keys \ {k} : buckets'[j] = buckets[j] /\ granted'[j] = granted[j]
      /\ UNCHANGED <<now, ticker, watched>>
  BY DEF Allow, Refuse, Count, Inv, LimiterTypeOK
<1>5. LimiterTypeOK'
  <2>1. buckets' = [buckets EXCEPT ![k] = c] /\ granted' = [granted EXCEPT ![k] = g]
    <3>1. CASE Allow(k)
      BY <3>1 DEF Allow, Count, Inv, LimiterTypeOK
    <3>2. CASE Refuse(k)
      BY <3>2 DEF Refuse, Inv, LimiterTypeOK
    <3> QED
      BY <3>1, <3>2
  <2> HIDE DEF c, g
  <2> QED
    BY <2>1, <1>3, <1>4 DEF Inv, LimiterTypeOK
<1>6. c # NoBucket /\ Stored(b)'
  <2>1. now' = now
    BY <1>4
  <2>2. c.tokens # -1
    BY <1>3
  <2> QED
    BY <1>2, <1>3, <2>1, <2>2 DEF Stored, NoBucket
<1>7. BucketsInv'
  BY <1>4, <1>6 DEF Inv, BucketsInv, Stored
<1>8. Counted(k)'
  BY <1>1, <1>2, <1>3, <1>4, <1>6 DEF Counted, Inv, CountsInv, Stored, LimiterTypeOK
<1>9. ASSUME NEW j \in Keys \ {k} PROVE Counted(j)'
  BY <1>4 DEF Counted, Inv, CountsInv
<1> QED
  BY <1>5, <1>7, <1>8, <1>9 DEF Inv, CountsInv

LEMMA InvNext == Inv /\ [LimiterNext]_limiterVars => Inv'
<1> SUFFICES ASSUME Inv, [LimiterNext]_limiterVars PROVE Inv'
  OBVIOUS
<1>1. ASSUME NEW k \in Keys, AllowFirst(k) PROVE Inv'
  <2> DEFINE b == [tokens |-> Capacity - 1, lastRefill |-> now]
  <2>1. b # NoBucket /\ b \in [tokens : Int, lastRefill : Nat]
    <3>1. Capacity - 1 # -1 /\ now \in Nat
      BY DEF Inv, LimiterTypeOK
    <3> QED
      BY <3>1 DEF NoBucket
  <2>2. /\ buckets' = [buckets EXCEPT ![k] = b]
        /\ granted' = [granted EXCEPT ![k] = IF watched[k] # -1 THEN @ + 1 ELSE @]
        /\ UNCHANGED <<now, ticker, watched>>
    BY <1>1 DEF AllowFirst, Count
  <2>3. LimiterTypeOK'
    BY <2>1, <2>2 DEF Inv, LimiterTypeOK
  <2>4. \A j \in Keys : j # k => buckets'[j] = buckets[j] /\ granted'[j] = granted[j]
    BY <2>2 DEF Inv, LimiterTypeOK
  <2>5. buckets'[k] = b /\ granted[k] = 0 /\ granted'[k] = IF watched[k] # -1 THEN 1 ELSE 0
    BY <1>1, <2>2 DEF Inv, LimiterTypeOK, CountsInv, Counted, AllowFirst
  <2>6. BucketsInv'
    <3>1. Stored(b)' <=> Stored(b)
      BY <2>2 DEF Stored
    <3>2. Stored(b)
      BY <2>1 DEF Stored, Inv, LimiterTypeOK
    <3>3. \A j \in Keys : j # k => buckets'[j] = NoBucket \/ Stored(buckets[j])'
      BY <2>2, <2>4 DEF Inv, BucketsInv, Stored
    <3>4. Stored(buckets[k])'
      BY <2>2, <2>5, <3>2 DEF Stored
    <3> QED
      BY <3>3, <3>4 DEF BucketsInv
  <2>7. Counted(k)'
    BY <2>1, <2>2, <2>5 DEF Counted, Inv, LimiterTypeOK, CountsInv
  <2>8. ASSUME NEW j \in Keys, j # k PROVE Counted(j)'
    BY <2>2, <2>4, <2>8 DEF Counted, Inv, CountsInv
  <2> QED
    BY <2>3, <2>6, <2>7, <2>8 DEF Inv, CountsInv
<1>2. ASSUME NEW k \in Keys, Allow(k) \/ Refuse(k) PROVE Inv'
  BY <1>2, InvRequest
<1>3. ASSUME NEW k \in Keys, Watch(k) PROVE Inv'
  <2>1. LimiterTypeOK'
    BY <1>3 DEF Inv, LimiterTypeOK, Watch
  <2>2. BucketsInv'
    BY <1>3 DEF Inv, BucketsInv, Stored, Watch
  <2>3. Counted(k)'
    BY <1>3 DEF Inv, LimiterTypeOK, BucketsInv, Stored, CountsInv, Counted, Watch
  <2>4. ASSUME NEW j \in Keys, j # k PROVE Counted(j)'
    BY <1>3, <2>4 DEF Inv, LimiterTypeOK, CountsInv, Counted, Watch
  <2> QED
    BY <2>1, <2>2, <2>3, <2>4 DEF Inv, CountsInv
<1>4. CASE Sweep
  <2>1. \A k \in Keys : buckets[k] # NoBucket => ~Stale(buckets[k])
    BY DEF Inv, BucketsInv, Stored, Stale
  <2>2. buckets' = buckets
    BY <1>4, <2>1 DEF Sweep, Inv, LimiterTypeOK
  <2> QED
    BY <1>4, <2>2 DEF Sweep, Inv, LimiterTypeOK, BucketsInv, Stored, CountsInv, Counted
<1>5. CASE Tick
  <2>1. LimiterTypeOK' /\ now' = now + 1 /\ UNCHANGED <<buckets, watched, granted>> /\ now \in Nat
    BY <1>5 DEF Tick, Inv, LimiterTypeOK
  <2>2. BucketsInv'
    BY <2>1 DEF Inv, BucketsInv, Stored
  <2>3. CountsInv'
    BY <2>1 DEF Inv, LimiterTypeOK, CountsInv, Counted
  <2> QED
    BY <2>1, <2>2, <2>3 DEF Inv
<1>6. CASE UNCHANGED limiterVars
  BY <1>6 DEF limiterVars, Inv, LimiterTypeOK, BucketsInv, Stored, CountsInv, Counted
<1> QED
  BY <1>1, <1>2, <1>3, <1>4, <1>5, <1>6 DEF LimiterNext

-----------------------------------------------------------------------------
(* Theorems.                                                                *)

\* Types: the buckets hold integers and times, and the observer counts.
THEOREM LimiterTyping == LimiterSpec => []LimiterTypeOK
<1>1. Inv => LimiterTypeOK
  BY DEF Inv
<1> QED
  BY <1>1, InvInit, InvNext, PTL DEF LimiterSpec

\* Allow grants a key at most a bucket and one refill in less than a window, for
\* every rate, window and capacity.
THEOREM BurstsBounded == LimiterSpec => []BurstsAreBounded
<1>1. Inv => BurstsAreBounded
  <2>1. SUFFICES ASSUME Inv, NEW k \in Keys, watched[k] # -1, now < watched[k] + Window
                 PROVE  granted[k] <= Capacity + Rate
    BY DEF BurstsAreBounded
  <2> QED
    BY <2>1 DEF Inv, LimiterTypeOK, BucketsInv, Stored, CountsInv, Counted
<1> QED
  BY <1>1, InvInit, InvNext, PTL DEF LimiterSpec

\* The janitor never deletes a bucket: the map has an entry for every key that ever
\* asked.
THEOREM NothingForgotten == LimiterSpec => NothingIsForgotten
<1>1. Inv /\ [LimiterNext]_limiterVars => [Kept]_limiterVars
  <2> SUFFICES ASSUME Inv, LimiterNext, NEW k \in Keys, buckets[k] # NoBucket
               PROVE  buckets'[k] # NoBucket
    BY DEF Kept
  <2>1. CASE Sweep
    <3>1. ~Stale(buckets[k])
      BY DEF Inv, BucketsInv, Stored, Stale
    <3> QED
      BY <2>1, <3>1 DEF Sweep
  <2>2. ASSUME NEW j \in Keys, AllowFirst(j) PROVE buckets'[k] # NoBucket
    BY <2>2 DEF AllowFirst, Inv, LimiterTypeOK
  <2>3. ASSUME NEW j \in Keys, Allow(j) \/ Refuse(j) PROVE buckets'[k] # NoBucket
    <3>1. j # k => buckets'[k] = buckets[k]
      BY <2>3 DEF Allow, Refuse, Inv, LimiterTypeOK
    <3>2. j = k => buckets'[k] # NoBucket
      <4> SUFFICES ASSUME j = k PROVE buckets'[k].tokens >= 0
        BY DEF NoBucket
      <4>1. Stored(buckets[k]) /\ now \in Nat
        BY DEF Inv, LimiterTypeOK, BucketsInv
      <4>2. /\ Refilled(buckets[k]) \in [tokens : Int, lastRefill : Nat]
            /\ Refilled(buckets[k]).tokens \in 0..Capacity
        BY <4>1, RefilledBucket
      <4>3. CASE Allow(k)
        <5>1. buckets' = [buckets EXCEPT ![k] = Taken(Refilled(buckets[k]))]
              /\ Refilled(buckets[k]).tokens > 0
          BY <4>3 DEF Allow
        <5>2. buckets'[k] = Taken(Refilled(buckets[k]))
          BY <5>1 DEF Inv, LimiterTypeOK
        <5> QED
          BY <4>2, <5>1, <5>2 DEF Taken
      <4>4. CASE Refuse(k)
        <5>1. buckets'[k] = Refilled(buckets[k])
          BY <4>4 DEF Refuse, Inv, LimiterTypeOK
        <5> QED
          BY <4>2, <5>1
      <4> QED
        BY <2>3, <4>3, <4>4
    <3> QED
      BY <3>1, <3>2
  <2> QED
    BY <2>1, <2>2, <2>3 DEF LimiterNext, Watch, Tick
<1> QED
  BY <1>1, InvInit, InvNext, PTL DEF LimiterSpec, NothingIsForgotten
=============================================================================
