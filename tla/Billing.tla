------------------------------- MODULE Billing -------------------------------
(****************************************************************************)
(* The webhook of the payment provider and the subscriptions it stores on   *)
(* teams (src/apps/api/billing.go).                                         *)
(*                                                                          *)
(* The provider delivers each event at least once, in any order, and may    *)
(* have several deliveries under way.  A delivery asks whether its event    *)
(* is known, looks for the team that has its subscription, else for the     *)
(* team its checkout named, and writes in later statements: one action      *)
(* each.                                                                    *)
(****************************************************************************)
EXTENDS Naturals, FiniteSets

CONSTANTS
  BilledTeams,
  Subscriptions,
  Deliveries,    \* webhook requests under way at a time
  MaxEvents      \* bound: events of one subscription with the same status

\* An event: a subscription, whether its status grants PRO, and its number.
Events == [of : Subscriptions, live : BOOLEAN, number : 1..MaxEvents]

None == "none"

ASSUME BillingAssumption == None \notin Subscriptions

VARIABLES
  claim,      \* external: the team each subscription's checkout named, if any
  team,       \* per team: billing_subscription_id, and whether its status grants PRO
  known,      \* billing_webhook_events
  delivery,   \* per delivery: how far it has come
  overlapped  \* history: two deliveries were about to write different subscriptions to a team

billingVars == <<claim, team, known, delivery, overlapped>>

NoDelivery == [at |-> "idle"]

BillingInit ==
  /\ claim \in [Subscriptions -> BilledTeams \cup {None}]
  /\ team = [t \in BilledTeams |-> [subscription |-> None, live |-> FALSE]]
  /\ known = {}
  /\ delivery = [d \in Deliveries |-> NoDelivery]
  /\ overlapped = FALSE

-----------------------------------------------------------------------------
\* A delivery arrives; one of a known event is acknowledged and ends.
Deliver(d, e) ==
  /\ delivery[d] = NoDelivery /\ e \notin known
  /\ delivery' = [delivery EXCEPT ![d] = [at |-> "finding", event |-> e]]
  /\ UNCHANGED <<claim, team, known, overlapped>>

Bound(d, t) == delivery[d].at = "bound" /\ delivery[d].team = t

\* The delivery has its team and will write to it.
Bind(d, t) ==
  /\ delivery' = [delivery EXCEPT ![d] = [at |-> "bound", event |-> @.event, team |-> t]]
  /\ overlapped' = (overlapped \/ \E o \in Deliveries \ {d} :
                  Bound(o, t) /\ delivery[o].event.of # delivery[d].event.of)
  /\ UNCHANGED <<claim, team, known>>

\* The team that has the subscription.
FindBySubscription(d) ==
  /\ delivery[d].at = "finding"
  /\ \E t \in BilledTeams : team[t].subscription = delivery[d].event.of /\ Bind(d, t)

\* No team has it, or the query fails.
NotFound(d) ==
  /\ delivery[d].at = "finding"
  /\ delivery' = [delivery EXCEPT ![d].at = "claiming"]
  /\ UNCHANGED <<claim, team, known, overlapped>>

\* A team with a live subscription keeps it.
MayBind(s, t) == team[t].subscription \in {None, s} \/ ~team[t].live

\* Mutant: whatever the team has is replaced.
M_FindByClaim(d) ==
  /\ delivery[d].at = "claiming"
  /\ claim[delivery[d].event.of] # None
  /\ Bind(d, claim[delivery[d].event.of])

\* The team the checkout named.
FindByClaim(d) ==
  /\ delivery[d].at = "claiming"
  /\ LET s == delivery[d].event.of IN
       claim[s] # None /\ MayBind(s, claim[s]) /\ Bind(d, claim[s])

\* No team may have it: logged and acknowledged, and not recorded as known.
TurnDown(d) ==
  /\ delivery[d].at = "claiming"
  /\ LET s == delivery[d].event.of IN ~(claim[s] # None /\ MayBind(s, claim[s]))
  /\ delivery' = [delivery EXCEPT ![d] = NoDelivery]
  /\ UNCHANGED <<claim, team, known, overlapped>>

Apply(d) ==
  /\ delivery[d].at = "bound"
  /\ team' = [team EXCEPT ![delivery[d].team] =
                [subscription |-> delivery[d].event.of, live |-> delivery[d].event.live]]
  /\ delivery' = [delivery EXCEPT ![d] = [at |-> "applied", event |-> @.event]]
  /\ UNCHANGED <<claim, known, overlapped>>

Record(d) ==
  /\ delivery[d].at = "applied"
  /\ known' = known \cup {delivery[d].event}
  /\ delivery' = [delivery EXCEPT ![d] = NoDelivery]
  /\ UNCHANGED <<claim, team, overlapped>>

\* A statement fails: the provider is told so, or, for Record, it is only logged.
DeliveryFails(d) ==
  /\ delivery[d] # NoDelivery
  /\ delivery' = [delivery EXCEPT ![d] = NoDelivery]
  /\ UNCHANGED <<claim, team, known, overlapped>>

BillingNext ==
  \E d \in Deliveries :
    \/ \E e \in Events : Deliver(d, e)
    \/ FindBySubscription(d) \/ NotFound(d) \/ FindByClaim(d) \/ TurnDown(d)
    \/ Apply(d) \/ Record(d) \/ DeliveryFails(d)

BillingSpec == BillingInit /\ [][BillingNext]_billingVars
-----------------------------------------------------------------------------
(* Properties.                                                              *)

BillingTypeOK ==
  /\ claim \in [Subscriptions -> BilledTeams \cup {None}]
  /\ team \in [BilledTeams -> [subscription : Subscriptions \cup {None}, live : BOOLEAN]]
  /\ known \subseteq Events /\ overlapped \in BOOLEAN
  /\ delivery \in [Deliveries -> {NoDelivery} \cup [at : {"finding", "claiming", "applied"}, event : Events]
                 \cup [at : {"bound"}, event : Events, team : BilledTeams]]

\* "A team that already has a live subscription is never rebound to a different one",
\* whatever the order and the repetition of events, unless two deliveries had both
\* found the team free for different subscriptions before either wrote.
LiveStays ==
  \A t \in BilledTeams :
    team[t].live /\ team'[t].subscription # team[t].subscription => overlapped

NeverRebound == [][LiveStays]_billingVars
=============================================================================
