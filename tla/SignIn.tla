------------------------------- MODULE SignIn -------------------------------
(****************************************************************************)
(* The ways to sign in to one account: its password, the identities of      *)
(* OAuth providers linked to it, and the emailed links that set a password  *)
(* (src/apps/api/identities.go, oauth.go, password_reset.go).               *)
(*                                                                          *)
(* Unlinking counts the ways in and deletes one in a later statement,       *)
(* sending a link takes back the links before it and inserts its own in a   *)
(* later statement, also when the first has failed, and using one reads it  *)
(* before the transaction that spends it: one action per statement, and any *)
(* number of requests at a time.  Linking asks first, but the UNIQUE        *)
(* constraints decide: one action.  A password is never removed.            *)
(****************************************************************************)
EXTENDS SignInConstants

VARIABLES
  password,  \* password_hash IS NOT NULL
  linked,    \* the providers in oauth_identities
  reset,     \* per link: "unsent", "unused" or "used" (used_at)
  overdue,   \* the links whose expires_at has passed
  request,   \* per caller: the request under way
  spared,    \* history: the links that a failed UPDATE left unused
  rivals,    \* history: two callers were about to delete different identities
  senders    \* history: the most callers that were about to insert a link

signInVars == <<password, linked, reset, overdue, request, spared, rivals, senders>>

Quiet == [at |-> "idle"]

Calls == {Quiet}
  \cup [at : {"counting"}, of : Providers, secured : BOOLEAN]
  \cup [at : {"removing"}, of : Providers]
  \cup [at : {"sending"}]
  \cup [at : {"setting"}, link : Resets]

Removing(p) == {c \in Callers : request[c].at = "removing" /\ request[c].of = p}
Sending == {c \in Callers : request[c].at = "sending"}
Unused == {l \in Resets : reset[l] = "unused"}

\* An account of a sign-up has a password, one of an OAuth sign-in a provider.
SignInInit ==
  /\ password \in BOOLEAN /\ linked \in SUBSET Providers
  /\ password \/ linked # {}
  /\ reset = [l \in Resets |-> "unsent"]
  /\ overdue = {}
  /\ request = [c \in Callers |-> Quiet]
  /\ spared = {}
  /\ rivals = FALSE
  /\ senders = 0

-----------------------------------------------------------------------------
(* handleUnlinkIdentity.                                                    *)

\* "password_hash IS NOT NULL".
AskPassword(c, p) ==
  /\ request[c] = Quiet
  /\ request' = [request EXCEPT ![c] = [at |-> "counting", of |-> p, secured |-> password]]
  /\ UNCHANGED <<password, linked, reset, overdue, spared, rivals, senders>>

\* Mutant: the last identity passes for one of two.
M_LastWayIn(c) == ~request[c].secured /\ Cardinality(linked) < 1

\* "Can't remove your last sign-in method".
LastWayIn(c) == ~request[c].secured /\ Cardinality(linked) <= 1

\* SELECT COUNT(*): the caller is refused, or goes on to delete.
CountWaysIn(c) ==
  /\ request[c].at = "counting"
  /\ IF LastWayIn(c)
     THEN request' = [request EXCEPT ![c] = Quiet] /\ UNCHANGED rivals
     ELSE /\ request' = [request EXCEPT ![c] = [at |-> "removing", of |-> @.of]]
          /\ rivals' = (rivals \/ \E p \in Providers \ {request[c].of} : Removing(p) # {})
  /\ UNCHANGED <<password, linked, reset, overdue, spared, senders>>

Unlink(c) ==
  /\ request[c].at = "removing"
  /\ linked' = linked \ {request[c].of}
  /\ request' = [request EXCEPT ![c] = Quiet]
  /\ UNCHANGED <<password, reset, overdue, spared, rivals, senders>>

\* linkOAuthIdentity, or findOrCreateOAuthUser for an account found by its email.
Link(p) ==
  /\ p \notin linked
  /\ linked' = linked \cup {p}
  /\ UNCHANGED <<password, reset, overdue, request, spared, rivals, senders>>

-----------------------------------------------------------------------------
(* sendPasswordResetForUser and handleResetPassword.                        *)

Larger(a, b) == IF a > b THEN a ELSE b

\* Mutant: the links that were sent before stay.
M_TakeBack(c) ==
  /\ request[c] = Quiet
  /\ request' = [request EXCEPT ![c] = [at |-> "sending"]]
  /\ senders' = Larger(senders, Cardinality(Sending) + 1)
  /\ UNCHANGED <<password, linked, reset, overdue, spared, rivals>>

\* Every unused link of the user is marked used.  If that UPDATE fails, it is only
\* logged, and the request goes on all the same.
TakeBack(c) ==
  /\ request[c] = Quiet
  /\ \/ /\ reset' = [l \in Resets |-> IF reset[l] = "unused" THEN "used" ELSE reset[l]]
        /\ UNCHANGED spared
     \/ spared' = spared \cup Unused /\ UNCHANGED reset
  /\ request' = [request EXCEPT ![c] = [at |-> "sending"]]
  /\ senders' = Larger(senders, Cardinality(Sending) + 1)
  /\ UNCHANGED <<password, linked, overdue, rivals>>

\* Its id is new; which one makes no difference, so the least is taken.
InsertLink(c, l) ==
  /\ request[c].at = "sending"
  /\ reset[l] = "unsent" /\ \A k \in Resets : reset[k] = "unsent" => l <= k
  /\ reset' = [reset EXCEPT ![l] = "unused"]
  /\ request' = [request EXCEPT ![c] = Quiet]
  /\ UNCHANGED <<password, linked, overdue, spared, rivals, senders>>

\* expires_at passes.
RunOut(l) ==
  /\ reset[l] = "unused" /\ l \notin overdue
  /\ overdue' = overdue \cup {l}
  /\ UNCHANGED <<password, linked, reset, request, spared, rivals, senders>>

ReadLink(c, l) ==
  /\ request[c] = Quiet
  /\ reset[l] = "unused" /\ l \notin overdue
  /\ request' = [request EXCEPT ![c] = [at |-> "setting", link |-> l]]
  /\ UNCHANGED <<password, linked, reset, overdue, spared, rivals, senders>>

\* The transaction: the password is set and the link spent, whatever it is by now.
SetPassword(c) ==
  /\ request[c].at = "setting"
  /\ password' = TRUE
  /\ reset' = [reset EXCEPT ![request[c].link] = "used"]
  /\ request' = [request EXCEPT ![c] = Quiet]
  /\ UNCHANGED <<linked, overdue, spared, rivals, senders>>

\* Another statement fails: the request ends without its effect.
Break(c) ==
  /\ request[c] # Quiet
  /\ request' = [request EXCEPT ![c] = Quiet]
  /\ UNCHANGED <<password, linked, reset, overdue, spared, rivals, senders>>

SignInNext ==
  \/ \E c \in Callers :
       \/ CountWaysIn(c) \/ Unlink(c) \/ TakeBack(c) \/ SetPassword(c) \/ Break(c)
       \/ \E p \in Providers : AskPassword(c, p)
       \/ \E l \in Resets : InsertLink(c, l) \/ ReadLink(c, l)
  \/ \E p \in Providers : Link(p)
  \/ \E l \in Resets : RunOut(l)

SignInSpec == SignInInit /\ [][SignInNext]_signInVars
-----------------------------------------------------------------------------
(* Properties.                                                              *)

SignInTypeOK ==
  /\ password \in BOOLEAN /\ rivals \in BOOLEAN /\ senders \in Nat
  /\ linked \subseteq Providers /\ overdue \subseteq Resets /\ spared \subseteq Resets
  /\ reset \in [Resets -> {"unsent", "unused", "used"}]
  /\ request \in [Callers -> Calls]

\* An account keeps a way to sign in: only two removals at a time, of different
\* providers, that each counted the identity of the other, may take the last one.
AWayInRemains == password \/ linked # {} \/ rivals

\* The links that may still be used: never more than there were requests at a time
\* that had taken back the older links and not yet inserted their own, but for
\* the links that an UPDATE which failed has spared ("Failed to invalidate prior
\* tokens"): those stay until the next one that succeeds.
LinksAreSuperseded == Cardinality(Unused \ spared) <= senders
=============================================================================
