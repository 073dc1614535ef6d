-------------------------------- MODULE Links --------------------------------
(****************************************************************************)
(* The pages that a link in an email opens: verify-email, invites/accept,   *)
(* verify-email-change and newsletter/confirm.  Each uses up its link by a  *)
(* request it sends from an effect, while the session of useAuthStore, on   *)
(* which the effect depends, changes under it.                              *)
(****************************************************************************)
EXTENDS Naturals, FiniteSets

CONSTANTS
  MaxRequests, \* bound: requests in flight
  MaxLoads     \* bound: times the page is loaded

ASSUME LinksAssumption == MaxRequests \in Nat /\ MaxLoads \in Nat \ {0}

VARIABLES
  kind,      \* "verify", "invite", "newsletter" or "emailChange"
  used,      \* the server has used the link up
  verified,  \* on the server, the invitee's address is verified
  who,       \* whose token is in the store: "none", "invitee" or "other"
  user,      \* the profile in the store: [of, verified]
  preview,   \* of the invite: "loading", "found" or "notfound"
  started,   \* startedForToken, acceptedFor, startedFor
  requests,  \* in flight: [id, what, as, reply]
  status,    \* what the page shows
  told,      \* history: since the page is loaded, the server said it is done
  loads      \* times the page has been loaded

linksVars == <<kind, used, verified, who, user, preview, started, requests, status, told, loads>>
onServer == <<kind, used, verified>>
session == <<who, user>>
page == <<preview, started, status, told, loads>>

LinkKinds == {"verify", "invite", "newsletter", "emailChange"}
Nobody == [of |-> "none", verified |-> FALSE]

FreeNumbers == (1..MaxRequests) \ {r.id : r \in requests}
Request(what) ==
  [id |-> CHOOSE n \in FreeNumbers : \A m \in FreeNumbers : n <= m,
   what |-> what, as |-> who, reply |-> "none"]

FirstStatus(k) == IF k = "invite" THEN "idle" ELSE "working"

LinksInit ==
  /\ kind \in LinkKinds
  /\ used \in BOOLEAN /\ verified \in BOOLEAN
  /\ who \in {"none", "invitee", "other"}
  /\ user = [of |-> who, verified |-> who = "other"]
  /\ preview = "loading" /\ started = FALSE
  /\ requests = {} /\ status = FirstStatus(kind) /\ told = FALSE /\ loads = 1
-----------------------------------------------------------------------------
(* The page. *)

AskPreview ==
  /\ kind = "invite" /\ preview = "loading"
  /\ \A r \in requests : r.what # "preview"
  /\ FreeNumbers # {}
  /\ requests' = requests \cup {Request("preview")}
  /\ UNCHANGED <<onServer, session, page>>

\* "Signed in as the invited email: accept, exactly once."
EmailMatches == preview = "found" /\ user.of = "invitee"
MayUse == kind = "invite" => who # "none" /\ EmailMatches

\* Mutant: the page does not remember that it has sent its request.
M_FirstTime == kind = "emailChange" => ~started

\* One request per token: "a re-run of this effect - React StrictMode in dev, or user
\* being replaced by the fetchMe() that follows every sign-in - used to fire a second
\* POST whose reply overwrote the first one's success on screen".  The effect of
\* verify-email-change depends on the token alone, and runs once.
FirstTime == ~started

\* The effect runs: on mount, and when what it depends on changes.
UseLink ==
  /\ MayUse /\ FirstTime /\ FreeNumbers # {}
  /\ started' = TRUE
  /\ status' = "working"
  /\ requests' = requests \cup {Request("use")}
  /\ UNCHANGED <<onServer, session, preview, told, loads>>

\* The error view of verify-email offers another link.
Resend ==
  /\ kind = "verify" /\ status = "error" /\ who # "none"
  /\ \A r \in requests : r.what # "resend"
  /\ FreeNumbers # {}
  /\ requests' = requests \cup {Request("resend")}
  /\ UNCHANGED <<onServer, session, page>>

\* It is loaded again: the browser drops the requests, the store is rehydrated.
LoadAgain ==
  /\ loads < MaxLoads /\ loads' = loads + 1
  /\ preview' = "loading" /\ started' = FALSE /\ told' = FALSE
  /\ status' = FirstStatus(kind)
  /\ requests' = {}
  /\ UNCHANGED <<onServer, session>>
-----------------------------------------------------------------------------
(* The session, in this page and in what runs beside it. *)

\* "Sign out and continue", or the header.
Logout ==
  /\ who # "none"
  /\ who' = "none" /\ user' = Nobody
  /\ UNCHANGED <<onServer, page, requests>>

\* On the login page, which comes back here by ?redirect.
Login(as) ==
  /\ who = "none" /\ loads < MaxLoads /\ loads' = loads + 1
  /\ who' = as
  /\ user' = [of |-> as, verified |-> IF as = "invitee" THEN verified ELSE TRUE]
  /\ preview' = "loading" /\ started' = FALSE /\ told' = FALSE
  /\ status' = FirstStatus(kind)
  /\ requests' = {}
  /\ UNCHANGED onServer

\* After rehydration, a sign-in, and when the tab gets the focus back.
FetchMe ==
  /\ who # "none" /\ FreeNumbers # {}
  /\ \A r \in requests : r.what # "fetchMe"
  /\ requests' = requests \cup {Request("fetchMe")}
  /\ UNCHANGED <<onServer, session, page>>
-----------------------------------------------------------------------------
(* The server. *)

Replied(r, reply) == (requests \ {r}) \cup {[r EXCEPT !.reply = reply]}

\* It takes a link once; the newsletter's goal is reached whoever was first.
Serve(r) ==
  /\ r.reply = "none" /\ r.what = "use"
  /\ \/ /\ ~used
        /\ used' = TRUE
        /\ verified' = (verified \/ kind \in {"verify", "invite"})
        /\ requests' = Replied(r, "ok")
     \/ /\ used
        /\ requests' = Replied(r, IF kind = "newsletter" THEN "ok" ELSE "no")
        /\ UNCHANGED <<used, verified>>
  /\ UNCHANGED <<kind, session, page>>

ServePreview(r) ==
  /\ r.reply = "none" /\ r.what = "preview"
  /\ \E reply \in {"ok", "no"} : requests' = Replied(r, reply)
  /\ UNCHANGED <<onServer, session, page>>

\* What a profile or a new link is asked for depends on whose token is sent.
ServeProfile(r) ==
  /\ r.reply = "none" /\ r.what \in {"fetchMe", "resend"}
  /\ \/ requests' = Replied(r, IF r.as = "invitee" /\ ~verified THEN "unverified" ELSE "verified")
     \/ r.what = "fetchMe" /\ requests' = Replied(r, "expired")
  /\ UNCHANGED <<onServer, session, page>>

\* The address is verified some other way, or somebody opens the link elsewhere.
Elsewhere ==
  /\ verified' = TRUE
  /\ used' \in {used, TRUE}
  /\ UNCHANGED <<kind, session, page, requests>>

Lost(r) ==
  /\ r.reply # "lost"
  /\ requests' = Replied(r, "lost")
  /\ UNCHANGED <<onServer, session, page>>
-----------------------------------------------------------------------------
(* The answers. *)

\* verifyEmail, confirmEmailChange, and setSessionFromToken after an invite, take the
\* new token and the profile that comes with it.
Session(r) ==
  IF r.reply = "ok" /\ kind # "newsletter"
  THEN who' = "invitee" /\ user' = [of |-> "invitee", verified |-> TRUE]
  ELSE UNCHANGED session

\* A link that was used by something else is no failure to someone verified.
Outcome(r) ==
  CASE r.reply = "ok" -> "success"
    [] kind = "verify" /\ user.verified -> "success"
    [] OTHER -> "error"

Used(r) ==
  /\ r.what = "use" /\ r.reply \in {"ok", "no", "lost"}
  /\ requests' = requests \ {r}
  /\ Session(r)
  /\ status' = Outcome(r)
  /\ told' = (told \/ r.reply = "ok")
  /\ UNCHANGED <<onServer, preview, started, loads>>

Previewed(r) ==
  /\ r.what = "preview" /\ r.reply # "none"
  /\ requests' = requests \ {r}
  /\ preview' = IF r.reply = "ok" THEN "found" ELSE "notfound"
  /\ UNCHANGED <<onServer, session, started, status, told, loads>>

\* The profile is written, or the session ended, whoever is signed in by then.
Refreshed(r) ==
  /\ r.what = "fetchMe" /\ r.reply # "none"
  /\ requests' = requests \ {r}
  /\ CASE r.reply = "lost"    -> UNCHANGED session
       [] r.reply = "expired" -> who' = "none" /\ user' = Nobody
       [] OTHER -> user' = [of |-> r.as, verified |-> r.reply = "verified"] /\ UNCHANGED who
  /\ UNCHANGED <<onServer, page>>

\* "Already verified" is not a failure from the person's point of view.
Resent(r) ==
  /\ r.what = "resend" /\ r.reply \in {"verified", "unverified", "lost"}
  /\ requests' = requests \ {r}
  /\ status' = IF r.reply = "verified" THEN "success" ELSE status
  /\ UNCHANGED <<onServer, session, preview, started, told, loads>>
-----------------------------------------------------------------------------
LinksNext ==
  \/ AskPreview \/ UseLink \/ Resend \/ LoadAgain
  \/ Logout \/ FetchMe \/ Elsewhere
  \/ \E as \in {"invitee", "other"} : Login(as)
  \/ \E r \in requests : Serve(r)
  \/ \E r \in requests : ServePreview(r)
  \/ \E r \in requests : ServeProfile(r)
  \/ \E r \in requests : Lost(r)
  \/ \E r \in requests : Used(r)
  \/ \E r \in requests : Previewed(r)
  \/ \E r \in requests : Refreshed(r)
  \/ \E r \in requests : Resent(r)

LinksSpec == LinksInit /\ [][LinksNext]_linksVars
-----------------------------------------------------------------------------
(* Properties. *)

LinksTypeOK ==
  /\ kind \in LinkKinds /\ {used, verified, started, told} \subseteq BOOLEAN
  /\ who \in {"none", "invitee", "other"}
  /\ user \in [of : {"none", "invitee", "other"}, verified : BOOLEAN]
  /\ preview \in {"loading", "found", "notfound"}
  /\ requests \subseteq
       [id : 1..MaxRequests, what : {"preview", "use", "resend", "fetchMe"},
        as : {"none", "invitee", "other"},
        reply : {"none", "ok", "no", "verified", "unverified", "expired", "lost"}]
  /\ status \in {"idle", "working", "success", "error"}
  /\ loads \in 1..MaxLoads

\* Once the server has told the page that its link is used, the page shows success for
\* as long as it is there: no effect that runs again, no sign-in or profile that arrives
\* meanwhile, and no late answer puts an error or a spinner in its place.
SuccessIsShown == told => status = "success"
=============================================================================
