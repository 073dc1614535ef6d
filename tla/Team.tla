-------------------------------- MODULE Team --------------------------------
(****************************************************************************)
(* One team: its roster, its invites, the seats its plan allows, and the    *)
(* accounts of the people it invites (src/apps/api/teams.go,                *)
(* entitlements.go, email_change.go).                                       *)
(*                                                                          *)
(* POST /api/invites/{token}/accept reads the invite, the account, the      *)
(* membership, the plan and the number of members in statements of their    *)
(* own, and only then opens the transaction that lets the person in.  It is *)
(* one action per statement, so that anything may happen between two of     *)
(* them: another accept, a revoke, a removal, a change of role, of email or *)
(* of plan.  Creating an invite is its checks and then its INSERT.  The     *)
(* other handlers write in one statement, and what they check before it     *)
(* never changes or is checked again by it; they are one action each.       *)
(*                                                                          *)
(* The admin routes ask for the role ADMIN or OWNER.  The owner always has  *)
(* it, so which admin calls is not told apart.  Plan limits are enforced    *)
(* (PLAN_ENFORCEMENT), and nobody deletes an account.                       *)
(****************************************************************************)
EXTENDS TeamConstants

VARIABLES
  email,     \* users.email
  verified,  \* the users whose users.email_verified is TRUE
  role,      \* team_members.role, "none" for a user without a row
  plan,      \* teams.plan, as far as planIsPaid tells plans apart
  invite,    \* the invitations: [status, email, role]
  late,      \* the invites whose expires_at has passed
  call,      \* per request: the accept under way
  held,      \* history: the addresses an account has had
  proven,    \* history: the addresses whose mail the account's user has read
  allowance  \* history: members, and people being let in, at the last downgrade;
             \* 0 on a paid plan

vars == <<email, verified, role, plan, invite, late, call,
          held, proven, allowance>>

Unsent     == [status |-> "unsent"]
Idle       == [at |-> "idle"]

\* Rows of the invitations table.  A "drafted" one has passed its checks and
\* is about to be inserted; a "revoked" one is deleted.
Rows == [status : {"drafted", "PENDING", "ACCEPTED", "EXPIRED", "revoked"},
         email : Addresses, role : Assignable]

\* What handleAcceptInvite holds: who calls, with which invite, the invite's
\* status when it was read, and whether the caller was a member when looked up.
Accepts == [at : {"found", "matched", "expiring", "limiting", "counting", "admitted"},
            user : Users, invite : Invites,
            seen : {"PENDING", "ACCEPTED", "EXPIRED"},
            member : {"unknown", "yes", "no"}]

Members  == {u \in Users : role[u] # "none"}
Exists(i) == invite[i].status \in {"PENDING", "ACCEPTED", "EXPIRED"}
Pending  == {i \in Invites : invite[i].status = "PENDING"}
Reserved == Pending \ late

\* The requests that have passed the seat check and not let their caller in.
Entering == {r \in Requests : call[r].at = "admitted" /\ call[r].member = "no"}

\* handleCreateTeam made the owner a member; the veterans have joined since.
Init ==
  /\ email \in {e \in [Users -> Addresses] : \A u, v \in Users : e[u] = e[v] => u = v}
  /\ verified = {}
  /\ role = [u \in Users |-> CASE u = Owner      -> "OWNER"
                               [] u \in Veterans -> "MEMBER"
                               [] OTHER         -> "none"]
  /\ plan = "FREE"
  /\ invite = [i \in Invites |-> Unsent]
  /\ late = {}
  /\ call = [r \in Requests |-> Idle]
  /\ held = [u \in Users |-> {email[u]}]
  /\ proven = [u \in Users |-> {}]
  /\ allowance = Cardinality(Veterans) + 1

-----------------------------------------------------------------------------
(* Invites                                                                  *)

\* teamMemberCount: "a failed count reads as 0".
Counts(seats) == {Cardinality(seats)} \cup Misread

\* Mutant: a full team is let grow by one.
M_Full(taken) == taken > FreeMaxMembers

Full(taken) == taken >= FreeMaxMembers

\* handleCreateTeamInvite up to the INSERT: nobody on the team has the
\* address, no invite is pending for it, and a seat is left.
DraftInvite(i, address, as) ==
  /\ invite[i] = Unsent
  /\ \A u \in Members : email[u] # address
  /\ \A j \in Pending : invite[j].email # address
  /\ plan = "PRO" \/ \E members \in Counts(Members), reserved \in Counts(Reserved) :
                          ~Full(members + reserved)
  /\ invite' = [invite EXCEPT ![i] = [status |-> "drafted", email |-> address, role |-> as]]
  /\ UNCHANGED <<email, verified, role, plan, late, call, held, proven, allowance>>

SetStatus(i, status) ==
  invite' = [invite EXCEPT ![i] = [status |-> status, email |-> invite[i].email,
                                   role |-> invite[i].role]]

\* The INSERT, after which the link is mailed to the address.
InsertInvite(i) ==
  /\ invite[i].status = "drafted"
  /\ SetStatus(i, "PENDING")
  /\ UNCHANGED <<email, verified, role, plan, late, call, held, proven, allowance>>

\* handleRevokeTeamInvite: DELETE ... AND status = 'PENDING'
RevokeInvite(i) ==
  /\ invite[i].status = "PENDING"
  /\ SetStatus(i, "revoked")
  /\ UNCHANGED <<email, verified, role, plan, late, call, held, proven, allowance>>

\* Seven days pass.
Lapse(i) ==
  /\ Exists(i)
  /\ late' = late \cup {i}
  /\ UNCHANGED <<email, verified, role, plan, invite, call, held, proven, allowance>>

-----------------------------------------------------------------------------
(* handleAcceptInvite                                                       *)

Proceed(r, at, member) ==
  call' = [call EXCEPT ![r] = [at |-> at, user |-> call[r].user, invite |-> call[r].invite,
                               seen |-> call[r].seen, member |-> member]]

Answer(r) == call' = [call EXCEPT ![r] = Idle]

\* SELECT ... FROM invitations WHERE token = ?
FindInvite(r, u, i) ==
  /\ call[r].at = "idle"
  /\ Exists(i)
  /\ call' = [call EXCEPT ![r] = [at |-> "found", user |-> u, invite |-> i,
                                  seen |-> invite[i].status, member |-> "unknown"]]
  /\ UNCHANGED <<email, verified, role, plan, invite, late, held, proven, allowance>>

\* Mutant: whoever has the link may use it.
M_MatchAccount(r) ==
  /\ call[r].at = "found"
  /\ Proceed(r, "matched", "unknown")
  /\ UNCHANGED <<email, verified, role, plan, invite, late, held, proven, allowance>>

\* The live row of the account, not the claims of its session.
MatchAccount(r) ==
  /\ call[r].at = "found"
  /\ IF email[call[r].user] = invite[call[r].invite].email
       THEN Proceed(r, "matched", "unknown")
       ELSE Answer(r)
  /\ UNCHANGED <<email, verified, role, plan, invite, late, held, proven, allowance>>

\* The membership is read, and a query that fails finds none; then the status
\* and the time are compared.
LookUpMember(r) ==
  LET c == call[r]
  IN /\ c.at = "matched"
     /\ \E member \in {"no"} \cup (IF role[c.user] = "none" THEN {} ELSE {"yes"}) :
          \/ /\ c.seen # "PENDING"
             /\ Answer(r)
          \/ /\ c.seen = "PENDING" /\ c.invite \in late
             /\ Proceed(r, "expiring", member)
          \/ /\ c.seen = "PENDING" /\ c.invite \notin late
             /\ Proceed(r, IF member = "yes" THEN "admitted" ELSE "limiting", member)
     /\ UNCHANGED <<email, verified, role, plan, invite, late, held, proven, allowance>>

\* UPDATE invitations SET status = 'EXPIRED' WHERE id = ?
ExpireInvite(r) ==
  LET i == call[r].invite
  IN /\ call[r].at = "expiring"
     /\ SetStatus(i, IF invite[i].status = "revoked" THEN "revoked" ELSE "EXPIRED")
     /\ Answer(r)
     /\ UNCHANGED <<email, verified, role, plan, late, held, proven, allowance>>

\* memberLimitMessage(teamID, false): a paid plan has no limit, and teamPlan
\* answers FREE when its query fails ...
ReadPlan(r) ==
  /\ call[r].at = "limiting"
  /\ \/ plan = "PRO" /\ Proceed(r, "admitted", call[r].member)
     \/ Proceed(r, "counting", call[r].member)
  /\ UNCHANGED <<email, verified, role, plan, invite, late, held, proven, allowance>>

\* ... and on a free one the members are counted.
CountMembers(r) ==
  /\ call[r].at = "counting"
  /\ \E members \in Counts(Members) :
       IF Full(members)
         THEN Answer(r)
         ELSE Proceed(r, "admitted", call[r].member)
  /\ UNCHANGED <<email, verified, role, plan, invite, late, held, proven, allowance>>

\* The transaction.  The INSERT of somebody who has become a member since
\* violates UNIQUE(team_id, user_id) and rolls back; the UPDATE of an invite
\* that has been revoked since changes no row.  Nothing ever makes an account
\* unverified, so verifying one that was read as verified changes nothing.
Join(r) ==
  LET c == call[r]
  IN /\ c.at = "admitted"
     /\ c.member = "no" => role[c.user] = "none"
     /\ role' = IF c.member = "no"
                  THEN [role EXCEPT ![c.user] = invite[c.invite].role]
                  ELSE role
     /\ SetStatus(c.invite,
                  IF invite[c.invite].status = "revoked" THEN "revoked" ELSE "ACCEPTED")
     /\ verified' = verified \cup {c.user}
     /\ proven' = [proven EXCEPT ![c.user] = proven[c.user] \cup {invite[c.invite].email}]
     /\ Answer(r)
     /\ UNCHANGED <<email, plan, late, held, allowance>>

\* A statement fails, or the transaction does: the handler answers with an
\* error and has written nothing.
Fail(r) ==
  /\ call[r].at # "idle"
  /\ Answer(r)
  /\ UNCHANGED <<email, verified, role, plan, invite, late, held, proven, allowance>>

-----------------------------------------------------------------------------
(* The roster, the account, the plan                                        *)

\* Mutant: the row is written whether it exists or not.
M_ChangeRole(u, as) ==
  /\ u # Owner
  /\ role' = [role EXCEPT ![u] = as]
  /\ UNCHANGED <<email, verified, plan, invite, late, call, held, proven, allowance>>

\* handleUpdateTeamMemberRole
ChangeRole(u, as) ==
  /\ u # Owner
  /\ u \in Members
  /\ role' = [role EXCEPT ![u] = as]
  /\ UNCHANGED <<email, verified, plan, invite, late, call, held, proven, allowance>>

\* handleRemoveTeamMember
RemoveMember(u) ==
  /\ u # Owner
  /\ u \in Members
  /\ role' = [role EXCEPT ![u] = "none"]
  /\ UNCHANGED <<email, verified, plan, invite, late, call, held, proven, allowance>>

\* handleConfirmEmailChange, with the link that was mailed to the new address.
ChangeEmail(u, address) ==
  /\ \A v \in Users : email[v] # address
  /\ email' = [email EXCEPT ![u] = address]
  /\ verified' = verified \cup {u}
  /\ held' = [held EXCEPT ![u] = held[u] \cup {address}]
  /\ proven' = [proven EXCEPT ![u] = proven[u] \cup {address}]
  /\ UNCHANGED <<role, plan, invite, late, call, allowance>>

\* handlePaddleWebhook writes the team's plan: a subscription starts ...
Upgrade ==
  /\ plan = "FREE"
  /\ plan' = "PRO"
  /\ allowance' = 0
  /\ UNCHANGED <<email, verified, role, invite, late, call, held, proven>>

\* ... or ends.  Nobody is removed.
Downgrade ==
  /\ plan = "PRO"
  /\ plan' = "FREE"
  /\ allowance' = Cardinality(Members) + Cardinality(Entering)
  /\ UNCHANGED <<email, verified, role, invite, late, call, held, proven>>

InviteStep ==
  \E i \in Invites :
    \/ \E address \in Addresses, as \in Assignable : DraftInvite(i, address, as)
    \/ InsertInvite(i)
    \/ RevokeInvite(i)
    \/ Lapse(i)

AcceptStep ==
  \E r \in Requests :
    \/ \E u \in Users, i \in Invites : FindInvite(r, u, i)
    \/ MatchAccount(r)
    \/ LookUpMember(r)
    \/ ExpireInvite(r)
    \/ ReadPlan(r)
    \/ CountMembers(r)
    \/ Join(r)
    \/ Fail(r)

RosterStep ==
  \/ \E u \in Users, as \in Assignable : ChangeRole(u, as)
  \/ \E u \in Users : RemoveMember(u)
  \/ \E u \in Movers, address \in Addresses : ChangeEmail(u, address)
  \/ Upgrade
  \/ Downgrade

Next == InviteStep \/ AcceptStep \/ RosterStep

Spec == Init /\ [][Next]_vars

-----------------------------------------------------------------------------
(* Properties                                                               *)

AccountType ==
  /\ email \in [Users -> Addresses]
  /\ verified \subseteq Users
  /\ held \in [Users -> SUBSET Addresses]
  /\ proven \in [Users -> SUBSET Addresses]

RosterType ==
  /\ role \in [Users -> {"OWNER", "none"} \cup Assignable]
  /\ \A u \in Users : role[u] = "OWNER" <=> u = Owner
  /\ plan \in {"FREE", "PRO"}
  /\ allowance \in Nat

\* An accept that has read its invite holds one that was inserted.
CallType ==
  /\ invite \in [Invites -> {Unsent} \cup Rows]
  /\ late \subseteq Invites
  /\ call \in [Requests -> {Idle} \cup Accepts]
  /\ \A r \in Requests :
       call[r] # Idle => invite[call[r].invite].status \notin {"unsent", "drafted"}

\* Type invariant.  The owner, and nobody else, has the role OWNER.
TypeOK == AccountType /\ RosterType /\ CallType

\* A free team may pass its limit, since accepts count before they insert, but
\* by fewer seats than there are accepts at a time; only a team that was
\* downgraded may be larger, and then it does not grow.  With one accept at a
\* time this is the documented limit (entitlements.go: "at most 3 members").
\* A count that fails lets its accept through.
OverrunIsBounded ==
  plan = "FREE" /\ Misread = {} =>
    \/ Cardinality(Members) < FreeMaxMembers + Cardinality(Requests)
    \/ Cardinality(Members) <= allowance

\* Whoever becomes a member had an invite to an address of theirs, and gets the
\* role of that invite, whatever happened while they were accepting: the live
\* account is compared, not the session's claims (handleAcceptInvite).
Invited ==
  \A u \in Users : role[u] = "none" /\ role'[u] # "none" =>
    \E i \in Invites : /\ invite[i].status \notin {"unsent", "drafted"}
                        /\ invite[i].email \in held[u]
                        /\ invite[i].role = role'[u]

MembersWereInvited == [][Invited]_vars

\* An account is verified only for an address at which its user has read a
\* mail: accepting marks the account verified although its address may have
\* changed since it was compared with the invite's (handleAcceptInvite).
VerifiedIsProven == \A u \in verified : email[u] \in proven[u]
=============================================================================
