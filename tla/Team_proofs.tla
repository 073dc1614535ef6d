----------------------------- MODULE Team_proofs -----------------------------
(****************************************************************************)
(* Proofs about Team.                                                       *)
(*                                                                          *)
(* The seats: the members and the people being let in are counted together. *)
(* A count that passes finds fewer members than the limit, and at most all  *)
(* the requests are letting somebody in; a join moves one person from the   *)
(* second number to the first.                                              *)
(*                                                                          *)
(* The accounts: what MatchAccount compared stays true in a weaker form.    *)
(* The caller has had the invite's address, and either still has it or has  *)
(* been verified for the next one.                                          *)
(****************************************************************************)
EXTENDS Team, FiniteSetTheorems, TLAPS

Crowd == Cardinality(Members) + Cardinality(Entering)

SeatsInv ==
  plan = "FREE" /\ Misread = {} =>
    \/ Crowd < FreeMaxMembers + Cardinality(Requests)
    \/ Crowd <= allowance

Matched(r) == call[r] # Idle /\ call[r].at # "found"

AccountInv ==
  /\ \A u \in Users : email[u] \in held[u]
  /\ VerifiedIsProven
  /\ \A r \in Requests :
       Matched(r) =>
         /\ invite[call[r].invite].email \in held[call[r].user]
         /\ \/ email[call[r].user] = invite[call[r].invite].email
            \/ call[r].user \in verified

USE TeamAssumption

-----------------------------------------------------------------------------
(* Types                                                                    *)

LEMMA TypeInit == Init => TypeOK
<1> SUFFICES ASSUME Init PROVE TypeOK
  OBVIOUS
<1>1. AccountType
  BY DEF Init, AccountType
<1>2. RosterType
  <2>1. Veterans \subseteq Users /\ IsFiniteSet(Veterans)
    BY FS_Subset
  <2>2. Cardinality(Veterans) \in Nat
    BY <2>1, FS_CardinalityType
  <2> QED
    BY <2>2 DEF Init, RosterType
<1>3. CallType
  BY DEF Init, CallType
<1> QED
  BY <1>1, <1>2, <1>3 DEF TypeOK

\* The members, and those who are being let in, are finitely many.
LEMMA CrowdIsFinite ==
  /\ IsFiniteSet(Members) /\ Cardinality(Members) \in Nat
  /\ IsFiniteSet(Entering) /\ Cardinality(Entering) \in Nat
  /\ Cardinality(Entering) <= Cardinality(Requests)
  /\ Cardinality(Requests) \in Nat
<1>1. Members \subseteq Users /\ Entering \subseteq Requests
  BY DEF Members, Entering
<1> QED
  BY <1>1, FS_Subset, FS_CardinalityType

\* A row that has been drafted is not Unsent, and SetStatus keeps its address
\* and its role.
LEMMA StatusOnly ==
  ASSUME CallType, NEW i \in Invites, invite[i].status # "unsent",
         NEW s \in {"PENDING", "ACCEPTED", "EXPIRED", "revoked"}, SetStatus(i, s)
  PROVE  /\ invite' \in [Invites -> {Unsent} \cup Rows]
         /\ \A j \in Invites : invite[j].status # "unsent" =>
              /\ invite'[j].status # "unsent"
              /\ invite'[j].email = invite[j].email
              /\ invite'[j].role = invite[j].role
              /\ invite[j].status # "drafted" => invite'[j].status # "drafted"
<1>1. invite[i] \in Rows
  BY DEF CallType, Unsent
<1>2. [status |-> s, email |-> invite[i].email, role |-> invite[i].role] \in Rows
  BY <1>1 DEF Rows
<1> QED
  BY <1>1, <1>2 DEF SetStatus, CallType

\* A request that proceeds or answers has a well-typed state again.
LEMMA CallStep ==
  ASSUME CallType, NEW r \in Requests, call[r] # Idle,
         NEW at \in {"matched", "expiring", "limiting", "counting", "admitted"},
         NEW member \in {"unknown", "yes", "no"},
         Answer(r) \/ Proceed(r, at, member)
  PROVE  /\ call' \in [Requests -> {Idle} \cup Accepts]
         /\ \A q \in Requests : call'[q] # Idle =>
              /\ call[q] # Idle
              /\ call'[q].user = call[q].user /\ call'[q].invite = call[q].invite
         /\ \A q \in Requests \ {r} : call'[q] = call[q]
<1>1. call[r] \in Accepts
  BY DEF CallType
<1>2. [at |-> at, user |-> call[r].user, invite |-> call[r].invite,
       seen |-> call[r].seen, member |-> member] \in Accepts
  BY <1>1 DEF Accepts
<1>3. CASE Answer(r)
  BY <1>3 DEF Answer, CallType
<1>4. CASE Proceed(r, at, member)
  BY <1>4, <1>1, <1>2 DEF Proceed, CallType
<1> QED
  BY <1>3, <1>4

LEMMA TypeNext == TypeOK /\ [Next]_vars => TypeOK'
<1> SUFFICES ASSUME TypeOK, [Next]_vars PROVE TypeOK'
  OBVIOUS
<1> USE DEF TypeOK, AccountType, RosterType, CallType
<1>t. CallType /\ Cardinality(Members) + Cardinality(Entering) \in Nat
  BY CrowdIsFinite
<1>1. ASSUME NEW i \in Invites, NEW a \in Addresses, NEW as \in Assignable, DraftInvite(i, a, as)
      PROVE  TypeOK'
  <2>1. [status |-> "drafted", email |-> a, role |-> as] \in Rows
    BY DEF Rows
  <2>2. invite' \in [Invites -> {Unsent} \cup Rows]
    BY <1>1, <2>1 DEF DraftInvite
  <2>3. \A j \in Invites : invite[j].status \notin {"unsent", "drafted"} => invite'[j] = invite[j]
    <3>1. invite[i].status = "unsent"
      BY <1>1 DEF DraftInvite, Unsent
    <3>2. \A j \in Invites \ {i} : invite'[j] = invite[j]
      BY <1>1 DEF DraftInvite
    <3> QED
      BY <3>1, <3>2
  <2>4. \A r \in Requests : call[r] # Idle => call[r].invite \in Invites
    BY DEF Accepts
  <2> QED
    BY <1>1, <2>2, <2>3, <2>4 DEF DraftInvite
<1>2. ASSUME NEW i \in Invites, InsertInvite(i) \/ RevokeInvite(i)
      PROVE  TypeOK'
  <2>1. PICK s \in {"PENDING", "revoked"} : SetStatus(i, s)
    BY <1>2 DEF InsertInvite, RevokeInvite
  <2>2. invite[i].status # "unsent"
    BY <1>2 DEF InsertInvite, RevokeInvite
  <2>3. /\ invite' \in [Invites -> {Unsent} \cup Rows]
        /\ \A j \in Invites : invite[j].status \notin {"unsent", "drafted"} =>
             invite'[j].status \notin {"unsent", "drafted"}
    BY <1>t, <2>1, <2>2, StatusOnly
  <2>4. \A r \in Requests : call[r] # Idle => call[r].invite \in Invites
    BY DEF Accepts
  <2> QED
    BY <1>2, <2>3, <2>4 DEF InsertInvite, RevokeInvite
<1>3. ASSUME NEW i \in Invites, Lapse(i) PROVE TypeOK'
  BY <1>3 DEF Lapse
<1>4. ASSUME NEW r \in Requests, NEW u \in Users, NEW i \in Invites, FindInvite(r, u, i)
      PROVE  TypeOK'
  <2>1. [at |-> "found", user |-> u, invite |-> i, seen |-> invite[i].status,
         member |-> "unknown"] \in Accepts
    BY <1>4 DEF FindInvite, Exists, Accepts
  <2>2. invite[i].status \notin {"unsent", "drafted"}
    BY <1>4 DEF FindInvite, Exists
  <2> QED
    BY <1>4, <2>1, <2>2 DEF FindInvite
<1>5. ASSUME NEW r \in Requests,
             \/ MatchAccount(r) \/ LookUpMember(r) \/ ReadPlan(r) \/ CountMembers(r) \/ Fail(r)
      PROVE  TypeOK'
  <2>1. call[r] # Idle
    BY <1>5 DEF MatchAccount, LookUpMember, ReadPlan, CountMembers, Fail, Idle
  <2>2. call[r].member \in {"unknown", "yes", "no"}
    BY <2>1 DEF Accepts
  <2>3. \E at \in {"matched", "expiring", "limiting", "counting", "admitted"},
            member \in {"unknown", "yes", "no"} : Answer(r) \/ Proceed(r, at, member)
    <3>1. CASE MatchAccount(r)
      BY <3>1 DEF MatchAccount
    <3>2. CASE LookUpMember(r)
      BY <3>2 DEF LookUpMember
    <3>3. CASE ReadPlan(r)
      BY <3>3, <2>2 DEF ReadPlan
    <3>4. CASE CountMembers(r)
      BY <3>4, <2>2 DEF CountMembers
    <3>5. CASE Fail(r)
      BY <3>5 DEF Fail
    <3> QED
      BY <1>5, <3>1, <3>2, <3>3, <3>4, <3>5
  <2>4. /\ call' \in [Requests -> {Idle} \cup Accepts]
        /\ \A q \in Requests : call'[q] # Idle =>
             call[q] # Idle /\ call'[q].invite = call[q].invite
    BY <1>t, <2>1, <2>3, CallStep
  <2>5. UNCHANGED <<email, verified, role, plan, invite, late, held, proven, allowance>>
    BY <1>5 DEF MatchAccount, LookUpMember, ReadPlan, CountMembers, Fail
  <2> QED
    BY <2>4, <2>5
<1>6. ASSUME NEW r \in Requests, ExpireInvite(r) \/ Join(r) PROVE TypeOK'
  <2>1. call[r] # Idle /\ call[r] \in Accepts
    BY <1>6 DEF ExpireInvite, Join, Idle
  <2>2. /\ call[r].user \in Users /\ call[r].invite \in Invites
        /\ invite[call[r].invite].status \notin {"unsent", "drafted"}
        /\ invite[call[r].invite] \in Rows
    BY <2>1 DEF Accepts, Unsent
  <2>3. PICK s \in {"PENDING", "ACCEPTED", "EXPIRED", "revoked"} : SetStatus(call[r].invite, s)
    BY <1>6 DEF ExpireInvite, Join
  <2>4. /\ invite' \in [Invites -> {Unsent} \cup Rows]
        /\ \A j \in Invites : invite[j].status \notin {"unsent", "drafted"} =>
             invite'[j].status \notin {"unsent", "drafted"}
    BY <1>t, <2>2, <2>3, StatusOnly
  <2>5. call' = [call EXCEPT ![r] = Idle]
    BY <1>6 DEF ExpireInvite, Join, Answer
  <2>6. CallType'
    <3>1. \A q \in Requests : call'[q] # Idle => call'[q] = call[q] /\ call[q].invite \in Invites
      BY <2>5 DEF Accepts
    <3>2. late' = late /\ call' \in [Requests -> {Idle} \cup Accepts]
      BY <1>6, <2>5 DEF ExpireInvite, Join
    <3> QED
      BY <2>4, <3>1, <3>2
  <2>7. RosterType'
    <3>1. invite[call[r].invite].role \in Assignable
      BY <2>2 DEF Rows
    <3> QED
      BY <1>6, <2>2, <3>1 DEF ExpireInvite, Join, Rows
  <2>8. AccountType'
    <3>1. invite[call[r].invite].email \in Addresses
      BY <2>2 DEF Rows
    <3> QED
      BY <1>6, <2>2, <3>1 DEF ExpireInvite, Join
  <2> QED
    BY <2>6, <2>7, <2>8
<1>7. ASSUME NEW u \in Users, NEW as \in Assignable, ChangeRole(u, as) PROVE TypeOK'
  BY <1>7 DEF ChangeRole
<1>8. ASSUME NEW u \in Users, RemoveMember(u) PROVE TypeOK'
  BY <1>8 DEF RemoveMember
<1>9. ASSUME NEW u \in Movers, NEW a \in Addresses, ChangeEmail(u, a) PROVE TypeOK'
  BY <1>9 DEF ChangeEmail
<1>10. CASE Upgrade
  BY <1>10 DEF Upgrade
<1>11. CASE Downgrade
  BY <1>11, <1>t DEF Downgrade
<1>12. CASE UNCHANGED vars
  BY <1>12 DEF vars
<1> QED
  BY <1>1, <1>2, <1>3, <1>4, <1>5, <1>6, <1>7, <1>8, <1>9, <1>10, <1>11, <1>12
     DEF Next, InviteStep, AcceptStep, RosterStep

\* Type correctness, for any number of users, invites and requests.
THEOREM TypeCorrect == Spec => []TypeOK
  BY TypeInit, TypeNext, PTL DEF Spec

-----------------------------------------------------------------------------
(* Seats                                                                    *)

LEMMA SeatsInit == Init => SeatsInv
<1> SUFFICES ASSUME Init PROVE SeatsInv
  OBVIOUS
<1>1. Members = Veterans \cup {Owner} /\ Owner \notin Veterans
  BY DEF Init, Members
<1>2. IsFiniteSet(Veterans) /\ Cardinality(Veterans) \in Nat
  BY FS_Subset, FS_CardinalityType
<1>3. Cardinality(Members) = Cardinality(Veterans) + 1
  BY <1>1, <1>2, FS_AddElement
<1>4. Entering = {}
  BY DEF Init, Entering, Idle
<1> QED
  BY <1>2, <1>3, <1>4, FS_EmptySet DEF Init, SeatsInv, Crowd

\* Nothing is lost when nobody joins and no more are let in.
LEMMA SeatsKept ==
  ASSUME TypeOK, SeatsInv, Members' \subseteq Members, Entering' \subseteq Entering,
         UNCHANGED <<plan, allowance>>
  PROVE  SeatsInv'
<1>1. /\ Cardinality(Members') <= Cardinality(Members)
      /\ Cardinality(Entering') <= Cardinality(Entering)
      /\ Cardinality(Members') \in Nat /\ Cardinality(Entering') \in Nat
  BY CrowdIsFinite, FS_Subset, FS_CardinalityType
<1> QED
  BY <1>1, CrowdIsFinite DEF SeatsInv, Crowd, TypeOK, RosterType

LEMMA SeatsNext == TypeOK /\ SeatsInv /\ [Next]_vars => SeatsInv'
<1> SUFFICES ASSUME TypeOK, SeatsInv, [Next]_vars PROVE SeatsInv'
  OBVIOUS
<1>r. \A q \in Requests : call[q] = Idle \/ call[q] \in Accepts
  BY DEF TypeOK, CallType
<1>1. ASSUME UNCHANGED <<role, call, plan, allowance>> PROVE SeatsInv'
  <2>1. Members' = Members /\ Entering' = Entering
    BY <1>1 DEF Members, Entering
  <2> QED
    BY <1>1, <2>1, SeatsKept
<1>2. ASSUME NEW r \in Requests, NEW next,
             call' = [call EXCEPT ![r] = next], next.at # "admitted" \/ next.member # "no",
             UNCHANGED <<role, plan, allowance>>
      PROVE  SeatsInv'
  <2>1. Members' = Members
    BY <1>2 DEF Members
  <2>2. Entering' \subseteq Entering
    BY <1>2 DEF Entering, TypeOK, CallType
  <2> QED
    BY <1>2, <2>1, <2>2, SeatsKept
<1>3. ASSUME NEW r \in Requests, NEW u \in Users, NEW i \in Invites, FindInvite(r, u, i)
      PROVE  SeatsInv'
  BY <1>2, <1>3 DEF FindInvite
<1>4. ASSUME NEW r \in Requests, UNCHANGED <<role, plan, allowance>>,
             \/ Answer(r)
             \/ \E at \in {"matched", "expiring", "limiting", "counting"},
                   m \in {"unknown", "yes", "no"} : Proceed(r, at, m)
             \/ Proceed(r, "admitted", "yes")
      PROVE  SeatsInv'
  <2>1. CASE Answer(r)
    BY <1>2, <1>4, <2>1 DEF Answer, Idle
  <2>2. CASE \E at \in {"matched", "expiring", "limiting", "counting"},
                m \in {"unknown", "yes", "no"} : Proceed(r, at, m)
    BY <1>2, <1>4, <2>2 DEF Proceed
  <2>3. CASE Proceed(r, "admitted", "yes")
    BY <1>2, <1>4, <2>3 DEF Proceed
  <2> QED
    BY <1>4, <2>1, <2>2, <2>3
<1>5. ASSUME NEW r \in Requests, MatchAccount(r) \/ LookUpMember(r) \/ ExpireInvite(r) \/ Fail(r)
      PROVE  SeatsInv'
  <2>1. CASE MatchAccount(r)
    BY <1>4, <2>1 DEF MatchAccount
  <2>2. CASE LookUpMember(r)
    BY <1>4, <2>2 DEF LookUpMember
  <2>3. CASE ExpireInvite(r)
    BY <1>4, <2>3 DEF ExpireInvite
  <2>4. CASE Fail(r)
    BY <1>4, <2>4 DEF Fail
  <2> QED
    BY <1>5, <2>1, <2>2, <2>3, <2>4
<1>6. ASSUME NEW r \in Requests, ReadPlan(r) PROVE SeatsInv'
  <2>1. CASE plan = "PRO"
    BY <1>6, <2>1 DEF ReadPlan, SeatsInv
  <2>2. CASE Proceed(r, "counting", call[r].member)
    <3>1. call[r].member \in {"unknown", "yes", "no"}
      <4>1. call[r] # Idle
        BY <1>6 DEF ReadPlan, Idle
      <4>2. call[r] \in Accepts
        BY <1>r, <4>1
      <4> QED
        BY <4>2 DEF Accepts
    <3> QED
      BY <1>4, <1>6, <2>2, <3>1 DEF ReadPlan
  <2> QED
    BY <1>6, <2>1, <2>2 DEF ReadPlan
<1>7. ASSUME NEW r \in Requests, CountMembers(r) PROVE SeatsInv'
  <2>1. CASE Answer(r)
    BY <1>4, <1>7, <2>1 DEF CountMembers
  <2>2. CASE ~Answer(r)
    <3> SUFFICES ASSUME Misread = {} PROVE SeatsInv'
      BY DEF SeatsInv
    <3>1. ~Full(Cardinality(Members))
      BY <1>7, <2>2 DEF CountMembers, Counts
    <3>2. Members' = Members
      BY <1>7 DEF CountMembers, Members
    <3>3. Cardinality(Members) < FreeMaxMembers
      BY <3>1, CrowdIsFinite DEF Full
    <3>4. Entering' \subseteq Requests
      BY DEF Entering
    <3>5. Cardinality(Entering') \in Nat /\ Cardinality(Entering') <= Cardinality(Requests)
      BY <3>4, FS_Subset, FS_CardinalityType
    <3> QED
      BY <3>2, <3>3, <3>5, CrowdIsFinite DEF SeatsInv, Crowd
  <2> QED
    BY <2>1, <2>2
<1>8. ASSUME NEW r \in Requests, Join(r) PROVE SeatsInv'
  <2>1. call[r] # Idle /\ call[r].user \in Users /\ UNCHANGED <<plan, allowance>>
    <3>1. call[r].at = "admitted" /\ UNCHANGED <<plan, allowance>>
      BY <1>8 DEF Join
    <3>2. call[r] # Idle
      BY <3>1 DEF Idle
    <3>3. call[r] \in Accepts
      BY <1>r, <3>2
    <3> QED
      BY <3>1, <3>2, <3>3 DEF Accepts
  <2>2. call' = [call EXCEPT ![r] = Idle] /\ call \in [Requests -> {Idle} \cup Accepts]
    BY <1>8 DEF Join, Answer, TypeOK, CallType
  <2>3. Entering' = Entering \ {r}
    BY <2>2 DEF Entering, Idle
  <2>4. CASE call[r].member # "no"
    BY <1>8, <2>1, <2>3, <2>4, SeatsKept DEF Join, Members
  <2>5. CASE call[r].member = "no"
    <3>1. r \in Entering
      BY <1>8, <2>5 DEF Join, Entering
    <3>2. Members' \subseteq Members \cup {call[r].user}
      BY <1>8, <2>1, <2>5 DEF Join, Members, TypeOK, RosterType
    <3>3. /\ IsFiniteSet(Members \cup {call[r].user})
          /\ Cardinality(Members \cup {call[r].user}) <= Cardinality(Members) + 1
      <4>1. /\ IsFiniteSet(Members \cup {call[r].user})
            /\ Cardinality(Members \cup {call[r].user}) =
                 IF call[r].user \in Members THEN Cardinality(Members)
                                             ELSE Cardinality(Members) + 1
        BY CrowdIsFinite, FS_AddElement, Zenon
      <4> QED
        BY <4>1, CrowdIsFinite
    <3>4. Cardinality(Members') \in Nat /\ Cardinality(Members') <= Cardinality(Members) + 1
      <4>1. /\ Cardinality(Members') <= Cardinality(Members \cup {call[r].user})
            /\ IsFiniteSet(Members')
        BY <3>2, <3>3, FS_Subset
      <4>2. Cardinality(Members') \in Nat /\ Cardinality(Members \cup {call[r].user}) \in Nat
        BY <3>3, <4>1, FS_CardinalityType
      <4> QED
        BY <3>3, <4>1, <4>2, CrowdIsFinite
    <3>5. Cardinality(Entering') = Cardinality(Entering) - 1
      BY <2>3, <3>1, CrowdIsFinite, FS_RemoveElement
    <3> QED
      BY <2>1, <3>4, <3>5, CrowdIsFinite DEF SeatsInv, Crowd, TypeOK, RosterType
  <2> QED
    BY <2>4, <2>5
<1>9. ASSUME NEW u \in Users, RemoveMember(u) \/ (\E as \in Assignable : ChangeRole(u, as))
      PROVE  SeatsInv'
  <2>1. Members' \subseteq Members /\ UNCHANGED <<call, plan, allowance>>
    BY <1>9 DEF RemoveMember, ChangeRole, Members, TypeOK, RosterType
  <2> QED
    BY <2>1, SeatsKept DEF Entering
<1>10. CASE Upgrade
  BY <1>10 DEF Upgrade, SeatsInv
<1>11. CASE Downgrade
  <2>1. Members' = Members /\ Entering' = Entering
    BY <1>11 DEF Downgrade, Members, Entering
  <2> QED
    BY <1>11, <2>1, CrowdIsFinite DEF Downgrade, SeatsInv, Crowd
<1>12. ASSUME NEW i \in Invites,
              \/ \E a \in Addresses, as \in Assignable : DraftInvite(i, a, as)
              \/ InsertInvite(i) \/ RevokeInvite(i) \/ Lapse(i)
       PROVE  SeatsInv'
  BY <1>1, <1>12 DEF DraftInvite, InsertInvite, RevokeInvite, Lapse
<1>13. ASSUME NEW u \in Movers, NEW a \in Addresses, ChangeEmail(u, a) PROVE SeatsInv'
  BY <1>1, <1>13 DEF ChangeEmail
<1>14. CASE UNCHANGED vars
  BY <1>1, <1>14 DEF vars
<1> QED
  BY <1>3, <1>5, <1>6, <1>7, <1>8, <1>9, <1>10, <1>11, <1>12, <1>13, <1>14
     DEF Next, InviteStep, AcceptStep, RosterStep

LEMMA SeatsWithin == TypeOK /\ SeatsInv => OverrunIsBounded
  BY CrowdIsFinite DEF SeatsInv, Crowd, OverrunIsBounded, TypeOK, RosterType

\* However many accepts run at a time, they take fewer seats beyond the free
\* limit than there are of them.
THEOREM SeatsBounded == Spec => []OverrunIsBounded
  BY SeatsWithin, TypeInit, TypeNext, SeatsInit, SeatsNext, PTL DEF Spec

-----------------------------------------------------------------------------
(* Accounts                                                                 *)

LEMMA AccountInit == Init => AccountInv
  BY DEF Init, AccountInv, VerifiedIsProven, Matched

\* A step that changes no account, and no address of an invite that exists,
\* and that lets no request past the comparison.
LEMMA AccountKept ==
  ASSUME TypeOK, AccountInv, UNCHANGED <<email, verified, held, proven>>,
         \A i \in Invites : invite[i].status # "unsent" => invite'[i].email = invite[i].email,
         \A r \in Requests : Matched(r)' => /\ Matched(r)
                                            /\ call'[r].user = call[r].user
                                            /\ call'[r].invite = call[r].invite
  PROVE  AccountInv'
<1>1. \A r \in Requests : Matched(r) => /\ call[r].invite \in Invites
                                        /\ invite[call[r].invite].status # "unsent"
  <2> SUFFICES ASSUME NEW r \in Requests, Matched(r)
               PROVE  /\ call[r].invite \in Invites
                      /\ invite[call[r].invite].status # "unsent"
    OBVIOUS
  <2>1. call[r] # Idle
    BY DEF Matched
  <2>2. call[r] \in Accepts
    BY <2>1 DEF TypeOK, CallType
  <2> QED
    BY <2>1, <2>2 DEF TypeOK, CallType, Accepts
<1>2. ASSUME NEW r \in Requests, Matched(r)'
      PROVE  /\ invite'[call'[r].invite].email \in held'[call'[r].user]
             /\ \/ email'[call'[r].user] = invite'[call'[r].invite].email
                \/ call'[r].user \in verified'
  <2>1. Matched(r) /\ call'[r].user = call[r].user /\ call'[r].invite = call[r].invite
    BY <1>2
  <2>2. invite'[call[r].invite].email = invite[call[r].invite].email
    BY <1>1, <2>1
  <2> QED
    BY <2>1, <2>2 DEF AccountInv
<1>3. (\A u \in Users : email[u] \in held[u])' /\ VerifiedIsProven'
  BY DEF AccountInv, VerifiedIsProven
<1> QED
  BY <1>2, <1>3 DEF AccountInv

LEMMA AccountNext == TypeOK /\ AccountInv /\ [Next]_vars => AccountInv'
<1> SUFFICES ASSUME TypeOK, AccountInv, [Next]_vars PROVE AccountInv'
  OBVIOUS
<1>t. CallType /\ AccountType
  BY DEF TypeOK
<1>r. \A q \in Requests : call[q] = Idle \/ call[q] \in Accepts
  BY DEF TypeOK, CallType
<1>0. ASSUME NEW r \in Requests, call[r] # Idle
      PROVE  /\ call[r].user \in Users /\ call[r].invite \in Invites
             /\ invite[call[r].invite].status # "unsent"
             /\ invite[call[r].invite].email \in Addresses
  <2>1. call[r] \in Accepts
    BY <1>r, <1>0
  <2>2. call[r].user \in Users /\ call[r].invite \in Invites
    BY <2>1 DEF Accepts
  <2>3. invite[call[r].invite].status # "unsent"
    BY <1>0, <1>t DEF CallType
  <2>4. invite[call[r].invite] \in Rows
    BY <1>t, <2>2, <2>3 DEF CallType, Unsent
  <2> QED
    BY <2>2, <2>3, <2>4 DEF Rows
<1>1. ASSUME UNCHANGED <<email, verified, held, proven, invite, call>> PROVE AccountInv'
  <2>1. \A r \in Requests : Matched(r)' => Matched(r)
    BY <1>1 DEF Matched
  <2> QED
    BY <1>1, <2>1, AccountKept
<1>2. ASSUME NEW i \in Invites, NEW a \in Addresses, NEW as \in Assignable, DraftInvite(i, a, as)
      PROVE  AccountInv'
  <2>1. \A j \in Invites : invite[j].status # "unsent" => invite'[j].email = invite[j].email
    <3>1. invite[i].status = "unsent"
      BY <1>2 DEF DraftInvite, Unsent
    <3>2. \A j \in Invites \ {i} : invite'[j] = invite[j]
      BY <1>2, <1>t DEF DraftInvite, CallType
    <3> QED
      BY <3>1, <3>2
  <2>2. UNCHANGED <<email, verified, held, proven, call>>
    BY <1>2 DEF DraftInvite
  <2>3. \A r \in Requests : Matched(r)' => Matched(r)
    BY <2>2 DEF Matched
  <2> QED
    BY <2>1, <2>2, <2>3, AccountKept
<1>3. ASSUME NEW i \in Invites, InsertInvite(i) \/ RevokeInvite(i) PROVE AccountInv'
  <2>1. PICK s \in {"PENDING", "revoked"} : SetStatus(i, s)
    BY <1>3 DEF InsertInvite, RevokeInvite
  <2>2. invite[i].status # "unsent"
    BY <1>3 DEF InsertInvite, RevokeInvite
  <2>3. \A j \in Invites : invite[j].status # "unsent" => invite'[j].email = invite[j].email
    BY <1>t, <2>1, <2>2, StatusOnly
  <2>4. UNCHANGED <<email, verified, held, proven, call>>
    BY <1>3 DEF InsertInvite, RevokeInvite
  <2>5. \A r \in Requests : Matched(r)' => Matched(r)
    BY <2>4 DEF Matched
  <2> QED
    BY <2>3, <2>4, <2>5, AccountKept
<1>4. ASSUME NEW i \in Invites, Lapse(i) PROVE AccountInv'
  BY <1>1, <1>4 DEF Lapse
<1>5. ASSUME NEW r \in Requests, NEW u \in Users, NEW i \in Invites, FindInvite(r, u, i)
      PROVE  AccountInv'
  <2>1. \A q \in Requests : Matched(q)' => Matched(q) /\ call'[q] = call[q]
    BY <1>5, <1>t DEF FindInvite, Matched, CallType
  <2> QED
    BY <1>5, <2>1, AccountKept DEF FindInvite
<1>6. ASSUME NEW r \in Requests, MatchAccount(r) PROVE AccountInv'
  <2>1. call[r] # Idle /\ UNCHANGED <<email, verified, held, proven, invite>>
    BY <1>6 DEF MatchAccount, Idle
  <2>2. CASE Answer(r)
    <3>1. \A q \in Requests : Matched(q)' => Matched(q) /\ call'[q] = call[q]
      BY <2>2, <1>t DEF Answer, Matched, CallType
    <3> QED
      BY <2>1, <3>1, AccountKept
  <2>3. CASE ~Answer(r)
    <3>1. /\ Proceed(r, "matched", "unknown")
          /\ email[call[r].user] = invite[call[r].invite].email
      BY <1>6, <2>3 DEF MatchAccount
    <3>2. /\ call'[r].user = call[r].user /\ call'[r].invite = call[r].invite
          /\ \A q \in Requests \ {r} : call'[q] = call[q]
      BY <3>1, <1>t DEF Proceed, CallType
    <3>3. call[r].user \in Users
      BY <1>0, <2>1
    <3>4. \A q \in Requests \ {r} : Matched(q)' => Matched(q)
      BY <3>2 DEF Matched
    <3> QED
      BY <2>1, <3>1, <3>2, <3>3, <3>4 DEF AccountInv, VerifiedIsProven
  <2> QED
    BY <2>2, <2>3
<1>7. ASSUME NEW r \in Requests,
             LookUpMember(r) \/ ReadPlan(r) \/ CountMembers(r) \/ Fail(r)
      PROVE  AccountInv'
  <2>1. call[r] # Idle /\ UNCHANGED <<email, verified, held, proven, invite>>
    BY <1>7 DEF LookUpMember, ReadPlan, CountMembers, Fail, Idle
  <2>2. CASE Answer(r)
    <3>1. \A q \in Requests : Matched(q)' => Matched(q) /\ call'[q] = call[q]
      BY <2>2, <1>t DEF Answer, Matched, CallType
    <3> QED
      BY <2>1, <3>1, AccountKept
  <2>3. CASE ~Answer(r)
    <3>1. call[r].at # "found"
      BY <1>7, <2>3 DEF LookUpMember, ReadPlan, CountMembers, Fail
    <3>2. Matched(r)
      BY <2>1, <3>1 DEF Matched
    <3>3. \E at \in {"expiring", "limiting", "counting", "admitted"}, m \in {"yes", "no", call[r].member} :
             Proceed(r, at, m)
      <4>1. CASE LookUpMember(r)
        BY <2>3, <4>1 DEF LookUpMember
      <4>2. CASE ReadPlan(r)
        BY <2>3, <4>2 DEF ReadPlan
      <4>3. CASE CountMembers(r)
        BY <2>3, <4>3 DEF CountMembers
      <4> QED
        BY <1>7, <2>3, <4>1, <4>2, <4>3 DEF Fail
    <3>4. /\ call'[r].user = call[r].user /\ call'[r].invite = call[r].invite
          /\ \A q \in Requests \ {r} : call'[q] = call[q]
      BY <3>3, <1>t DEF Proceed, CallType
    <3>5. \A q \in Requests : Matched(q)' => /\ Matched(q)
                                             /\ call'[q].user = call[q].user
                                             /\ call'[q].invite = call[q].invite
      BY <3>2, <3>4 DEF Matched
    <3> QED
      BY <2>1, <3>5, AccountKept
  <2> QED
    BY <2>2, <2>3
<1>8. ASSUME NEW r \in Requests, ExpireInvite(r) \/ Join(r) PROVE AccountInv'
  <2>1. call[r] # Idle /\ call[r].at # "found" /\ call' = [call EXCEPT ![r] = Idle]
    BY <1>8 DEF ExpireInvite, Join, Answer, Idle
  <2>2. \A q \in Requests : Matched(q)' => Matched(q) /\ call'[q] = call[q]
    BY <2>1, <1>t DEF Matched, CallType
  <2>3. PICK s \in {"PENDING", "ACCEPTED", "EXPIRED", "revoked"} : SetStatus(call[r].invite, s)
    BY <1>8 DEF ExpireInvite, Join
  <2>4. \A j \in Invites : invite[j].status # "unsent" => invite'[j].email = invite[j].email
    BY <1>t, <1>0, <2>1, <2>3, StatusOnly
  <2>5. CASE ExpireInvite(r)
    BY <2>2, <2>4, <2>5, AccountKept DEF ExpireInvite
  <2>6. CASE Join(r)
    <3>1. /\ UNCHANGED <<email, held>>
          /\ verified' = verified \cup {call[r].user}
          /\ proven' = [proven EXCEPT ![call[r].user] =
                          proven[call[r].user] \cup {invite[call[r].invite].email}]
      BY <2>6 DEF Join
    <3>2. VerifiedIsProven'
      <4>1. \/ email[call[r].user] = invite[call[r].invite].email
            \/ call[r].user \in verified
        BY <2>1 DEF AccountInv, Matched
      <4>2. call[r].user \in Users /\ verified \subseteq Users
        BY <1>0, <1>t, <2>1 DEF AccountType
      <4>3. /\ proven'[call[r].user] = proven[call[r].user] \cup {invite[call[r].invite].email}
            /\ \A u \in Users \ {call[r].user} : proven'[u] = proven[u]
        BY <3>1, <4>2, <1>t DEF AccountType
      <4> QED
        BY <3>1, <4>1, <4>2, <4>3 DEF AccountInv, VerifiedIsProven
    <3>3. ASSUME NEW q \in Requests, Matched(q)'
          PROVE  /\ invite'[call'[q].invite].email \in held'[call'[q].user]
                 /\ \/ email'[call'[q].user] = invite'[call'[q].invite].email
                    \/ call'[q].user \in verified'
      <4>1. Matched(q) /\ call'[q] = call[q] /\ call[q] # Idle
        BY <2>2, <3>3 DEF Matched
      <4>2. invite'[call[q].invite].email = invite[call[q].invite].email
        BY <1>0, <2>4, <4>1
      <4> QED
        BY <3>1, <4>1, <4>2 DEF AccountInv
    <3> QED
      BY <3>1, <3>2, <3>3 DEF AccountInv
  <2> QED
    BY <1>8, <2>5, <2>6
<1>9. ASSUME NEW u \in Movers, NEW a \in Addresses, ChangeEmail(u, a) PROVE AccountInv'
  <2>1. /\ u \in Users /\ UNCHANGED <<invite, call>>
        /\ verified' = verified \cup {u}
        /\ email'[u] = a /\ held'[u] = held[u] \cup {a} /\ proven'[u] = proven[u] \cup {a}
        /\ \A v \in Users \ {u} : email'[v] = email[v] /\ held'[v] = held[v] /\ proven'[v] = proven[v]
    BY <1>9, <1>t DEF ChangeEmail, AccountType
  <2>2. \A r \in Requests : Matched(r)' => Matched(r) /\ call[r].user \in Users
    BY <1>0, <2>1 DEF Matched
  <2>3. (\A v \in Users : email[v] \in held[v])' /\ VerifiedIsProven'
    BY <2>1, <1>t DEF AccountInv, VerifiedIsProven, AccountType
  <2> QED
    BY <2>1, <2>2, <2>3 DEF AccountInv
<1>10. ASSUME NEW u \in Users, RemoveMember(u) \/ (\E as \in Assignable : ChangeRole(u, as))
       PROVE  AccountInv'
  BY <1>1, <1>10 DEF RemoveMember, ChangeRole
<1>11. CASE Upgrade \/ Downgrade
  BY <1>1, <1>11 DEF Upgrade, Downgrade
<1>12. CASE UNCHANGED vars
  BY <1>1, <1>12 DEF vars
<1> QED
  BY <1>2, <1>3, <1>4, <1>5, <1>6, <1>7, <1>8, <1>9, <1>10, <1>11, <1>12
     DEF Next, InviteStep, AcceptStep, RosterStep

\* Accepting an invite never marks an account verified for an address whose
\* mail its user has not read, whenever the address changes.
THEOREM VerifiedProven == Spec => []VerifiedIsProven
<1>1. AccountInv => VerifiedIsProven
  BY DEF AccountInv
<1> QED
  BY <1>1, TypeInit, TypeNext, AccountInit, AccountNext, PTL DEF Spec

\* Only the transaction of an accept makes somebody a member, and it does so
\* with the role of an invite to an address of theirs.
THEOREM InvitedOnly == Spec => MembersWereInvited
<1>1. ASSUME TypeOK, AccountInv, [Next]_vars,
             NEW u \in Users, role[u] = "none", role'[u] # "none"
      PROVE  \E i \in Invites : /\ invite[i].status \notin {"unsent", "drafted"}
                                /\ invite[i].email \in held[u]
                                /\ invite[i].role = role'[u]
  <2>1. \A v \in Users, as \in Assignable : ~ChangeRole(v, as) /\ ~RemoveMember(v)
    BY <1>1 DEF ChangeRole, RemoveMember, Members, TypeOK, RosterType
  <2>2. ~UNCHANGED role
    BY <1>1
  <2>3. PICK r \in Requests : Join(r)
    BY <1>1, <2>1, <2>2
       DEF Next, InviteStep, AcceptStep, RosterStep, vars, DraftInvite, InsertInvite,
           RevokeInvite, Lapse, FindInvite, MatchAccount, LookUpMember, ExpireInvite,
           ReadPlan, CountMembers, Fail, ChangeEmail, Upgrade, Downgrade
  <2>4. call[r] # Idle /\ call[r].at # "found"
    BY <2>3 DEF Join, Idle
  <2>5. call[r] \in Accepts
    BY <1>1, <2>4 DEF TypeOK, CallType
  <2>6. /\ call[r].invite \in Invites
        /\ invite[call[r].invite].status \notin {"unsent", "drafted"}
        /\ invite[call[r].invite].email \in held[call[r].user]
    BY <1>1, <2>4, <2>5 DEF TypeOK, CallType, Accepts, AccountInv, Matched
  <2>7. u = call[r].user /\ role'[u] = invite[call[r].invite].role
    BY <1>1, <2>3 DEF Join, TypeOK, RosterType
  <2> QED
    BY <2>6, <2>7
<1>2. TypeOK /\ AccountInv /\ [Next]_vars => [Invited]_vars
  BY <1>1 DEF Invited
<1> QED
  BY <1>2, TypeInit, TypeNext, AccountInit, AccountNext, PTL DEF Spec, MembersWereInvited
=============================================================================
