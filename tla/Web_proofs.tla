-------------------------------- MODULE Web_proofs --------------------------
(****************************************************************************)
(* Proofs about the web app beside the workspace page: Links, the pages     *)
(* that emailed links open, Pages, the other pages and dialogs, and         *)
(* Blueprint, the canvas as a program.                                      *)
(*                                                                          *)
(* The links: one request uses the link for as long as the page is there,   *)
(* and none once its answer has come (UsedOnce).                            *)
(*                                                                          *)
(* The pages: what is used of the tables of PageTables holds of every panel *)
(* in them (TablesAreSound). A flag that is up has a request that takes it  *)
(* down (ButtonsInv), because a handler lowers its flag whatever the        *)
(* answer, and a dialog that takes requests with it takes their flags too.  *)
(* A user who waits for each answer has one request or nothing but loads in *)
(* flight (ListsInv), and of those the ones that are heard ask for what the *)
(* list depends on now.                                                     *)
(*                                                                          *)
(* The canvas: no two nodes have one id, a connection has both its ends,    *)
(* and what a field holds is what the Inspector offers (DesignInv). So      *)
(* whatever the compiler looks up by an id is there, every address it takes *)
(* from a lookup is that of a node, and every node has its block; and the   *)
(* fields of the Inspector are compared, entry by entry, with those the     *)
(* compiler spells out.                                                     *)
(****************************************************************************)
EXTENDS Links, Pages, Blueprint, FiniteSetTheorems, WellFoundedInduction, TLAPS

\* Every set of numbers that is not empty has a least one.
LEMMA LeastOf ==
  ASSUME NEW S \in SUBSET Nat, S # {}
  PROVE  \E m \in S : \A k \in S : m <= k
<1> PICK n \in S : TRUE
  OBVIOUS
<1> DEFINE F == {x \in S : x <= n}
           UpTo == [x \in F |-> {y \in F : y <= x}]
           T == {UpTo[x] : x \in F}
<1>1. IsFiniteSet(F)
  BY FS_BoundedSetOfNaturals
<1>2. FiniteSubsetsOf(F) = SUBSET F
  BY <1>1, FS_FiniteSubsetsOfFinite
<1>3. T \subseteq FiniteSubsetsOf(F) /\ T # {}
  <2>1. n \in F /\ \A x \in F : UpTo[x] \in SUBSET F
    OBVIOUS
  <2>2. UpTo[n] \in T
    BY <2>1
  <2>3. T \subseteq SUBSET F
    BY <2>1
  <2> HIDE DEF T
  <2> QED
    BY <1>2, <2>2, <2>3
<1>4. PICK U \in T : \A V \in T : <<V, U>> \notin StrictSubsetOrdering(F)
  <2>1. IsWellFoundedOn(StrictSubsetOrdering(F), FiniteSubsetsOf(F))
    BY FS_StrictSubsetOrderingWellFounded
  <2> HIDE DEF T
  <2> QED
    BY <1>3, <2>1, WFMin
<1>5. PICK m \in F : U = UpTo[m]
  OBVIOUS
<1>6. ASSUME NEW k \in F, k < m PROVE FALSE
  <2>1. UpTo[k] \in T /\ UpTo[k] \subseteq UpTo[m] /\ m \in UpTo[m] /\ m \notin UpTo[k]
    <3>1. k \in Nat /\ m \in Nat /\ m \in F
      OBVIOUS
    <3>2. UpTo[k] = {y \in F : y <= k} /\ UpTo[m] = {y \in F : y <= m}
      OBVIOUS
    <3>3. UpTo[k] \in T
      OBVIOUS
    <3>4. ASSUME NEW y \in UpTo[k] PROVE y \in UpTo[m]
      BY <1>6, <3>1, <3>2, y \in Nat
    <3>5. m \in UpTo[m] /\ m \notin UpTo[k]
      BY <1>6, <3>1, <3>2
    <3> QED
      BY <3>3, <3>4, <3>5
  <2>2. <<UpTo[k], UpTo[m]>> \in StrictSubsetOrdering(F)
    BY <2>1 DEF StrictSubsetOrdering
  <2> QED
    BY <1>4, <1>5, <2>1, <2>2
<1>7. ASSUME NEW k \in S PROVE m <= k
  BY <1>6, <1>7
<1> QED
  BY <1>7
-----------------------------------------------------------------------------
(* Links. *)

LinkRequest ==
  [id : 1..MaxRequests, what : {"preview", "use", "resend", "fetchMe"},
   as : {"none", "invitee", "other"},
   reply : {"none", "ok", "no", "verified", "unverified", "expired", "lost"}]

\* The link is used by one request for as long as the page is there, and by none once
\* its answer has come.
UsedOnce ==
  /\ \A r \in requests : r.what = "use" => started /\ ~told
  /\ \A r, q \in requests : r.what = "use" /\ q.what = "use" => r = q
  /\ told => started /\ status = "success"

LEMMA RequestIsOne ==
  ASSUME LinksTypeOK, FreeNumbers # {}, NEW what \in {"preview", "use", "resend", "fetchMe"}
  PROVE  Request(what) \in LinkRequest /\ Request(what).what = what
<1>1. FreeNumbers \in SUBSET Nat
  BY LinksAssumption DEF FreeNumbers
<1>2. \E m \in FreeNumbers : \A k \in FreeNumbers : m <= k
  BY <1>1, LeastOf
<1>3. (CHOOSE n \in FreeNumbers : \A m \in FreeNumbers : n <= m) \in 1..MaxRequests
  BY <1>2 DEF FreeNumbers
<1> QED
  BY <1>3 DEF Request, LinkRequest, LinksTypeOK

\* What the profile and the first status may be.
LEMMA StatusIsOne == \A k : FirstStatus(k) \in {"idle", "working", "success", "error"}
  BY DEF FirstStatus

LEMMA ProfileIsOne ==
  ASSUME NEW of \in {"none", "invitee", "other"}, NEW v \in BOOLEAN
  PROVE  [of |-> of, verified |-> v] \in [of : {"none", "invitee", "other"}, verified : BOOLEAN]
  OBVIOUS

LEMMA LinksTypeInit == LinksInit => LinksTypeOK
<1> SUFFICES ASSUME LinksInit PROVE LinksTypeOK
  OBVIOUS
<1>1. user \in [of : {"none", "invitee", "other"}, verified : BOOLEAN]
  <2>1. (who = "other") \in BOOLEAN
    OBVIOUS
  <2> QED
    BY <2>1, ProfileIsOne DEF LinksInit
<1>2. loads \in 1..MaxLoads /\ {used, verified, started, told} \subseteq BOOLEAN
  <2>1. 1 \in 1..MaxLoads
    BY LinksAssumption
  <2> QED
    BY <2>1 DEF LinksInit
<1> QED
  BY <1>1, <1>2, StatusIsOne DEF LinksInit, LinksTypeOK

\* What the server does to a request is to answer it.
LEMMA RepliedType ==
  ASSUME LinksTypeOK, NEW r \in requests,
         NEW reply \in {"none", "ok", "no", "verified", "unverified", "expired", "lost"}
  PROVE  /\ Replied(r, reply) \subseteq LinkRequest
         /\ \A q \in Replied(r, reply) : q \in requests \/ (q.what = r.what /\ q = [r EXCEPT !.reply = reply])
<1>1. [r EXCEPT !.reply = reply] \in LinkRequest /\ [r EXCEPT !.reply = reply].what = r.what
  BY DEF LinksTypeOK, LinkRequest
<1> QED
  BY <1>1 DEF Replied, LinksTypeOK, LinkRequest

LEMMA LinksTypeNext == LinksTypeOK /\ [LinksNext]_linksVars => LinksTypeOK'
<1> SUFFICES ASSUME LinksTypeOK, [LinksNext]_linksVars PROVE LinksTypeOK'
  OBVIOUS
<1> USE LinksAssumption DEF LinksTypeOK, onServer, session, page
<1>a. ASSUME NEW what \in {"preview", "use", "resend", "fetchMe"}, FreeNumbers # {},
             requests' = requests \cup {Request(what)}
      PROVE  requests' \subseteq LinkRequest
  BY <1>a, RequestIsOne DEF LinkRequest
<1>1. CASE AskPreview
  BY <1>1, <1>a DEF AskPreview, LinkRequest
<1>2. CASE UseLink
  BY <1>2, <1>a DEF UseLink, LinkRequest
<1>3. CASE Resend
  BY <1>3, <1>a DEF Resend, LinkRequest
<1>4. CASE LoadAgain
  <2>1. loads' \in 1..MaxLoads /\ {used', verified', started', told'} \subseteq BOOLEAN
    <3>1. loads' \in 1..MaxLoads
      BY <1>4 DEF LoadAgain
    <3>2. used' = used /\ verified' = verified /\ started' = FALSE /\ told' = FALSE
      BY <1>4 DEF LoadAgain
    <3> QED
      BY <3>1, <3>2
  <2> QED
    BY <1>4, <2>1, StatusIsOne DEF LoadAgain
<1>5. CASE Logout
  BY <1>5 DEF Logout, Nobody
<1>6. CASE FetchMe
  BY <1>6, <1>a DEF FetchMe, LinkRequest
<1>7. CASE Elsewhere
  BY <1>7 DEF Elsewhere
<1>8. ASSUME NEW as \in {"invitee", "other"}, Login(as) PROVE LinksTypeOK'
  <2>1. loads' \in 1..MaxLoads /\ {used', verified', started', told'} \subseteq BOOLEAN
    <3>1. loads' \in 1..MaxLoads
      BY <1>8 DEF Login
    <3>2. used' = used /\ verified' = verified /\ started' = FALSE /\ told' = FALSE
      BY <1>8 DEF Login
    <3> QED
      BY <3>1, <3>2
  <2>2. (IF as = "invitee" THEN verified ELSE TRUE) \in BOOLEAN
    OBVIOUS
  <2>3. user' \in [of : {"none", "invitee", "other"}, verified : BOOLEAN]
    BY <1>8, <2>2, ProfileIsOne DEF Login
  <2> QED
    BY <1>8, <2>1, <2>3, StatusIsOne DEF Login
<1>9. ASSUME NEW r \in requests, Serve(r) PROVE LinksTypeOK'
  <2>1. /\ requests' = Replied(r, "ok") \/ requests' = Replied(r, "no")
        /\ used' \in BOOLEAN /\ verified' \in BOOLEAN /\ UNCHANGED <<kind, session, page>>
    BY <1>9 DEF Serve
  <2>2. requests' \subseteq LinkRequest
    BY <2>1, RepliedType
  <2> QED
    BY <2>1, <2>2 DEF LinkRequest
<1>10. ASSUME NEW r \in requests, ServePreview(r) PROVE LinksTypeOK'
  BY <1>10, RepliedType DEF ServePreview, LinkRequest
<1>11. ASSUME NEW r \in requests, ServeProfile(r) PROVE LinksTypeOK'
  <2>1. PICK reply \in {"unverified", "verified", "expired"} : requests' = Replied(r, reply)
    BY <1>11 DEF ServeProfile
  <2> QED
    BY <1>11, <2>1, RepliedType DEF ServeProfile, LinkRequest
<1>12. ASSUME NEW r \in requests, Lost(r) PROVE LinksTypeOK'
  BY <1>12, RepliedType DEF Lost, LinkRequest
<1>13. ASSUME NEW r \in requests, Used(r) PROVE LinksTypeOK'
  <2>1. who' \in {"none", "invitee", "other"} /\ user' \in [of : {"none", "invitee", "other"}, verified : BOOLEAN]
    <3>1. CASE UNCHANGED session
      BY <3>1
    <3>2. CASE who' = "invitee" /\ user' = [of |-> "invitee", verified |-> TRUE]
      BY <3>2, ProfileIsOne
    <3> QED
      BY <1>13, <3>1, <3>2 DEF Used, Session
  <2>2. status' \in {"success", "error"} /\ told' \in BOOLEAN
    BY <1>13 DEF Used, Outcome
  <2> QED
    BY <1>13, <2>1, <2>2 DEF Used
<1>14. ASSUME NEW r \in requests, Previewed(r) PROVE LinksTypeOK'
  BY <1>14 DEF Previewed
<1>15. ASSUME NEW r \in requests, Refreshed(r) PROVE LinksTypeOK'
  <2>1. who' \in {"none", "invitee", "other"} /\ user' \in [of : {"none", "invitee", "other"}, verified : BOOLEAN]
    <3>1. CASE UNCHANGED session
      BY <3>1
    <3>2. CASE who' = "none" /\ user' = Nobody
      BY <3>2, ProfileIsOne DEF Nobody
    <3>3. CASE user' = [of |-> r.as, verified |-> r.reply = "verified"] /\ UNCHANGED who
      <4>1. r.as \in {"none", "invitee", "other"} /\ (r.reply = "verified") \in BOOLEAN
        OBVIOUS
      <4> QED
        BY <3>3, <4>1, ProfileIsOne
    <3> QED
      BY <1>15, <3>1, <3>2, <3>3 DEF Refreshed
  <2> QED
    BY <1>15, <2>1 DEF Refreshed
<1>16. ASSUME NEW r \in requests, Resent(r) PROVE LinksTypeOK'
  BY <1>16 DEF Resent
<1>17. CASE UNCHANGED linksVars
  BY <1>17 DEF linksVars
<1> QED
  BY <1>1, <1>2, <1>3, <1>4, <1>5, <1>6, <1>7, <1>8, <1>9, <1>10, <1>11, <1>12, <1>13, <1>14, <1>15,
     <1>16, <1>17 DEF LinksNext

\* Type correctness of the page, its session and the requests in flight.
THEOREM LinksTyped == LinksSpec => []LinksTypeOK
  BY LinksTypeInit, LinksTypeNext, PTL DEF LinksSpec

LEMMA OnceNext == LinksTypeOK /\ UsedOnce /\ [LinksNext]_linksVars => UsedOnce'
<1> SUFFICES ASSUME LinksTypeOK, UsedOnce, [LinksNext]_linksVars PROVE UsedOnce'
  OBVIOUS
<1> USE DEF UsedOnce, onServer, session, page
<1>a. ASSUME NEW what \in {"preview", "resend", "fetchMe"}, FreeNumbers # {},
             requests' = requests \cup {Request(what)}, UNCHANGED <<started, status, told>>
      PROVE  UsedOnce'
  BY <1>a, RequestIsOne
<1>b. ASSUME NEW r \in requests, requests' = requests \ {r}, UNCHANGED <<started, status, told>>
      PROVE  UsedOnce'
  BY <1>b
<1>c. ASSUME NEW r \in requests, UNCHANGED <<started, status, told>>,
             NEW reply \in {"none", "ok", "no", "verified", "unverified", "expired", "lost"},
             requests' = Replied(r, reply)
      PROVE  UsedOnce'
  <2>1. \A q \in requests' : q \in requests \ {r} \/ (q.what = r.what /\ q = [r EXCEPT !.reply = reply])
    BY <1>c, RepliedType DEF Replied
  <2> QED
    BY <1>c, <2>1
<1>1. CASE AskPreview
  BY <1>1, <1>a DEF AskPreview
<1>2. CASE UseLink
  BY <1>2, RequestIsOne DEF UseLink, FirstTime
<1>3. CASE Resend
  BY <1>3, <1>a DEF Resend
<1>4. CASE LoadAgain
  BY <1>4 DEF LoadAgain
<1>5. CASE Logout
  BY <1>5 DEF Logout
<1>6. CASE FetchMe
  BY <1>6, <1>a DEF FetchMe
<1>7. CASE Elsewhere
  BY <1>7 DEF Elsewhere
<1>8. ASSUME NEW as \in {"invitee", "other"}, Login(as) PROVE UsedOnce'
  BY <1>8 DEF Login
<1>9. ASSUME NEW r \in requests, Serve(r) PROVE UsedOnce'
  <2>1. /\ requests' = Replied(r, "ok") \/ requests' = Replied(r, "no")
        /\ UNCHANGED <<started, status, told>>
    BY <1>9 DEF Serve
  <2> QED
    BY <2>1, <1>c
<1>10. ASSUME NEW r \in requests, ServePreview(r) PROVE UsedOnce'
  BY <1>10, <1>c DEF ServePreview
<1>11. ASSUME NEW r \in requests, ServeProfile(r) PROVE UsedOnce'
  <2>1. PICK reply \in {"unverified", "verified", "expired"} : requests' = Replied(r, reply)
    BY <1>11 DEF ServeProfile
  <2> QED
    BY <1>11, <2>1, <1>c DEF ServeProfile
<1>12. ASSUME NEW r \in requests, Lost(r) PROVE UsedOnce'
  BY <1>12, <1>c DEF Lost
<1>13. ASSUME NEW r \in requests, Used(r) PROVE UsedOnce'
  <2>1. ~told /\ started /\ \A q \in requests' : q.what # "use"
    BY <1>13 DEF Used
  <2>2. told' => status' = "success"
    BY <1>13, <2>1 DEF Used, Outcome
  <2> QED
    BY <1>13, <2>1, <2>2 DEF Used
<1>14. ASSUME NEW r \in requests, Previewed(r) PROVE UsedOnce'
  BY <1>14, <1>b DEF Previewed
<1>15. ASSUME NEW r \in requests, Refreshed(r) PROVE UsedOnce'
  BY <1>15, <1>b DEF Refreshed
<1>16. ASSUME NEW r \in requests, Resent(r) PROVE UsedOnce'
  BY <1>16 DEF Resent
<1>17. CASE UNCHANGED linksVars
  BY <1>17 DEF linksVars
<1> QED
  BY <1>1, <1>2, <1>3, <1>4, <1>5, <1>6, <1>7, <1>8, <1>9, <1>10, <1>11, <1>12, <1>13, <1>14, <1>15,
     <1>16, <1>17 DEF LinksNext

\* Success stays on the page once the server has told it, for any number of requests
\* and loads: the link is used by one request, whose answer nothing follows.
THEOREM SuccessStays == LinksSpec => []SuccessIsShown
<1>1. LinksInit => UsedOnce
  BY DEF LinksInit, UsedOnce
<1>2. UsedOnce => SuccessIsShown
  BY DEF UsedOnce, SuccessIsShown
<1> QED
  BY <1>1, <1>2, OnceNext, LinksTyped, PTL DEF LinksSpec
-----------------------------------------------------------------------------
(* Pages. *)

\* What takes a flag down, and what starts another call.
Ends   == {"lower", "await", "leave"}
Starts == {"timer", "reload", "await", "rerun"}

\* A flag that a handler raises goes down whatever the answer; a failure starts
\* nothing, a success one thing at most; and what changes the list brings it up to date.
SoundHandler(h) ==
  /\ h.op \in {"add", "change", "remove", "none"} /\ h.by = "user" /\ h.timer = FALSE
  /\ h.flag # None => Ends \cap h.ok # {} /\ "lower" \in h.err
  /\ Starts \cap h.err = {}
  /\ h.tells # None => {"lower", "leave"} \cap h.after # {}
  /\ {"timer", "await"} \cap h.after = {}
  /\ \A a, b \in Starts \cap h.ok : a = b
  /\ \A a, b \in Starts \cap h.after : a = b
  /\ h.op # "none" => \/ {"patch", "reload", "await", "rerun", "leave"} \cap h.ok # {}
                      \/ "timer" \in h.ok /\ {"reload", "rerun", "leave"} \cap h.after # {}

\* The spinner is one for its panel, and no dialog that loses its state has a handler
\* whose flag a load takes down.
Sound(p) ==
  /\ \A h \in p.handlers : SoundHandler(h)
  /\ p.load.flag \notin Slots \cup PerItem
  /\ \A d \in p.unmounts, k \in p.controls, h \in p.handlers :
        k.at = d /\ k.do = h.do =>
          h.flag # None /\ \A g \in p.handlers : "await" \in g.ok => g.flag # h.flag
-----------------------------------------------------------------------------
(* The tables. *)

\* What the proofs use of the tables holds of every panel of the program.
LEMMA TablesAreSound == \A p \in AllPanels : Sound(p)
<1> USE DEF Ends, Starts, Slots, PerItem, None, Handler, Control, Panel, Load, NoLoad, Both,
   OneForm, ListOnly, Telling
<1>h. SoundHandler(SettingsSaved) /\ \A h \in DashboardHandlers : SoundHandler(h)
  BY DEF SoundHandler, SettingsSaved, DashboardHandlers
<1>1. Sound(DashboardProjects)
  <2>1. \A h \in DashboardProjects.handlers : SoundHandler(h)
    BY <1>h DEF DashboardProjects
  <2>2. Sound(DashboardProjects)!2
    BY DEF DashboardProjects, DashboardLoad
  <2>3. \A h \in DashboardProjects.handlers : h.flag # None /\ "await" \notin h.ok
    BY DEF DashboardProjects, DashboardHandlers, SettingsSaved
  <2>4. Sound(DashboardProjects)!3
    BY <2>3
  <2> QED
    BY <2>1, <2>2, <2>4 DEF Sound
<1>2. Sound(DashboardRequests)
  <2>1. \A h \in DashboardRequests.handlers : SoundHandler(h)
    BY <1>h DEF DashboardRequests
  <2>2. Sound(DashboardRequests)!2 /\ Sound(DashboardRequests)!3
    BY DEF DashboardDialogs, DashboardHandlers, DashboardLoad, DashboardRequests,
       WaitingOnYou
  <2> QED
    BY <2>1, <2>2 DEF Sound
<1>3. Sound(useAggregatedRuns)
  BY DEF Sound, SoundHandler, useAggregatedRuns
<1>4. Sound(useActivity)
  BY DEF Sound, SoundHandler, useActivity
<1>5. Sound(usePendingContributions)
  BY DEF Sound, SoundHandler, usePendingContributions
<1>6. Sound(useAnyActiveAgent)
  BY DEF Sound, SoundHandler, useAnyActiveAgent
<1>7. Sound(TeamSwitcher)
  BY DEF Sound, SoundHandler, NewTeamForm, TeamSwitcher, handleCreateTeam
<1>8. Sound(Projects)
  BY DEF Sound, SoundHandler, Projects, ProjectsHandlers, ProjectsLoad, ProjectsMenu,
     SettingsDialog, SettingsSaved
<1>9. Sound(ImportTerraform)
  BY DEF Sound, SoundHandler, ImportForm, ImportLoad, ImportSubmit, ImportTerraform,
     SubmitButton, handleSubmit
<1>10. Sound(ProjectMembers)
  BY DEF Sound, SoundHandler, MembersHandlers, MembersLoad, MembersTab, ProjectMembers
<1>11. Sound(ProjectAgents)
  BY DEF Sound, SoundHandler, AgentsLoad, AgentsTab, ProjectAgents, handleRevokeAgent
<1>12. Sound(ProjectGeneral)
  BY DEF Sound, SoundHandler, DangerTab, GeneralTab, ProjectGeneral, handleDeleteProject,
     handleGeneralSave
<1>13. Sound(ProjectCredentials)
  <2>1. \A h \in ProjectCredentials.handlers : SoundHandler(h)
    BY DEF SoundHandler, ProjectCredentials, VaultForm, VaultList, VaultLoad,
       handleCreateCredential, handleDeleteCredential
  <2>2. Sound(ProjectCredentials)!2 /\ Sound(ProjectCredentials)!3
    BY DEF ProjectCredentials, VaultForm, VaultList, VaultLoad, handleCreateCredential,
       handleDeleteCredential
  <2> QED
    BY <2>1, <2>2 DEF Sound
<1>14. Sound(Snapshots)
  BY DEF Sound, SoundHandler, Snapshots, SnapshotsList, SnapshotsLoad, handleRevert
<1>15. Sound(Credentials)
  <2>1. \A h \in Credentials.handlers : SoundHandler(h)
    BY DEF SoundHandler, Credentials, CredentialsDialogs, CredentialsHandlers,
       CredentialsLoad, CredentialsTable, NewCredentialModal, RotateCredentialModal
  <2>2. Sound(Credentials)!2 /\ Sound(Credentials)!3
    BY DEF Credentials, CredentialsDialogs, CredentialsHandlers, CredentialsLoad,
       CredentialsTable, NewCredentialModal, RotateCredentialModal
  <2> QED
    BY <2>1, <2>2 DEF Sound
<1>16. Sound(TeamPage)
  <2>1. \A h \in TeamHandlers \cup {InviteMemberModal} : SoundHandler(h)
    BY DEF SoundHandler, TeamHandlers, InviteMemberModal
  <2>2. \A h \in TeamBilling : SoundHandler(h)
    BY DEF SoundHandler, TeamBilling
  <2>3. Sound(TeamPage)!2
    BY DEF TeamPage, TeamLoad
  <2>4. \A c \in TeamPage.controls : c.at = "isInviteOpen" => c.do = "handleInvite"
    BY DEF TeamPage, TeamTables, TeamPlan, TeamDialogs
  <2>5. \A h \in TeamPage.handlers : 
        /\ h.do = "handleInvite" => h.flag = "isSaving"
        /\ "await" \notin h.ok
    BY DEF TeamPage, TeamHandlers, TeamBilling, InviteMemberModal
  <2>6. TeamPage.unmounts = {"isInviteOpen"}
    BY DEF TeamPage
  <2>7. ASSUME NEW d \in TeamPage.unmounts, NEW k \in TeamPage.controls,
               NEW h \in TeamPage.handlers, k.at = d, k.do = h.do
        PROVE  h.flag # None /\ \A g \in TeamPage.handlers : "await" \in g.ok => g.flag # h.flag
    <3>1. d = "isInviteOpen"
      BY <2>6, <2>7
    <3>2. h.do = "handleInvite"
      BY <2>4, <2>7, <3>1
    <3> QED
      BY <2>5, <3>2
  <2> QED
    BY <2>1, <2>2, <2>3, <2>7 DEF Sound, TeamPage
<1>17. Sound(Identities)
  BY DEF Sound, SoundHandler, Identities, IdentitiesControls, IdentitiesHandlers,
     IdentitiesLoad
<1>18. Sound(Profile)
  <2>1. \A h \in Profile.handlers : SoundHandler(h)
    BY DEF SoundHandler, AvatarCropper, DeleteAccount, Profile, ProfileControls,
       ProfileHandlers
  <2>2. Sound(Profile)!2 /\ Sound(Profile)!3
    BY DEF AvatarCropper, DeleteAccount, Profile, ProfileControls, ProfileHandlers
  <2> QED
    BY <2>1, <2>2 DEF Sound
<1>19. Sound(TriggerRun)
  BY DEF Sound, SoundHandler, SubmitButton, TriggerForm, TriggerLoad, TriggerRun,
     TriggerSubmit, handleSubmit
<1>20. Sound(TemplatesPage)
  BY DEF Sound, SoundHandler, TemplatesPage
<1>21. Sound(TemplateDetail)
  BY DEF Sound, SoundHandler, DetailLoad, GetStarted, TemplateDetail, handleGetStarted
<1>22. Sound(TemplateContributions)
  BY DEF Sound, SoundHandler, ContributionsLoad, ReviewButtons, TemplateContributions,
     review
<1>23. Sound(ContributeTemplate)
  BY DEF Sound, SoundHandler, ContributeForm, ContributeHandlers, ContributeLoad,
     ContributeTemplate, SubmitButton
<1>24. Sound(PublishTemplate)
  BY DEF Sound, SoundHandler, PublishForm, PublishSubmit, PublishTemplate, SubmitButton
<1>25. Sound(ExportCode)
  BY DEF Sound, SoundHandler, DownloadButton, ExportCode, ExportLoad, handleDownloadBundle
<1>26. Sound(LoginPage)
  BY DEF Sound, SoundHandler, LoginForm, LoginPage, LoginSubmit
<1>27. Sound(ForgotPassword)
  BY DEF Sound, SoundHandler, ForgotForm, ForgotPassword, ForgotSubmit
<1>28. Sound(ResetPassword)
  BY DEF Sound, SoundHandler, ResetForm, ResetLoad, ResetPassword, ResetSubmit
<1>29. Sound(ContactForm)
  BY DEF Sound, SoundHandler, ContactFields, ContactForm, ContactSubmit
<1>30. Sound(NewsletterForm)
  BY DEF Sound, SoundHandler, NewsletterField, NewsletterForm, NewsletterSubmit
<1>31. Sound(VerificationBanner)
  <2>1. handleResend = [do |-> "handleResend", op |-> "none", by |-> "user", flag |-> "isSending",
                        ok |-> {"lower", "timer"}, err |-> {"lower"}, tells |-> "cooldown",
                        after |-> {"lower"}, timer |-> FALSE]
    BY DEF handleResend
  <2>2. SoundHandler(handleResend)
    BY <2>1 DEF SoundHandler
  <2>3. Sound(VerificationBanner)!2 /\ Sound(VerificationBanner)!3
    BY DEF VerificationBanner
  <2> QED
    BY <2>2, <2>3 DEF Sound, VerificationBanner
<1> QED
  BY <1>1, <1>2, <1>3, <1>4, <1>5, <1>6, <1>7, <1>8, <1>9, <1>10, <1>11, <1>12, <1>13,
     <1>14, <1>15, <1>16, <1>17, <1>18, <1>19, <1>20, <1>21, <1>22, <1>23, <1>24, <1>25,
     <1>26, <1>27, <1>28, <1>29, <1>30, <1>31 DEF AllPanels
-----------------------------------------------------------------------------
(* Types. *)

CallSet == [id : 1..MaxCalls, job : Jobs, item : Items \cup {AnyItem}, live : BOOLEAN,
            query : 0..MaxQuery]

USE PagesAssumption

LEMMA PanelIsSound == PagesTypeOK => Sound(panel)
  BY TablesAreSound DEF PagesTypeOK

LEMMA FreshIds ==
  ASSUME PagesTypeOK, Room(1), NEW job \in Jobs, NEW i \in Items \cup {AnyItem}
  PROVE  Call(job, i) \in CallSet
<1>1. FreeIds \in SUBSET Nat /\ FreeIds # {}
  <2>1. FreeIds # {}
    BY FS_EmptySet DEF Room
  <2> QED
    BY <2>1 DEF FreeIds
<1>2. \E m \in FreeIds : \A k \in FreeIds : m <= k
  BY <1>1, LeastOf
<1>3. (CHOOSE n \in FreeIds : \A m \in FreeIds : n <= m) \in 1..MaxCalls
  BY <1>2 DEF FreeIds
<1>4. query \in 0..MaxQuery
  BY DEF PagesTypeOK
<1> QED
  BY <1>3, <1>4 DEF Call, CallSet

\* What is heard of a call changes nothing else of it.
LEMMA HeardType ==
  ASSUME NEW c \in CallSet, NEW still \in BOOLEAN
  PROVE  /\ Heard(c, still) \in CallSet
         /\ Heard(c, still).job = c.job /\ Heard(c, still).item = c.item
         /\ Heard(c, still).query = c.query /\ Heard(c, still).live = (c.live /\ still)
  BY DEF Heard, CallSet

LEMMA HeardCalls ==
  ASSUME NEW cs \in SUBSET CallSet, NEW d
  PROVE  Orphaned(d, cs) \in SUBSET CallSet /\ Superseded(cs) \in SUBSET CallSet
  BY HeardType DEF Orphaned, Superseded

LEMMA ThenType ==
  ASSUME NEW c \in CallSet, NEW job \in Jobs
  PROVE  /\ Then(c, job) \in CallSet
         /\ Then(c, job).job = job /\ Then(c, job).item = c.item
         /\ Then(c, job).query = c.query /\ Then(c, job).live
  BY DEF Then, CallSet

\* What a job that is not a load may be.
LEMMA JobIsOne ==
  ASSUME PagesTypeOK, NEW job \in Jobs
  PROVE  \/ /\ job \in panel.handlers /\ SoundHandler(job)
            /\ job.op # "load"
         \/ \E h \in panel.handlers : SoundHandler(h) /\ job = TimerJob(h)
         \/ job = LoadJob("effect", None) \/ job = LoadJob("reload", None)
         \/ \E h \in panel.handlers : "await" \in h.ok /\ job = LoadJob("reload", h.flag)
  BY PanelIsSound DEF Jobs, Sound, SoundHandler

LEMMA FollowType ==
  ASSUME PagesTypeOK, NEW c \in calls, c.job.op # "load",
         NEW effects, effects = c.job.ok \/ effects = c.job.err
  PROVE  Follow(c, effects) \in SUBSET CallSet
<1>1. c \in CallSet /\ c.job \in Jobs
  BY DEF PagesTypeOK, CallSet
<1>2. "timer" \in effects => TimerJob(c.job) \in Jobs
  <2>1. CASE c.job \in panel.handlers
    BY <2>1 DEF Jobs
  <2>2. ASSUME NEW h \in panel.handlers, SoundHandler(h), c.job = TimerJob(h)
        PROVE  "timer" \notin effects
    BY <2>2 DEF TimerJob, SoundHandler
  <2> QED
    BY <1>1, <2>1, <2>2, JobIsOne DEF LoadJob
<1>3. "await" \in effects => LoadJob("reload", c.job.flag) \in Jobs
  <2>1. ASSUME c.job \in panel.handlers, SoundHandler(c.job), "await" \in effects
        PROVE  LoadJob("reload", c.job.flag) \in Jobs
    <3>1. "await" \in c.job.ok
      BY <2>1 DEF SoundHandler, Starts
    <3> QED
      BY <2>1, <3>1 DEF Jobs
  <2>2. ASSUME NEW h \in panel.handlers, SoundHandler(h), c.job = TimerJob(h)
        PROVE  "await" \notin effects
    BY <2>2 DEF TimerJob, SoundHandler
  <2> QED
    BY <1>1, <2>1, <2>2, JobIsOne DEF LoadJob
<1>4. LoadJob("reload", None) \in Jobs /\ LoadJob("effect", None) \in Jobs
  BY DEF Jobs
<1>5. [Then(c, LoadJob("effect", None)) EXCEPT !.query = query] \in CallSet
  BY <1>1, <1>4 DEF Then, CallSet, PagesTypeOK
<1>6. ASSUME NEW x \in Follow(c, effects)
      PROVE  \/ "timer" \in effects /\ x = Then(c, TimerJob(c.job))
             \/ x = Then(c, LoadJob("reload", None))
             \/ "await" \in effects /\ x = Then(c, LoadJob("reload", c.job.flag))
             \/ x = [Then(c, LoadJob("effect", None)) EXCEPT !.query = query]
  BY DEF Follow
<1>7. ASSUME NEW x \in Follow(c, effects) PROVE x \in CallSet
  BY <1>1, <1>2, <1>3, <1>4, <1>5, <1>6, ThenType
<1> QED
  BY <1>7

LEMMA HandleType ==
  ASSUME PagesTypeOK, NEW c \in calls, c.job.op # "load",
         NEW effects, effects = c.job.ok \/ effects = c.job.err, Handle(c, effects)
  PROVE  /\ calls' \in SUBSET CallSet /\ here' \in BOOLEAN
         /\ dialogs' \subseteq dialogs
         /\ \A r \in raised' : r[2] \in Items \cup {AnyItem}
<1> DEFINE others == IF "rerun" \in effects THEN Superseded(calls \ {c}) ELSE calls \ {c}
           lowered == IF "lower" \in effects /\ c.live THEN DownAll(raised, c) ELSE raised
           kept == IF "forget" \in effects THEN {r \in lowered : r[1] \notin PerItem \/ r[2] # c.item}
                   ELSE lowered
           telling == IF "timer" \in effects THEN Up(kept, c.job.tells, c.item) ELSE kept
           spun == IF effects \cap {"reload", "await"} # {} THEN Spin(telling, "reload")
                   ELSE IF "rerun" \in effects THEN Spin(telling, "effect") ELSE telling
           dialog == (CHOOSE k \in panel.controls : k.do = c.job.do).at
<1>1. calls \in SUBSET CallSet /\ c \in CallSet /\ c.item \in Items \cup {AnyItem}
  BY DEF PagesTypeOK, CallSet
<1>2. others \in SUBSET CallSet /\ Orphaned(dialog, others) \in SUBSET CallSet
  <2>1. calls \ {c} \in SUBSET CallSet
    BY <1>1
  <2>2. others \in SUBSET CallSet
    BY <2>1, HeardCalls
  <2> HIDE DEF others
  <2> QED
    BY <2>2, HeardCalls
<1>3. \A r \in spun : r[2] \in Items \cup {AnyItem}
  <2>1. \A r \in lowered : r[2] \in Items \cup {AnyItem}
    BY DEF PagesTypeOK, DownAll
  <2>2. \A r \in kept : r[2] \in Items \cup {AnyItem}
    <3> HIDE DEF lowered
    <3> QED
      BY <2>1
  <2>3. \A r \in telling : r[2] \in Items \cup {AnyItem}
    <3> HIDE DEF kept
    <3> QED
      BY <1>1, <2>2 DEF Up, Tag
  <2> HIDE DEF telling
  <2> QED
    BY <2>3 DEF Spin, Up, Tag
<1> HIDE DEF others, spun, lowered, kept, telling
<1>4. CASE "leave" \in effects
  BY <1>4 DEF Handle
<1>5. CASE "leave" \notin effects
  <2>1. /\ dialogs' = IF "close" \in effects THEN dialogs \ {dialog} ELSE dialogs
        /\ raised' = IF "close" \in effects THEN Folded(dialog, spun) ELSE spun
        /\ calls' = (IF "close" \in effects THEN Orphaned(dialog, others) ELSE others)
                      \cup Follow(c, effects)
        /\ UNCHANGED here
    BY <1>5 DEF Handle, others, spun, lowered, kept, telling
  <2>2. calls' \in SUBSET CallSet
    BY <2>1, <1>2, FollowType
  <2> QED
    BY <2>1, <2>2, <1>3 DEF Folded, PagesTypeOK
<1> QED
  BY <1>4, <1>5

LEMMA PagesTypeInit == PagesInit => PagesTypeOK
<1> SUFFICES ASSUME PagesInit PROVE PagesTypeOK
  OBVIOUS
<1>1. /\ panel \in Panels /\ here \in BOOLEAN /\ calm \in BOOLEAN /\ dialogs = {}
      /\ query \in 0..MaxQuery /\ server \in [Items -> {0, 1}]
  BY DEF PagesInit
<1>2. server \in [Items -> Versions]
  BY <1>1 DEF Versions
<1>3. CASE panel.load.loads
  <2>1. [id |-> 1, job |-> LoadJob("effect", None), item |-> AnyItem, live |-> TRUE, query |-> 0] \in CallSet
    BY DEF CallSet, Jobs
  <2>2. \A r \in raised : r[2] \in Items \cup {AnyItem}
    BY <1>3 DEF PagesInit, Up, Tag
  <2>3. shown \in [query : 0..MaxQuery, items : [Items -> Versions]]
    BY <1>3 DEF PagesInit, Versions
  <2> QED
    BY <1>1, <1>2, <1>3, <2>1, <2>2, <2>3 DEF PagesInit, PagesTypeOK, CallSet
<1>4. CASE ~panel.load.loads
  <2>1. raised = {} /\ calls = {} /\ shown = [query |-> 0, items |-> server]
    BY <1>4 DEF PagesInit
  <2>2. shown \in [query : 0..MaxQuery, items : [Items -> Versions]]
    BY <1>2, <2>1
  <2> QED
    BY <1>1, <1>2, <2>1, <2>2 DEF PagesTypeOK
<1> QED
  BY <1>3, <1>4

LEMMA DoneType ==
  ASSUME PagesTypeOK, NEW c \in calls, Possible(c.job, c.item)
  PROVE  Done(c.job, c.item) \in [Items -> Versions]
<1>1. server \in [Items -> 0..2]
  BY DEF PagesTypeOK, Versions
<1>2. CASE c.job.op = "change"
  <2>1. c.item \in Items => 3 - server[c.item] \in 0..2
    BY <1>1, <1>2 DEF Possible
  <2> QED
    BY <1>1, <1>2, <2>1 DEF Done, Versions
<1>3. CASE c.job.op # "change"
  <2>1. \A v \in 0..2 : [server EXCEPT ![c.item] = v] \in [Items -> Versions]
    BY <1>1 DEF Versions
  <2>2. Done(c.job, c.item) \in {[server EXCEPT ![c.item] = 1], [server EXCEPT ![c.item] = 0], server}
    BY <1>3 DEF Done
  <2> QED
    BY <1>1, <2>1, <2>2, 0 \in 0..2, 1 \in 0..2 DEF Versions
<1> QED
  BY <1>2, <1>3

LEMMA PagesTypeNext == PagesTypeOK /\ [PagesNext]_pagesVars => PagesTypeOK'
<1> SUFFICES ASSUME PagesTypeOK, [PagesNext]_pagesVars PROVE PagesTypeOK'
  OBVIOUS
<1>0. /\ panel \in Panels /\ here \in BOOLEAN /\ calm \in BOOLEAN
      /\ dialogs \subseteq {k.at : k \in panel.controls}
      /\ \A r \in raised : r[2] \in Items \cup {AnyItem}
      /\ calls \in SUBSET CallSet
      /\ server \in [Items -> Versions]
      /\ shown \in [query : 0..MaxQuery, items : [Items -> Versions]]
      /\ query \in 0..MaxQuery
  BY DEF PagesTypeOK, CallSet
<1>t. ASSUME UNCHANGED panel, here' \in BOOLEAN, calm' \in BOOLEAN,
             dialogs' \subseteq {k.at : k \in panel.controls},
             \A r \in raised' : r[2] \in Items \cup {AnyItem}, calls' \in SUBSET CallSet,
             server' \in [Items -> Versions],
             shown' \in [query : 0..MaxQuery, items : [Items -> Versions]], query' \in 0..MaxQuery
      PROVE  PagesTypeOK'
  <2>1. Jobs' = Jobs
    BY <1>t DEF Jobs
  <2> QED
    BY <1>0, <1>t, <2>1 DEF PagesTypeOK, CallSet
<1>l. LoadJob("effect", None) \in Jobs /\ LoadJob("reload", None) \in Jobs
  BY DEF Jobs
<1>s. ASSUME NEW by, NEW F, \A r \in F : r[2] \in Items \cup {AnyItem}
      PROVE  \A r \in Spin(F, by) : r[2] \in Items \cup {AnyItem}
  BY <1>s DEF Spin, Up, Tag
<1>c. ASSUME NEW c \in calls, NEW F, \A r \in F : r[2] \in Items \cup {AnyItem}
      PROVE  \A r \in DownAll(F, c) : r[2] \in Items \cup {AnyItem}
  BY <1>c DEF DownAll
<1>1. ASSUME NEW k \in panel.controls, NEW h \in panel.handlers, NEW i \in Items, PressButton(k, h, i)
      PROVE  PagesTypeOK'
  <2>1. h \in Jobs
    BY DEF Jobs
  <2>2. calls' \in SUBSET CallSet
    BY <1>0, <1>1, <2>1, FreshIds DEF PressButton
  <2>3. \A r \in raised' : r[2] \in Items \cup {AnyItem}
    BY <1>0, <1>1 DEF PressButton, Up, Tag
  <2>4. calm' \in BOOLEAN
    BY <1>0, <1>1 DEF PressButton
  <2> QED
    BY <1>0, <1>1, <1>t, <2>2, <2>3, <2>4 DEF PressButton
<1>2. ASSUME NEW k \in panel.controls, OpenDialog(k.at) PROVE PagesTypeOK'
  BY <1>0, <1>2, <1>t DEF OpenDialog
<1>3. ASSUME NEW k \in panel.controls, CloseDialog(k.at) PROVE PagesTypeOK'
  <2>1. \A r \in Folded(k.at, raised) : r[2] \in Items \cup {AnyItem}
    BY <1>0 DEF Folded
  <2>2. Orphaned(k.at, calls) \in SUBSET CallSet
    BY <1>0, HeardCalls
  <2>3. \A r \in raised' : r[2] \in Items \cup {AnyItem}
    BY <1>3, <1>s, <2>1 DEF CloseDialog
  <2>4. calls' \in SUBSET CallSet
    BY <1>0, <1>3, <1>l, <2>2, FreshIds DEF CloseDialog
  <2>5. calm' \in BOOLEAN
    BY <1>0, <1>3 DEF CloseDialog
  <2> QED
    BY <1>0, <1>3, <1>t, <2>3, <2>4, <2>5 DEF CloseDialog
<1>4. CASE Rerun
  <2>1. query' \in 0..MaxQuery /\ calm' \in BOOLEAN
    BY <1>0, <1>4 DEF Rerun
  <2>2. Call(LoadJob("effect", None), AnyItem) \in CallSet
    BY <1>4, <1>l, FreshIds DEF Rerun
  <2>3. [Call(LoadJob("effect", None), AnyItem) EXCEPT !.query = query'] \in CallSet
    BY <2>1, <2>2 DEF CallSet
  <2>4. calls' \in SUBSET CallSet
    BY <1>0, <1>4, <2>3, HeardCalls DEF Rerun
  <2>5. \A r \in raised' : r[2] \in Items \cup {AnyItem}
    BY <1>0, <1>4, <1>s DEF Rerun
  <2> QED
    BY <1>0, <1>4, <1>t, <2>1, <2>4, <2>5 DEF Rerun
<1>5. CASE GoAway
  BY <1>0, <1>5, <1>t DEF GoAway
<1>6. ASSUME NEW c \in calls, Succeeds(c) PROVE PagesTypeOK'
  <2>1. /\ calls' \in SUBSET CallSet /\ here' \in BOOLEAN /\ dialogs' \subseteq dialogs
        /\ \A r \in raised' : r[2] \in Items \cup {AnyItem}
    BY <1>6, HandleType DEF Succeeds
  <2>2. server' \in [Items -> Versions]
    BY <1>6, DoneType DEF Succeeds
  <2>3. shown' \in [query : 0..MaxQuery, items : [Items -> Versions]]
    <3>1. [shown EXCEPT !.items[c.item] = server'[c.item]] \in [query : 0..MaxQuery, items : [Items -> Versions]]
      BY <1>0, <2>2
    <3> QED
      BY <1>0, <1>6, <3>1 DEF Succeeds
  <2> QED
    BY <1>0, <1>6, <1>t, <2>1, <2>2, <2>3 DEF Succeeds
<1>7. ASSUME NEW c \in calls, Fails(c) PROVE PagesTypeOK'
  <2>1. /\ calls' \in SUBSET CallSet /\ here' \in BOOLEAN /\ dialogs' \subseteq dialogs
        /\ \A r \in raised' : r[2] \in Items \cup {AnyItem}
    BY <1>7, HandleType DEF Fails
  <2> QED
    BY <1>0, <1>7, <1>t, <2>1 DEF Fails
<1>8. ASSUME NEW c \in calls, AnswerLost(c) PROVE PagesTypeOK'
  <2>1. /\ calls' \in SUBSET CallSet /\ here' \in BOOLEAN /\ dialogs' \subseteq dialogs
        /\ \A r \in raised' : r[2] \in Items \cup {AnyItem}
    BY <1>8, HandleType DEF AnswerLost
  <2>2. server' \in [Items -> Versions]
    BY <1>8, DoneType DEF AnswerLost
  <2> QED
    BY <1>0, <1>8, <1>t, <2>1, <2>2 DEF AnswerLost
<1>9. ASSUME NEW c \in calls, Loaded(c) PROVE PagesTypeOK'
  <2>1. [query |-> c.query, items |-> server] \in [query : 0..MaxQuery, items : [Items -> Versions]]
    BY <1>0 DEF CallSet
  <2>2. \A r \in raised' : r[2] \in Items \cup {AnyItem}
    BY <1>0, <1>9, <1>c DEF Loaded
  <2> QED
    BY <1>0, <1>9, <1>t, <2>1, <2>2 DEF Loaded
<1>10. ASSUME NEW c \in calls, LoadFails(c) PROVE PagesTypeOK'
  <2>1. calm' \in BOOLEAN /\ calls' \in SUBSET CallSet
    BY <1>0, <1>10 DEF LoadFails, CallSet
  <2>2. \A r \in raised' : r[2] \in Items \cup {AnyItem}
    BY <1>0, <1>10, <1>c DEF LoadFails
  <2> QED
    BY <1>0, <1>10, <1>t, <2>1, <2>2 DEF LoadFails
<1>11. CASE UNCHANGED pagesVars
  BY <1>0, <1>11, <1>t DEF pagesVars
<1> QED
  BY <1>1, <1>2, <1>3, <1>4, <1>5, <1>6, <1>7, <1>8, <1>9, <1>10, <1>11 DEF PagesNext

\* Type correctness of the pages: what is in flight is one of the panel's jobs.
THEOREM PagesTyped == PagesSpec => []PagesTypeOK
  BY PagesTypeInit, PagesTypeNext, PTL DEF PagesSpec
-----------------------------------------------------------------------------
(* Buttons. *)

\* The call, when it is answered, takes the flag down.
Frees(c, r) == c.live /\ r[1] \in Lowers(c) /\ (r[1] \in PerItem => r[2] = c.item)

\* Every flag that is up is freed by a call.
ButtonsInv ==
  /\ \A r \in raised : \E c \in calls : Frees(c, r)
  /\ \A r \in raised : r[1] # None

LEMMA RaisedByUp ==
  ASSUME NEW F, NEW flag, NEW i, NEW r \in Up(F, flag, i)
  PROVE  r \in F \/ (flag # None /\ r = Tag(flag, i))
  BY DEF Up

LEMMA RaisedBySpin ==
  ASSUME NEW F, NEW by, NEW r \in Spin(F, by)
  PROVE  r \in F \/ (Spins(by) /\ panel.load.flag # None /\ r[1] = panel.load.flag)
  BY DEF Spin, Up, Tag

\* A flag that is still up after a call took its own down is not one of them.
LEMMA LoweredNot ==
  ASSUME NEW F, NEW c, NEW r \in DownAll(F, c), c.live
  PROVE  r \in F /\ ~Frees(c, r)
  BY DEF DownAll, Down, Frees

LEMMA FoldedNot ==
  ASSUME NEW F, NEW d, NEW r \in Folded(d, F)
  PROVE  r \in F /\ (d \in panel.unmounts => r[1] \notin FlagsAt(d))
  BY DEF Folded

\* A flag that is not of a dialog that goes away keeps its call.
LEMMA OrphanedKeeps ==
  ASSUME PagesTypeOK, NEW cs \in SUBSET CallSet, NEW d, NEW r, r[1] # None,
         d \in panel.unmounts => r[1] \notin FlagsAt(d), NEW c \in cs, Frees(c, r)
  PROVE  \E q \in Orphaned(d, cs) : Frees(q, r)
<1> DEFINE still == ~(d \in panel.unmounts /\ c.job.flag \in FlagsAt(d))
<1>1. still
  <2> SUFFICES ASSUME d \in panel.unmounts, c.job.flag \in FlagsAt(d) PROVE FALSE
    OBVIOUS
  <2>1. r[1] # c.job.flag
    OBVIOUS
  <2>2. c.job.op = "load"
    BY <2>1 DEF Frees, Lowers
  <2>3. PICK h \in panel.handlers, k \in panel.controls : k.do = h.do /\ k.at = d /\ h.flag = c.job.flag
    BY DEF FlagsAt
  <2>4. h.flag # None /\ \A g \in panel.handlers : "await" \in g.ok => g.flag # h.flag
    BY <2>3, PanelIsSound DEF Sound
  <2>5. c.job \in Jobs
    BY DEF CallSet
  <2>6. c.job.flag = None \/ \E g \in panel.handlers : "await" \in g.ok /\ c.job.flag = g.flag
    BY <2>2, <2>5, JobIsOne DEF LoadJob, TimerJob
  <2> QED
    BY <2>3, <2>4, <2>6
<1>2. Heard(c, still) \in Orphaned(d, cs)
  BY DEF Orphaned
<1>3. Frees(Heard(c, still), r)
  BY <1>1, HeardType DEF Frees, Lowers
<1> QED
  BY <1>2, <1>3

\* A load that is superseded takes the spinner with it, which the next one holds.
LEMMA SupersededKeeps ==
  ASSUME PagesTypeOK, NEW cs \in SUBSET CallSet, NEW r, r[1] # None, NEW c \in cs, Frees(c, r)
  PROVE  r[1] = panel.load.flag \/ \E q \in Superseded(cs) : Frees(q, r)
<1> DEFINE still == ~(panel.load.cancels /\ c.job.op = "load" /\ c.job.by = "effect")
<1>1. CASE still
  <2>1. Heard(c, still) \in Superseded(cs)
    BY DEF Superseded
  <2>2. Frees(Heard(c, still), r)
    BY <1>1, HeardType DEF Frees, Lowers
  <2> QED
    BY <2>1, <2>2
<1>2. CASE ~still
  <2>1. c.job \in Jobs /\ c.job.op = "load" /\ c.job.by = "effect"
    BY <1>2 DEF CallSet
  <2>2. c.job.flag = None
    BY <2>1, JobIsOne DEF LoadJob, TimerJob
  <2> QED
    BY <2>2 DEF Frees, Lowers
<1> QED
  BY <1>1, <1>2

\* What follows an answer holds what the answer did not take down.
LEMMA JobEnds ==
  ASSUME PagesTypeOK, NEW c \in calls, c.job.op # "load", c.job.flag # None,
         NEW effects, effects = c.job.ok \/ (effects = c.job.err /\ c.job.timer = FALSE)
  PROVE  "lower" \in effects \/ "leave" \in effects \/ "await" \in effects
<1>1. c.job \in Jobs
  BY DEF PagesTypeOK
<1>2. CASE c.job \in panel.handlers /\ SoundHandler(c.job)
  BY <1>2 DEF SoundHandler, Ends
<1>3. ASSUME NEW h \in panel.handlers, SoundHandler(h), c.job = TimerJob(h)
      PROVE  "lower" \in effects \/ "leave" \in effects
  <2>1. effects = h.after /\ h.tells # None
    BY <1>3 DEF TimerJob
  <2> QED
    BY <1>3, <2>1 DEF SoundHandler
<1> QED
  BY <1>1, <1>2, <1>3, JobIsOne DEF LoadJob

LEMMA HandleButtons ==
  ASSUME PagesTypeOK, ButtonsInv, NEW c \in calls, c.job.op # "load",
         NEW effects, effects = c.job.ok \/ (effects = c.job.err /\ c.job.timer = FALSE),
         Handle(c, effects), UNCHANGED panel
  PROVE  ButtonsInv'
<1> DEFINE others == IF "rerun" \in effects THEN Superseded(calls \ {c}) ELSE calls \ {c}
           lowered == IF "lower" \in effects /\ c.live THEN DownAll(raised, c) ELSE raised
           kept == IF "forget" \in effects THEN {r \in lowered : r[1] \notin PerItem \/ r[2] # c.item}
                   ELSE lowered
           telling == IF "timer" \in effects THEN Up(kept, c.job.tells, c.item) ELSE kept
           spun == IF effects \cap {"reload", "await"} # {} THEN Spin(telling, "reload")
                   ELSE IF "rerun" \in effects THEN Spin(telling, "effect") ELSE telling
           dialog == (CHOOSE k \in panel.controls : k.do = c.job.do).at
<1>0. calls \in SUBSET CallSet /\ c \in CallSet /\ c.job \in Jobs
  BY DEF PagesTypeOK, CallSet
<1>1. CASE "leave" \in effects
  BY <1>1 DEF Handle, ButtonsInv
<1>2. CASE "leave" \notin effects
  <2>1. /\ raised' = IF "close" \in effects THEN Folded(dialog, spun) ELSE spun
        /\ calls' = (IF "close" \in effects THEN Orphaned(dialog, others) ELSE others)
                      \cup Follow(c, effects)
    BY <1>2 DEF Handle
  <2>2. ASSUME NEW r \in spun
        PROVE  r[1] # None /\ ((\E q \in others : Frees(q, r)) \/ \E q \in Follow(c, effects) : Frees(q, r))
    <3> DEFINE reload == Then(c, LoadJob("reload", None))
               await == Then(c, LoadJob("reload", c.job.flag))
               rerun == [Then(c, LoadJob("effect", None)) EXCEPT !.query = query]
               timer == Then(c, TimerJob(c.job))
    <3>1. /\ "timer" \in effects => timer \in Follow(c, effects)
          /\ "reload" \in effects => reload \in Follow(c, effects)
          /\ "await" \in effects => await \in Follow(c, effects)
          /\ "rerun" \in effects => rerun \in Follow(c, effects)
      BY DEF Follow
    <3>2. CASE r \in lowered
      <4>1. r \in raised /\ r[1] # None
        BY <3>2, LoweredNot DEF ButtonsInv
      <4>2. PICK q \in calls : Frees(q, r)
        BY <4>1 DEF ButtonsInv
      <4>3. CASE q # c
        <5>1. CASE "rerun" \notin effects
          BY <4>1, <4>2, <4>3, <5>1
        <5>2. CASE "rerun" \in effects
          <6>1. r[1] = panel.load.flag \/ \E p \in Superseded(calls \ {c}) : Frees(p, r)
            BY <1>0, <4>1, <4>2, <4>3, SupersededKeeps
          <6>2. r[1] = panel.load.flag => Frees(rerun, r)
            BY PanelIsSound DEF Frees, Lowers, Then, LoadJob, Sound
          <6> QED
            BY <3>1, <4>1, <5>2, <6>1, <6>2
        <5> QED
          BY <5>1, <5>2
      <4>4. CASE q = c
        <5>1. r[1] = c.job.flag /\ c.live /\ (r[1] \in PerItem => r[2] = c.item)
          BY <4>2, <4>4 DEF Frees, Lowers
        <5>2. "lower" \notin effects
          BY <3>2, <4>2, <4>4, <5>1, LoweredNot
        <5>3. "await" \in effects
          BY <1>2, <4>1, <5>1, <5>2, JobEnds
        <5>4. Frees(await, r)
          BY <5>1 DEF Frees, Lowers, Then, LoadJob
        <5> QED
          BY <3>1, <4>1, <5>3, <5>4
      <4> QED
        BY <4>3, <4>4
    <3>3. ASSUME "timer" \in effects, c.job.tells # None, r = Tag(c.job.tells, c.item)
          PROVE  r[1] # None /\ Frees(timer, r)
      BY <3>3 DEF Tag, Frees, Lowers, Then, TimerJob
    <3>4. CASE r \in telling
      <4>1. r \in kept \/ ("timer" \in effects /\ c.job.tells # None /\ r = Tag(c.job.tells, c.item))
        <5> HIDE DEF kept
        <5> QED
          BY <3>4, RaisedByUp
      <4>2. r \in kept => r \in lowered
        OBVIOUS
      <4> QED
        BY <4>1, <4>2, <3>1, <3>2, <3>3
    <3>5. CASE r \notin telling
      <4> HIDE DEF telling
      <4>1. CASE effects \cap {"reload", "await"} # {}
        <5>1. Spins("reload") /\ panel.load.flag # None /\ r[1] = panel.load.flag
          BY <3>5, <4>1, RaisedBySpin
        <5>2. panel.load.flag \notin PerItem
          BY PanelIsSound DEF Sound
        <5>3. Frees(reload, r) /\ Frees(await, r)
          BY <5>1, <5>2 DEF Frees, Lowers, Then, LoadJob
        <5> QED
          BY <3>1, <4>1, <5>1, <5>3
      <4>2. CASE effects \cap {"reload", "await"} = {} /\ "rerun" \in effects
        <5>1. panel.load.flag # None /\ r[1] = panel.load.flag
          BY <3>5, <4>2, RaisedBySpin
        <5>2. panel.load.flag \notin PerItem
          BY PanelIsSound DEF Sound
        <5>3. Frees(rerun, r)
          BY <5>1, <5>2 DEF Frees, Lowers, Then, LoadJob
        <5> QED
          BY <3>1, <4>2, <5>1, <5>3
      <4> QED
        BY <3>5, <4>1, <4>2
    <3> QED
      BY <3>4, <3>5
  <2>3. others \in SUBSET CallSet
    <3>1. calls \ {c} \in SUBSET CallSet
      BY <1>0
    <3> QED
      BY <3>1, HeardCalls
  <2> HIDE DEF others, spun
  <2>4. ASSUME NEW r \in raised' PROVE r[1] # None /\ \E q \in calls' : Frees(q, r)
    <3>1. r \in spun /\ ("close" \in effects => (dialog \in panel.unmounts => r[1] \notin FlagsAt(dialog)))
      BY <2>1, FoldedNot
    <3>2. CASE \E q \in Follow(c, effects) : Frees(q, r)
      BY <2>1, <2>2, <3>1, <3>2
    <3>3. CASE \E q \in others : Frees(q, r)
      <4>1. "close" \in effects => \E q \in Orphaned(dialog, others) : Frees(q, r)
        BY <2>2, <2>3, <3>1, <3>3, OrphanedKeeps
      <4> QED
        BY <2>1, <2>2, <3>1, <3>3, <4>1
    <3> QED
      BY <2>2, <3>1, <3>2, <3>3
  <2> QED
    BY <2>4 DEF ButtonsInv, Frees, Lowers, Spins
<1> QED
  BY <1>1, <1>2

LEMMA ButtonsStart == PagesInit => ButtonsInv
<1> SUFFICES ASSUME PagesInit PROVE ButtonsInv
  OBVIOUS
<1>1. Sound(panel)
  BY TablesAreSound DEF PagesInit
<1>2. CASE panel.load.loads
  <2> DEFINE first == [id |-> 1, job |-> LoadJob("effect", None), item |-> AnyItem, live |-> TRUE, query |-> 0]
  <2>1. first \in calls
    BY <1>2 DEF PagesInit
  <2>2. ASSUME NEW r \in raised PROVE r[1] # None /\ Frees(first, r)
    <3>1. panel.load.flag # None /\ r = Tag(panel.load.flag, AnyItem)
      BY <1>2, RaisedByUp DEF PagesInit
    <3> QED
      BY <1>1, <3>1 DEF Tag, Frees, Lowers, LoadJob, Sound
  <2> QED
    BY <2>1, <2>2 DEF ButtonsInv
<1>3. CASE ~panel.load.loads
  BY <1>3 DEF PagesInit, ButtonsInv
<1> QED
  BY <1>2, <1>3

LEMMA ButtonsNext == PagesTypeOK /\ ButtonsInv /\ [PagesNext]_pagesVars => ButtonsInv'
<1> SUFFICES ASSUME PagesTypeOK, ButtonsInv, [PagesNext]_pagesVars PROVE ButtonsInv'
  OBVIOUS
<1>0. calls \in SUBSET CallSet /\ Sound(panel)
  BY PanelIsSound DEF PagesTypeOK, CallSet
<1>t. ASSUME UNCHANGED panel, \A r \in raised' : r[1] # None /\ \E c \in calls' : Frees(c, r)
      PROVE  ButtonsInv'
  BY <1>t DEF ButtonsInv, Frees, Lowers, Spins
<1>1. ASSUME NEW k \in panel.controls, NEW h \in panel.handlers, NEW i \in Items, PressButton(k, h, i)
      PROVE  ButtonsInv'
  <2>1. ASSUME NEW r \in raised' PROVE r[1] # None /\ \E c \in calls' : Frees(c, r)
    <3>1. CASE r \in raised
      BY <1>1, <3>1 DEF ButtonsInv, PressButton
    <3>2. CASE h.flag # None /\ r = Tag(h.flag, i)
      <4>1. Frees(Call(h, i), r)
        BY <3>2 DEF Frees, Lowers, Call, Tag
      <4> QED
        BY <1>1, <3>2, <4>1 DEF PressButton, Tag
    <3> QED
      BY <1>1, <3>1, <3>2, RaisedByUp DEF PressButton
  <2> QED
    BY <1>1, <1>t, <2>1 DEF PressButton
<1>2. ASSUME NEW k \in panel.controls, OpenDialog(k.at) PROVE ButtonsInv'
  BY <1>2, <1>t DEF OpenDialog, ButtonsInv
<1>3. ASSUME NEW k \in panel.controls, CloseDialog(k.at) PROVE ButtonsInv'
  <2> DEFINE d == k.at
             reload == Call(LoadJob("reload", None), AnyItem)
  <2>1. \A r \in Folded(d, raised) : r[1] # None /\ \E c \in Orphaned(d, calls) : Frees(c, r)
    BY <1>0, FoldedNot, OrphanedKeeps DEF ButtonsInv
  <2>2. CASE d \in panel.refreshes
    <3>1. /\ raised' = Spin(Folded(d, raised), "reload")
          /\ calls' = Orphaned(d, calls) \cup {reload}
      BY <1>3, <2>2 DEF CloseDialog
    <3>2. ASSUME NEW r \in raised', r \notin Folded(d, raised) PROVE r[1] # None /\ Frees(reload, r)
      <4>1. Spins("reload") /\ panel.load.flag # None /\ r[1] = panel.load.flag
        BY <3>1, <3>2, RaisedBySpin
      <4> QED
        BY <1>0, <4>1 DEF Frees, Lowers, Call, LoadJob, Sound
    <3> QED
      BY <1>3, <1>t, <2>1, <3>1, <3>2 DEF CloseDialog
  <2>3. CASE d \notin panel.refreshes
    BY <1>3, <1>t, <2>1, <2>3 DEF CloseDialog
  <2> QED
    BY <2>2, <2>3
<1>4. CASE Rerun
  <2> DEFINE effect == [Call(LoadJob("effect", None), AnyItem) EXCEPT !.query = query']
  <2>1. raised' = Spin(raised, "effect") /\ calls' = Superseded(calls) \cup {effect} /\ UNCHANGED panel
    BY <1>4 DEF Rerun
  <2>2. ASSUME NEW r, r[1] = panel.load.flag PROVE Frees(effect, r)
    BY <1>0, <2>2 DEF Frees, Lowers, Call, LoadJob, Sound
  <2>3. ASSUME NEW r \in raised' PROVE r[1] # None /\ \E c \in calls' : Frees(c, r)
    <3>1. CASE r \in raised
      <4>1. r[1] = panel.load.flag \/ \E q \in Superseded(calls) : Frees(q, r)
        BY <1>0, <3>1, SupersededKeeps DEF ButtonsInv
      <4> QED
        BY <2>1, <2>2, <3>1, <4>1 DEF ButtonsInv
    <3>2. CASE r \notin raised
      <4>1. panel.load.flag # None /\ r[1] = panel.load.flag
        BY <2>1, <3>2, RaisedBySpin
      <4> QED
        BY <2>1, <2>2, <4>1
    <3> QED
      BY <3>1, <3>2
  <2> QED
    BY <1>t, <2>1, <2>3
<1>5. CASE GoAway
  BY <1>5 DEF GoAway, ButtonsInv
<1>6. ASSUME NEW c \in calls, Succeeds(c) PROVE ButtonsInv'
  BY <1>6, HandleButtons DEF Succeeds
<1>7. ASSUME NEW c \in calls, Fails(c) \/ AnswerLost(c) PROVE ButtonsInv'
  <2>1. c.job.timer = FALSE
    <3>1. c.job \in Jobs /\ c.job.op # "load" /\ ~c.job.timer
      BY <1>7 DEF PagesTypeOK, Fails, AnswerLost
    <3> QED
      BY <3>1, JobIsOne DEF LoadJob, TimerJob, SoundHandler
  <2> QED
    BY <1>7, <2>1, HandleButtons DEF Fails, AnswerLost
<1>8. ASSUME NEW c \in calls, Loaded(c) \/ LoadFails(c) PROVE ButtonsInv'
  <2>1. /\ calls' = calls \ {c} /\ UNCHANGED panel
        /\ raised' = IF c.live THEN DownAll(raised, c) ELSE raised
    BY <1>8 DEF Loaded, LoadFails
  <2>2. ASSUME NEW r \in raised' PROVE r \in raised /\ ~Frees(c, r)
    BY <2>1, LoweredNot DEF Frees
  <2> QED
    BY <1>t, <2>1, <2>2 DEF ButtonsInv
<1>9. CASE UNCHANGED pagesVars
  BY <1>9, <1>t DEF pagesVars, ButtonsInv
<1> QED
  BY <1>1, <1>2, <1>3, <1>4, <1>5, <1>6, <1>7, <1>8, <1>9 DEF PagesNext

\* Every button and spinner comes back, on every panel of the program and for any number of
\* items and requests.
THEOREM ButtonsDoComeBack == PagesSpec => []ButtonsComeBack
<1>1. ButtonsInv => ButtonsComeBack
  BY DEF ButtonsInv, ButtonsComeBack, Frees
<1> QED
  BY <1>1, PagesTyped, ButtonsStart, ButtonsNext, PTL DEF PagesSpec
-----------------------------------------------------------------------------
(* Lists. *)

Fresh == shown = [query |-> query, items |-> server]

Refreshing == {"reload", "rerun", "leave"}

\* One request is in flight, over a list that is up to date; or a timer, which brings it
\* up to date.
Working(c) ==
  /\ calls = {c} /\ c.job.op # "load" /\ c.query = query /\ c.item \in Items
  /\ Fresh \/ (c.job.timer /\ Refreshing \cap c.job.ok # {})

\* Nothing but loads, of which those that count ask for what the list depends on now.
Loading ==
  /\ \A c \in calls : /\ c.job.op = "load"
                      /\ c.live => c.query = query
                      /\ ~c.live => ~panel.load.late
  /\ Fresh \/ \E c \in calls : c.live

\* What a user who waits for each answer may find.
ListsInv == here /\ calm => Loading \/ \E c \in calls : Working(c)

\* What a handler starts when it is answered, one thing at most.
LEMMA OneFollows ==
  ASSUME PagesTypeOK, NEW c \in calls, c.job.op # "load"
  PROVE  /\ Starts \cap c.job.err = {}
         /\ \A a, b \in Starts \cap c.job.ok : a = b
         /\ c.job.timer => "timer" \notin c.job.ok /\ c.job.op = "none"
         /\ ~c.job.timer /\ c.job.op # "none" =>
              \/ {"patch", "reload", "await", "rerun", "leave"} \cap c.job.ok # {}
              \/ "timer" \in c.job.ok /\ Refreshing \cap c.job.after # {}
<1>1. c.job \in Jobs
  BY DEF PagesTypeOK
<1>2. CASE c.job \in panel.handlers /\ SoundHandler(c.job)
  BY <1>2 DEF SoundHandler, Refreshing
<1>3. ASSUME NEW h \in panel.handlers, SoundHandler(h), c.job = TimerJob(h)
      PROVE  /\ c.job.err = {} /\ c.job.ok = h.after /\ c.job.op = "none" /\ c.job.timer
             /\ "timer" \notin c.job.ok
             /\ \A a, b \in Starts \cap c.job.ok : a = b
  BY <1>3 DEF TimerJob, SoundHandler
<1> QED
  BY <1>1, <1>2, <1>3, JobIsOne DEF LoadJob

\* A load is not of a dialog that goes away.
LEMMA LoadIsNotOrphaned ==
  ASSUME PagesTypeOK, NEW c \in CallSet, c.job.op = "load", NEW d \in panel.unmounts
  PROVE  c.job.flag \notin FlagsAt(d)
<1> SUFFICES ASSUME c.job.flag \in FlagsAt(d) PROVE FALSE
  OBVIOUS
<1>1. PICK h \in panel.handlers, k \in panel.controls : k.do = h.do /\ k.at = d /\ h.flag = c.job.flag
  BY DEF FlagsAt
<1>2. h.flag # None /\ \A g \in panel.handlers : "await" \in g.ok => g.flag # h.flag
  BY <1>1, PanelIsSound DEF Sound
<1>3. c.job \in Jobs
  BY DEF CallSet
<1> QED
  BY <1>1, <1>2, <1>3, JobIsOne DEF LoadJob, TimerJob

\* What remains of one request once it is answered and the page is still there.
LEMMA HandleAlone ==
  ASSUME PagesTypeOK, NEW c \in calls, calls = {c}, c.job.op # "load",
         NEW effects, effects = c.job.ok \/ effects = c.job.err, Handle(c, effects), here'
  PROVE  "leave" \notin effects /\ calls' = Follow(c, effects)
<1>1. "leave" \notin effects
  BY DEF Handle
<1>2. Superseded(calls \ {c}) = {} /\ calls \ {c} = {}
  BY DEF Superseded
<1>3. \A d : Orphaned(d, {}) = {}
  BY DEF Orphaned
<1>4. calls' = Follow(c, effects)
  BY <1>1, <1>2, <1>3 DEF Handle
<1> QED
  BY <1>1, <1>4

\* A request is answered, and the list is up to date, being loaded, or waits for the timer.
LEMMA AnsweredAlone ==
  ASSUME PagesTypeOK, NEW c \in calls, Working(c),
         NEW effects, effects = c.job.ok \/ effects = c.job.err, Handle(c, effects), here',
         UNCHANGED <<panel, query>>,
         \/ Fresh'
         \/ {"reload", "await", "rerun"} \cap effects # {}
         \/ "timer" \in effects /\ Refreshing \cap c.job.after # {}
  PROVE  ListsInv'
<1>1. /\ calls = {c} /\ c.job.op # "load" /\ c.query = query /\ c.item \in Items
      /\ c \in CallSet
  BY DEF Working, PagesTypeOK, CallSet
<1>2. "leave" \notin effects /\ calls' = Follow(c, effects)
  BY <1>1, HandleAlone
<1>3. \A a, b \in Starts \cap effects : a = b
  BY <1>1, OneFollows
<1>4. ASSUME {"timer", "reload", "await", "rerun"} \cap effects = {} PROVE ListsInv'
  <2>1. calls' = {} /\ Fresh'
    BY <1>2, <1>4 DEF Follow
  <2> QED
    BY <2>1 DEF ListsInv, Loading
<1>5. ASSUME "timer" \in effects PROVE ListsInv'
  <2> DEFINE timer == Then(c, TimerJob(c.job))
  <2>1. calls' = {timer} /\ (Fresh' \/ Refreshing \cap c.job.after # {})
    BY <1>2, <1>3, <1>5 DEF Follow, Starts
  <2>2. /\ timer.job.op = "none" /\ timer.query = query' /\ timer.item \in Items
        /\ timer.job.timer /\ timer.job.ok = c.job.after
    BY <1>1 DEF Then, TimerJob
  <2> HIDE DEF timer
  <2>3. Working(timer)'
    BY <2>1, <2>2 DEF Working
  <2> QED
    BY <2>1, <2>3 DEF ListsInv
<1>6. ASSUME NEW load, calls' = {load}, load.job.op = "load", load.live, load.query = query'
      PROVE  ListsInv'
  BY <1>6 DEF ListsInv, Loading
<1>7. CASE "reload" \in effects
  <2>1. calls' = {Then(c, LoadJob("reload", None))}
    BY <1>2, <1>3, <1>7 DEF Follow, Starts
  <2>2. PICK load : load = Then(c, LoadJob("reload", None))
    OBVIOUS
  <2>3. load.job.op = "load" /\ load.live /\ load.query = c.query
    BY <2>2 DEF Then, LoadJob
  <2> QED
    BY <1>1, <1>6, <2>1, <2>2, <2>3
<1>8. CASE "await" \in effects
  <2>1. calls' = {Then(c, LoadJob("reload", c.job.flag))}
    BY <1>2, <1>3, <1>8 DEF Follow, Starts
  <2>2. PICK load : load = Then(c, LoadJob("reload", c.job.flag))
    OBVIOUS
  <2>3. load.job.op = "load" /\ load.live /\ load.query = c.query
    BY <2>2 DEF Then, LoadJob
  <2> QED
    BY <1>1, <1>6, <2>1, <2>2, <2>3
<1>9. CASE "rerun" \in effects
  <2>1. calls' = {[Then(c, LoadJob("effect", None)) EXCEPT !.query = query]}
    BY <1>2, <1>3, <1>9 DEF Follow, Starts
  <2>2. PICK load : load = [Then(c, LoadJob("effect", None)) EXCEPT !.query = query]
    OBVIOUS
  <2>3. load.job.op = "load" /\ load.live /\ load.query = query
    BY <2>2 DEF Then, LoadJob
  <2> QED
    BY <1>1, <1>6, <2>1, <2>2, <2>3
<1> QED
  BY <1>4, <1>5, <1>7, <1>8, <1>9

\* An item that is edited in the list as it was changed on the server.
LEMMA PatchIsFresh ==
  ASSUME PagesTypeOK, NEW c \in calls, c.item \in Items, Fresh, Possible(c.job, c.item),
         UNCHANGED query, server' = Done(c.job, c.item),
         shown' = [shown EXCEPT !.items[c.item] = server'[c.item]]
  PROVE  Fresh'
<1>1. server \in [Items -> 0..2] /\ server' \in [Items -> 0..2]
  BY DoneType DEF PagesTypeOK, Versions
<1>2. \A j \in Items \ {c.item} : server'[j] = server[j]
  BY <1>1 DEF Done
<1>3. server' = [server EXCEPT ![c.item] = server'[c.item]]
  BY <1>1, <1>2
<1>4. shown' = [query |-> query, items |-> [server EXCEPT ![c.item] = server'[c.item]]]
  BY DEF Fresh
<1> QED
  BY <1>3, <1>4 DEF Fresh

LEMMA ListsStart == PagesInit => ListsInv
<1> SUFFICES ASSUME PagesInit PROVE Loading
  BY DEF ListsInv
<1>1. CASE panel.load.loads
  <2> DEFINE first == [id |-> 1, job |-> LoadJob("effect", None), item |-> AnyItem,
                       live |-> TRUE, query |-> 0]
  <2>1. calls = {first} /\ query = 0
    BY <1>1 DEF PagesInit
  <2>2. first.job.op = "load" /\ first.live /\ first.query = 0
    BY DEF LoadJob
  <2> HIDE DEF first
  <2> QED
    BY <2>1, <2>2 DEF Loading
<1>2. CASE ~panel.load.loads
  BY <1>2 DEF PagesInit, Loading, Fresh
<1> QED
  BY <1>1, <1>2

LEMMA ListsNext == PagesTypeOK /\ ListsInv /\ [PagesNext]_pagesVars => ListsInv'
<1> SUFFICES ASSUME PagesTypeOK, ListsInv, [PagesNext]_pagesVars, here', calm' PROVE ListsInv'
  BY DEF ListsInv
<1>0. calls \in SUBSET CallSet
  BY DEF PagesTypeOK, CallSet
<1>1. ASSUME NEW k \in panel.controls, NEW h \in panel.handlers, NEW i \in Items, PressButton(k, h, i)
      PROVE  ListsInv'
  <2>0. PICK c : c = Call(h, i)
    OBVIOUS
  <2>1. here /\ calm /\ calls = {} /\ calls' = {c} /\ UNCHANGED <<panel, server, shown, query>>
    BY <1>1, <2>0 DEF PressButton
  <2>2. c.job = h /\ c.item = i /\ c.query = query
    BY <2>0 DEF Call
  <2>3. h.op # "load"
    BY PanelIsSound DEF Sound, SoundHandler
  <2>4. Fresh
    BY <2>1 DEF ListsInv, Loading
  <2>5. Working(c)'
    BY <2>1, <2>2, <2>3, <2>4 DEF Working, Fresh
  <2> QED
    BY <2>1, <2>5 DEF ListsInv
<1>2. ASSUME NEW k \in panel.controls, OpenDialog(k.at) PROVE ListsInv'
  BY <1>2 DEF OpenDialog, ListsInv, Loading, Working, Fresh
<1>3. ASSUME NEW k \in panel.controls, CloseDialog(k.at) PROVE ListsInv'
  <2> DEFINE d == k.at
  <2>1. UNCHANGED <<panel, here, server, shown, query>> /\ here /\ calm
    BY <1>3 DEF CloseDialog
  <2>2. CASE d \in panel.refreshes
    <3> DEFINE reload == Call(LoadJob("reload", None), AnyItem)
    <3>1. calls = {} /\ calls' = Orphaned(d, {}) \cup {reload}
      BY <1>3, <2>2 DEF CloseDialog
    <3>2. calls' = {reload}
      BY <3>1 DEF Orphaned
    <3>3. reload.job.op = "load" /\ reload.live /\ reload.query = query'
      BY <2>1 DEF Call, LoadJob
    <3> HIDE DEF reload
    <3> QED
      BY <3>2, <3>3 DEF ListsInv, Loading
  <2>3. CASE d \notin panel.refreshes
    <3>1. calls' = Orphaned(d, calls)
      BY <1>3, <2>3 DEF CloseDialog
    <3> DEFINE still(c) == ~(d \in panel.unmounts /\ c.job.flag \in FlagsAt(d))
    <3>2. \A c \in calls : c.job.op = "load" => still(c)
      BY <1>0, LoadIsNotOrphaned
    <3>3. \A q \in calls' : \E c \in calls : q = Heard(c, still(c))
      BY <3>1 DEF Orphaned
    <3>4. \A c \in calls : Heard(c, still(c)) \in calls'
      BY <3>1 DEF Orphaned
    <3>5. ASSUME NEW c \in calls, NEW q, q = Heard(c, still(c))
          PROVE  /\ q.job = c.job /\ q.item = c.item /\ q.query = c.query
                 /\ q.job.op = "load" => q.live = c.live
      <4>1. c.live \in BOOLEAN
        BY <1>0 DEF CallSet
      <4>2. q.job = c.job /\ q.item = c.item /\ q.query = c.query /\ q.live = (c.live /\ still(c))
        BY <3>5 DEF Heard
      <4> QED
        BY <3>2, <4>1, <4>2
    <3> HIDE DEF still
    <3>6. CASE Loading
      <4>1. \A q \in calls' : q.job.op = "load" /\ (q.live => q.query = query) /\ (~q.live => ~panel.load.late)
        BY <3>3, <3>5, <3>6 DEF Loading
      <4>2. Fresh \/ \E q \in calls' : q.live
        BY <3>4, <3>5, <3>6 DEF Loading
      <4> QED
        BY <2>1, <4>1, <4>2 DEF ListsInv, Loading, Fresh
    <3>7. ASSUME NEW c \in calls, Working(c) PROVE ListsInv'
      <4>0. PICK q : q = Heard(c, still(c))
        OBVIOUS
      <4>1. calls' = {q}
        BY <3>3, <3>4, <3>7, <4>0 DEF Working
      <4>2. q.job = c.job /\ q.item = c.item /\ q.query = c.query
        BY <3>5, <4>0
      <4>3. Working(q)'
        BY <2>1, <3>7, <4>1, <4>2 DEF Working, Fresh
      <4> QED
        BY <4>1, <4>3 DEF ListsInv
    <3> QED
      BY <2>1, <3>6, <3>7 DEF ListsInv
  <2> QED
    BY <2>2, <2>3
<1>4. CASE Rerun
  <2> DEFINE effect == [Call(LoadJob("effect", None), AnyItem) EXCEPT !.query = query']
  <2>1. /\ calls' = Superseded(calls) \cup {effect} /\ UNCHANGED <<panel, server, shown>>
        /\ \A c \in calls : c.job.by = "effect" /\ panel.load.cancels /\ ~panel.load.late
        /\ here /\ calm
    BY <1>4 DEF Rerun
  <2>2. effect.job.op = "load" /\ effect.live /\ effect.query = query'
    BY DEF Call, LoadJob
  <2>3. \A c \in calls : c.job.op = "load"
    <3>1. \A c \in calls : c.job \in Jobs /\ c.job.by = "effect"
      BY <2>1 DEF PagesTypeOK
    <3>2. \A h \in panel.handlers : SoundHandler(h) => h.by = "user"
      BY DEF SoundHandler
    <3>3. \A h \in panel.handlers : TimerJob(h).by = h.by
      BY DEF TimerJob
    <3>4. \A f : LoadJob("effect", f).op = "load" /\ LoadJob("reload", f).op = "load"
      BY DEF LoadJob
    <3> QED
      BY <3>1, <3>2, <3>3, <3>4, JobIsOne
  <2>4. ASSUME NEW q \in Superseded(calls)
        PROVE  q.job.op = "load" /\ ~q.live /\ ~panel.load.late
    <3>1. PICK c \in calls : q = Heard(c, ~(panel.load.cancels /\ c.job.op = "load" /\ c.job.by = "effect"))
      BY DEF Superseded
    <3>2. q = Heard(c, FALSE) /\ c.job.op = "load" /\ ~panel.load.late
      BY <2>1, <2>3, <3>1
    <3>3. q.job = c.job /\ q.live = FALSE
      BY <3>2 DEF Heard
    <3> QED
      BY <3>2, <3>3
  <2> HIDE DEF effect
  <2> QED
    BY <2>1, <2>2, <2>4 DEF ListsInv, Loading
<1>5. CASE GoAway
  BY <1>5 DEF GoAway
<1>6. ASSUME NEW c \in calls, Succeeds(c) PROVE ListsInv'
  <2>1. /\ here /\ calm /\ c.job.op # "load" /\ Possible(c.job, c.item)
        /\ server' = Done(c.job, c.item) /\ Handle(c, c.job.ok) /\ UNCHANGED <<panel, query>>
        /\ shown' = IF "patch" \in c.job.ok
                    THEN [shown EXCEPT !.items[c.item] = server'[c.item]] ELSE shown
    BY <1>6 DEF Succeeds
  <2>2. Working(c)
    BY <2>1 DEF ListsInv, Loading, Working
  <2>3. "leave" \notin c.job.ok
    BY <2>1, <2>2, HandleAlone DEF Working
  <2>4. CASE c.job.timer /\ Refreshing \cap c.job.ok # {}
    BY <2>1, <2>2, <2>3, <2>4, AnsweredAlone DEF Refreshing
  <2>5. CASE Fresh
    <3>1. CASE "patch" \in c.job.ok
      <4>1. Fresh'
        BY <2>1, <2>2, <2>5, <3>1, PatchIsFresh DEF Working
      <4> QED
        BY <2>1, <2>2, <4>1, AnsweredAlone
    <3>2. CASE "patch" \notin c.job.ok /\ c.job.op = "none"
      <4>1. Fresh'
        BY <2>1, <2>5, <3>2 DEF Fresh, Done
      <4> QED
        BY <2>1, <2>2, <4>1, AnsweredAlone
    <3>3. CASE "patch" \notin c.job.ok /\ c.job.op # "none"
      <4>1. \/ {"reload", "await", "rerun"} \cap c.job.ok # {}
            \/ "timer" \in c.job.ok /\ Refreshing \cap c.job.after # {}
        BY <2>1, <2>3, <3>3, OneFollows
      <4> QED
        BY <2>1, <2>2, <4>1, AnsweredAlone
    <3> QED
      BY <3>1, <3>2, <3>3
  <2> QED
    BY <2>2, <2>4, <2>5 DEF Working
<1>7. ASSUME NEW c \in calls, Fails(c) PROVE ListsInv'
  <2>1. /\ here /\ calm /\ c.job.op # "load" /\ ~c.job.timer /\ Handle(c, c.job.err)
        /\ UNCHANGED <<panel, server, shown, query>>
    BY <1>7 DEF Fails
  <2>2. Working(c) /\ Fresh
    BY <2>1 DEF ListsInv, Loading, Working
  <2>3. Fresh'
    BY <2>1, <2>2 DEF Fresh
  <2> QED
    BY <2>1, <2>2, <2>3, AnsweredAlone
<1>8. ASSUME NEW c \in calls, AnswerLost(c) PROVE ListsInv'
  BY <1>8 DEF AnswerLost
<1>9. ASSUME NEW c \in calls, Loaded(c) \/ LoadFails(c) PROVE ListsInv'
  <2>1. /\ here /\ calm /\ c.job.op = "load" /\ calls' = calls \ {c} /\ UNCHANGED <<panel, server, query>>
        /\ \/ shown' = [query |-> c.query, items |-> server] /\ (c.live \/ panel.load.late)
           \/ ~c.live /\ UNCHANGED shown
    BY <1>9 DEF Loaded, LoadFails
  <2>2. Loading
    BY <2>1 DEF ListsInv, Working
  <2>3. CASE c.live
    BY <2>1, <2>2, <2>3 DEF ListsInv, Loading, Fresh
  <2>4. CASE ~c.live
    BY <2>1, <2>2, <2>4 DEF ListsInv, Loading, Fresh
  <2> QED
    BY <2>3, <2>4
<1>10. CASE UNCHANGED pagesVars
  BY <1>10 DEF pagesVars, ListsInv, Loading, Working, Fresh
<1> QED
  BY <1>1, <1>2, <1>3, <1>4, <1>5, <1>6, <1>7, <1>8, <1>9, <1>10 DEF PagesNext

\* A user who waits for each answer sees what the server has, on every panel.
THEOREM ListsDoAgree == PagesSpec => []ListsAgree
<1>1. ListsInv => ListsAgree
  BY DEF ListsInv, Loading, Fresh, ListsAgree
<1> QED
  BY <1>1, PagesTyped, ListsStart, ListsNext, PTL DEF PagesSpec
-----------------------------------------------------------------------------
(* Blueprint. *)

Names  == {DefaultName[k] : k \in Terraform} \cup Renames \cup {""}
Fields == UNION {Offered(k) : k \in Catalog}
IdSet  == Catalog \X Nat

Outputs    == UNION {PickerOutputs[k] : k \in Terraform}
TextRecord ==
  [how : {"none", "literal"}, to : {<<>>}, out : {""}]
    \cup [how : {"address"}, to : Terraform \X Names, out : {""}]
    \cup [how : {"hole"}, to : Terraform \X Nat, out : Outputs]

NodeRecord == [id : IdSet, keys : SUBSET Fields, link : TextRecord, guard : TextRecord, name : Names]

\* What a text attaches to can be attached to: an output the picker lists, and, of a
\* subnet, a VPC.
SoundText(t) == t.how = "hole" => t.out \in PickerOutputs[Kind(t.to)]

SoundNode(n) ==
  /\ n.keys \subseteq Offered(Kind(n.id))
  /\ SoundText(n.link) /\ SoundText(n.guard)
  /\ Kind(n.id) = "aws_subnet" /\ n.link.how = "address" => n.link.to[1] = "aws_vpc"

OnCanvas(id) == \E n \in Nodes : n.id = id

DesignInv ==
  /\ design \in Seq(NodeRecord) /\ \A n \in Nodes : SoundNode(n)
  /\ \A i, j \in DOMAIN design : design[i].id = design[j].id => i = j
  /\ wiring \in Seq(IdSet \X IdSet)
  /\ \A x \in DOMAIN wiring : OnCanvas(wiring[x][1]) /\ OnCanvas(wiring[x][2])
  /\ edited # <<>> => \E n \in Nodes : edited[1] = n.id /\ edited[2] \in n.keys
  /\ edits \in 0..MaxEdits
-----------------------------------------------------------------------------
(* What is looked up. *)

LEMMA FirstIsOne ==
  ASSUME NEW S \in SUBSET Nat, S # {} PROVE First(S) \in S
BY LeastOf DEF First

LEMMA NodesAre ==
  ASSUME DesignInv
  PROVE  /\ Nodes \subseteq NodeRecord /\ \A n \in Nodes : SoundNode(n)
         /\ DOMAIN design \in SUBSET Nat /\ DOMAIN wiring \in SUBSET Nat
         /\ \A i \in DOMAIN design : design[i] \in Nodes
<1>1. DOMAIN design = 1..Len(design) /\ DOMAIN wiring = 1..Len(wiring)
  BY DEF DesignInv
<1>2. \A i \in DOMAIN design : design[i] \in NodeRecord
  BY DEF DesignInv
<1>3. Len(design) \in Nat /\ Len(wiring) \in Nat
  BY DEF DesignInv
<1>4. DOMAIN design \in SUBSET Nat /\ DOMAIN wiring \in SUBSET Nat
  BY <1>1, <1>3
<1> QED
  BY <1>2, <1>4 DEF Nodes, DesignInv

LEMMA FirstOfKind ==
  ASSUME DesignInv, NEW K, Has(K)
  PROVE  \E n \in Nodes : n.id = FirstOf(K) /\ Kind(n.id) \in K
<1>1. OfKind(K) \in SUBSET Nat /\ OfKind(K) # {}
  BY NodesAre DEF OfKind, Has
<1>2. First(OfKind(K)) \in OfKind(K)
  BY <1>1, FirstIsOne
<1> QED
  BY <1>2, NodesAre DEF OfKind, FirstOf

LEMMA SourceIsOnCanvas ==
  ASSUME DesignInv, NEW id, NEW K, Wired(id, K) # {}
  PROVE  \E n \in Nodes : n.id = Source(id, K) /\ Kind(n.id) \in K
<1>1. Wired(id, K) \in SUBSET Nat
  BY NodesAre DEF Wired
<1>2. First(Wired(id, K)) \in Wired(id, K)
  BY <1>1, FirstIsOne
<1>3. First(Wired(id, K)) \in DOMAIN wiring /\ Kind(Source(id, K)) \in K
  BY <1>2 DEF Wired, Source
<1> QED
  BY <1>3 DEF DesignInv, OnCanvas, Source

LEMMA HasWhenThere ==
  ASSUME NEW n \in Nodes, NEW K, Kind(n.id) \in K PROVE Has(K)
BY DEF Nodes, Has, OfKind
-----------------------------------------------------------------------------
(* What the bundle declares. *)

Declared == {b.at : b \in MainTf}

LEMMA BlockParts ==
  \A at, uses, reads : /\ Block(at, uses, reads).at = at
                       /\ Block(at, uses, reads).uses = uses
                       /\ Block(at, uses, reads).reads = reads
BY DEF Block

LEMMA VariablesAreDeclared ==
  ASSUME Has(Terraform)
  PROVE  /\ HasAws => <<"var", "aws_ssh_pub_key">> \in Declared
         /\ HasGcp => {<<"var", "gcp_project_id">>, <<"var", "gcp_region">>, <<"var", "gcp_zone">>,
                       <<"var", "gcp_ssh_pub_key">>} \subseteq Declared
<1>1. Variables \subseteq MainTf
  BY DEF MainTf
<1>2. \A name : Variable(name) \in Variables => <<"var", name>> \in Declared
  BY <1>1, BlockParts DEF Declared, Variable
<1>3. HasAws => Variable("aws_ssh_pub_key") \in Variables
  BY DEF Variables
<1>4. HasGcp => {Variable("gcp_project_id"), Variable("gcp_region"), Variable("gcp_zone"),
                 Variable("gcp_ssh_pub_key")} \subseteq Variables
  BY DEF Variables
<1> QED
  BY <1>2, <1>3, <1>4

LEMMA BlockIsWritten ==
  ASSUME NEW n \in Nodes, Kind(n.id) \in Terraform, NEW b \in ResourceBlocks(n)
  PROVE  b \in MainTf /\ b.at \in Declared
<1>1. PICK i \in DOMAIN design : n = design[i]
  BY DEF Nodes
<1>2. i \in OfKind(Terraform)
  BY <1>1 DEF OfKind
<1>3. b \in MainTf
  BY <1>1, <1>2 DEF MainTf, Has
<1> QED
  BY <1>3 DEF Declared

LEMMA NodeIsDeclared ==
  ASSUME HasAws, NEW n \in Nodes, Kind(n.id) \in Terraform
  PROVE  At(n.id) \in Declared
<1> SUFFICES \E uses, reads : Block(At(n.id), uses, reads) \in ResourceBlocks(n)
  BY BlockIsWritten, BlockParts
<1>1. CASE Kind(n.id) = "aws_instance.web_server"
  <2>1. InstanceBlocks(n) \subseteq ResourceBlocks(n)
    BY <1>1 DEF ResourceBlocks
  <2>2. \E uses, reads : Block(At(n.id), uses, reads) \in InstanceBlocks(n)
    BY DEF InstanceBlocks
  <2> QED
    BY <2>1, <2>2
<1>2. CASE Kind(n.id) = "aws_security_group"
  BY <1>2 DEF ResourceBlocks, FirewallBlocks
<1>3. CASE Kind(n.id) = "aws_s3_bucket"
  BY <1>3 DEF ResourceBlocks, BucketBlocks
<1>4. CASE Kind(n.id) = "aws_db_instance"
  BY <1>4 DEF ResourceBlocks, DatabaseBlocks
<1>5. CASE Kind(n.id) = "aws_vpc"
  BY <1>5 DEF ResourceBlocks, VpcBlocks
<1>6. CASE Kind(n.id) = "aws_subnet"
  <2>1. SubnetBlocks(n) \subseteq ResourceBlocks(n)
    BY <1>6 DEF ResourceBlocks
  <2>2. \E uses, reads : Block(At(n.id), uses, reads) \in SubnetBlocks(n)
    BY DEF SubnetBlocks
  <2> QED
    BY <2>1, <2>2
<1> QED
  BY <1>1, <1>2, <1>3, <1>4, <1>5, <1>6 DEF Terraform

LEMMA VpcIsDeclared ==
  ASSUME HasAws, NEW n \in Nodes, Kind(n.id) = "aws_vpc"
  PROVE  /\ At(n.id) \in Declared
         /\ <<"aws_internet_gateway", BlockName(n.id)>> \in Declared
         /\ <<"aws_route_table", BlockName(n.id)>> \in Declared
<1>1. \A b \in VpcBlocks(n) : b.at \in Declared
  BY BlockIsWritten DEF ResourceBlocks, Terraform
<1> QED
  BY <1>1 DEF VpcBlocks, Block

\* What a node is attached to is a node on the canvas.
LEMMA AttachedToNodes ==
  ASSUME DesignInv, AddressesExist, NEW n \in Nodes, NEW text \in {n.link, n.guard},
         NEW k \in Terraform, NEW further \in BOOLEAN,
         NEW at \in Attached(n, text, k, further)
  PROVE  \E m \in Nodes : /\ at = At(m.id) /\ Kind(m.id) \in Terraform
                          /\ text.how # "address" => Kind(m.id) = k
<1>1. CASE text.how = "address"
  <2>1. at = text.to /\ text \in Texts
    BY <1>1 DEF Attached, Texts
  <2>2. at \in Addresses
    BY <1>1, <2>1 DEF AddressesExist
  <2> QED
    BY <1>1, <2>2, NodesAre DEF Addresses, OfKind
<1>2. CASE text.how \in {"literal", "hole"}
  BY <1>2 DEF Attached
<1>3. CASE text.how = "none" /\ Wired(n.id, {k}) # {}
  <2>1. at = At(Source(n.id, {k}))
    BY <1>3 DEF Attached
  <2>2. PICK m \in Nodes : m.id = Source(n.id, {k}) /\ Kind(m.id) \in {k}
    BY <1>3, SourceIsOnCanvas
  <2> QED
    BY <1>3, <2>1, <2>2
<1>4. CASE text.how = "none" /\ Wired(n.id, {k}) = {}
  <2>1. Has({k}) /\ at = At(FirstOf({k}))
    BY <1>4 DEF Attached
  <2> QED
    BY <1>4, <2>1, FirstOfKind
<1>5. text.how \in {"none", "literal", "address", "hole"}
  <2>1. text \in TextRecord
    BY NodesAre DEF NodeRecord
  <2> QED
    BY <2>1 DEF TextRecord
<1> QED
  BY <1>1, <1>2, <1>3, <1>4, <1>5

LEMMA AttachedIsDeclared ==
  ASSUME DesignInv, HasAws, AddressesExist, NEW n \in Nodes, NEW text \in {n.link, n.guard},
         NEW k \in Terraform, NEW further \in BOOLEAN
  PROVE  Attached(n, text, k, further) \subseteq Declared
BY AttachedToNodes, NodeIsDeclared
-----------------------------------------------------------------------------
(* What the bundle names. *)

LEMMA InstanceIsClosed ==
  ASSUME DesignInv, HasAws, AddressesExist, NEW n \in Nodes, Kind(n.id) = "aws_instance.web_server",
         NEW b \in InstanceBlocks(n)
  PROVE  b.uses \subseteq Declared
<1> DEFINE subnet == Attached(n, n.link, "aws_subnet", TRUE)
           guard  == Attached(n, n.guard, "aws_security_group", TRUE)
           lost   == subnet = {} /\ n.link.how = "none"
           network == IF lost THEN AutoNetwork ELSE {}
<1>1. subnet \subseteq Declared /\ guard \subseteq Declared
  BY AttachedIsDeclared DEF Terraform
<1>2. InstanceBlocks(n) =
        {Block(<<"aws_key_pair", "whiparc_key">>, {<<"var", "aws_ssh_pub_key">>}, {}),
         Block(At(n.id),
               {<<"aws_key_pair", "whiparc_key">>} \cup subnet \cup (IF lost THEN {AutoSubnet} ELSE {}) \cup guard,
               InstanceFields)}
        \cup network
  BY DEF InstanceBlocks
<1>3. InstanceBlocks(n) \subseteq ResourceBlocks(n) /\ Kind(n.id) \in Terraform
  BY DEF ResourceBlocks, Terraform
<1>4. \A c \in InstanceBlocks(n) : c.at \in Declared
  BY <1>3, BlockIsWritten
<1> HIDE DEF subnet, guard, lost, network
<1>5. <<"aws_key_pair", "whiparc_key">> \in Declared
  BY <1>2, <1>4, BlockParts
<1>6. <<"var", "aws_ssh_pub_key">> \in Declared
  BY <1>3, VariablesAreDeclared, HasWhenThere
<1>7. CASE b \in network
  <2>1. lost /\ b \in AutoNetwork /\ AutoNetwork \subseteq InstanceBlocks(n)
    BY <1>2, <1>7 DEF network
  <2>2. CASE Has({"aws_vpc"})
    <3>1. PICK m \in Nodes : m.id = FirstOf({"aws_vpc"}) /\ Kind(m.id) \in {"aws_vpc"}
      BY <2>2, FirstOfKind
    <3>2. /\ <<"aws_vpc", BlockName(m.id)>> \in Declared
          /\ <<"aws_route_table", BlockName(m.id)>> \in Declared
      BY <3>1, VpcIsDeclared DEF At
    <3>3. <<"aws_subnet", "whiparc_auto_subnet">> \in Declared
      BY <1>4, <2>1, <2>2, BlockParts DEF AutoNetwork
    <3> QED
      BY <2>1, <2>2, <3>1, <3>2, <3>3, BlockParts DEF AutoNetwork
  <2>3. CASE ~Has({"aws_vpc"})
    <3>1. <<"data.aws_vpc", "default">> \in Declared
      BY <1>4, <2>1, <2>3, BlockParts DEF AutoNetwork
    <3> QED
      BY <2>1, <2>3, <3>1, BlockParts DEF AutoNetwork
  <2> QED
    BY <2>2, <2>3
<1>8. lost => AutoSubnet \in Declared
  BY <1>2, <1>4, BlockParts DEF network, AutoNetwork, AutoSubnet
<1>9. CASE b \notin network
  BY <1>1, <1>2, <1>5, <1>6, <1>8, <1>9, BlockParts
<1> QED
  BY <1>7, <1>9

LEMMA SubnetIsClosed ==
  ASSUME DesignInv, HasAws, AddressesExist, SubnetsHaveVpc, NEW n \in Nodes, Kind(n.id) = "aws_subnet",
         NEW b \in SubnetBlocks(n)
  PROVE  b.uses \subseteq Declared
<1> DEFINE vpc == Attached(n, n.link, "aws_vpc", TRUE)
<1>1. ASSUME NEW v \in vpc
      PROVE  v \in Declared /\ <<"aws_route_table", v[2]>> \in Declared
  <2>1. PICK m \in Nodes : /\ v = At(m.id) /\ Kind(m.id) \in Terraform
                           /\ n.link.how # "address" => Kind(m.id) = "aws_vpc"
    BY AttachedToNodes DEF Terraform
  <2>2. n.link.how = "address" => v = n.link.to /\ v[1] = "aws_vpc"
    BY NodesAre DEF Attached, SoundNode
  <2>3. v[1] = Kind(m.id) /\ v[2] = BlockName(m.id)
    BY <2>1 DEF At
  <2>4. Kind(m.id) = "aws_vpc"
    BY <2>1, <2>2, <2>3
  <2> QED
    BY <2>1, <2>3, <2>4, VpcIsDeclared
<1>2. vpc = {} => n.link.how # "none"
  <2> SUFFICES ASSUME n.link.how = "none" PROVE vpc # {}
    OBVIOUS
  <2>1. Has({"aws_vpc"})
    BY HasWhenThere DEF SubnetsHaveVpc
  <2> QED
    BY <2>1 DEF Attached
<1>3. At(n.id) \in Declared
  BY NodeIsDeclared DEF Terraform
<1>4. SubnetBlocks(n) =
        {Block(At(n.id), IF vpc = {} /\ n.link.how = "none" THEN {<<"data.aws_vpc", "default">>} ELSE vpc,
               SubnetFields)}
        \cup {Block(<<"aws_route_table_association", BlockName(n.id)>>,
                    {At(n.id), <<"aws_route_table", v[2]>>}, {}) : v \in vpc}
  BY DEF SubnetBlocks
<1> HIDE DEF vpc
<1>5. CASE b = Block(At(n.id), IF vpc = {} /\ n.link.how = "none" THEN {<<"data.aws_vpc", "default">>} ELSE vpc,
                     SubnetFields)
  <2>1. b.uses = vpc
    BY <1>2, <1>5, BlockParts
  <2> QED
    BY <1>1, <2>1
<1>6. ASSUME NEW v \in vpc,
             b = Block(<<"aws_route_table_association", BlockName(n.id)>>,
                       {At(n.id), <<"aws_route_table", v[2]>>}, {})
      PROVE  b.uses \subseteq Declared
  BY <1>1, <1>3, <1>6, BlockParts
<1> QED
  BY <1>4, <1>5, <1>6

LEMMA GcpIsClosed ==
  ASSUME HasGcp, NEW n \in Nodes, Kind(n.id) = "aws_instance.web_server", NEW b \in GcpBlocks(n)
  PROVE  b.uses \subseteq Declared
<1>1. GcpBlocks(n) \subseteq ResourceBlocks(n) /\ Kind(n.id) \in Terraform
  BY DEF ResourceBlocks, Terraform
<1>2. \A c \in GcpBlocks(n) : c.at \in Declared
  BY <1>1, BlockIsWritten
<1>3. /\ <<"google_compute_network", "vpc_network">> \in Declared
      /\ <<"google_compute_subnetwork", "subnet">> \in Declared
  BY <1>2, BlockParts DEF GcpBlocks
<1>4. {<<"var", "gcp_region">>, <<"var", "gcp_zone">>, <<"var", "gcp_ssh_pub_key">>} \subseteq Declared
  BY <1>1, VariablesAreDeclared, HasWhenThere
<1> QED
  BY <1>3, <1>4, BlockParts DEF GcpBlocks

\* Every block of every resource.
LEMMA ResourcesAreClosed ==
  ASSUME DesignInv, AddressesExist, SubnetsHaveVpc, NEW n \in Nodes, Kind(n.id) \in Terraform,
         NEW b \in ResourceBlocks(n)
  PROVE  b.uses \subseteq Declared
<1>1. CASE Kind(n.id) = "aws_instance.web_server"
  <2>1. (HasAws /\ b \in InstanceBlocks(n)) \/ (HasGcp /\ b \in GcpBlocks(n))
    BY <1>1 DEF ResourceBlocks
  <2> QED
    BY <1>1, <2>1, InstanceIsClosed, GcpIsClosed
<1>2. CASE Kind(n.id) = "aws_security_group"
  <2>1. HasAws /\ b \in FirewallBlocks(n)
    BY <1>2 DEF ResourceBlocks
  <2>2. Attached(n, n.link, "aws_vpc", TRUE) \subseteq Declared
    BY <2>1, AttachedIsDeclared DEF Terraform
  <2>3. PICK reads : b = Block(At(n.id), Attached(n, n.link, "aws_vpc", TRUE), reads)
    BY <2>1, Zenon DEF FirewallBlocks
  <2>4. b.uses = Attached(n, n.link, "aws_vpc", TRUE)
    BY <2>3, BlockParts, Zenon
  <2> QED
    BY <2>2, <2>4
<1>3. CASE Kind(n.id) = "aws_s3_bucket"
  <2>1. HasAws /\ b \in BucketBlocks(n)
    BY <1>3 DEF ResourceBlocks
  <2>2. At(n.id) \in Declared
    BY <2>1, NodeIsDeclared
  <2> QED
    BY <2>1, <2>2, BlockParts DEF BucketBlocks
<1>4. CASE Kind(n.id) = "aws_db_instance"
  <2>1. HasAws /\ b \in DatabaseBlocks(n)
    BY <1>4 DEF ResourceBlocks
  <2>2. Attached(n, n.guard, "aws_security_group", FALSE) \subseteq Declared
    BY <2>1, AttachedIsDeclared DEF Terraform
  <2>3. b = Block(At(n.id), Attached(n, n.guard, "aws_security_group", FALSE), DatabaseFields)
    BY <2>1, Zenon DEF DatabaseBlocks
  <2>4. b.uses = Attached(n, n.guard, "aws_security_group", FALSE)
    BY <2>3, BlockParts, Zenon
  <2> QED
    BY <2>2, <2>4
<1>5. CASE Kind(n.id) = "aws_vpc"
  <2>1. HasAws /\ b \in VpcBlocks(n)
    BY <1>5 DEF ResourceBlocks
  <2> QED
    BY <1>5, <2>1, VpcIsDeclared, BlockParts DEF VpcBlocks
<1>6. CASE Kind(n.id) = "aws_subnet"
  <2>1. HasAws /\ b \in SubnetBlocks(n)
    BY <1>6 DEF ResourceBlocks
  <2> QED
    BY <1>6, <2>1, SubnetIsClosed
<1> QED
  BY <1>1, <1>2, <1>3, <1>4, <1>5, <1>6 DEF Terraform

LEMMA MainIsClosed ==
  ASSUME DesignInv, AddressesExist, SubnetsHaveVpc PROVE ClosedOver(MainTf, MainTf)
<1> SUFFICES ASSUME NEW b \in MainTf PROVE b.uses \subseteq Declared
  BY DEF ClosedOver, Declared
<1>1. CASE b \in Variables
  BY <1>1, BlockParts DEF Variables, Variable
<1>2. CASE b \in Providers
  <2>1. Has(Terraform)
    BY DEF MainTf
  <2>2. HasGcp => {<<"var", "gcp_project_id">>, <<"var", "gcp_region">>, <<"var", "gcp_zone">>} \subseteq Declared
    BY <2>1, VariablesAreDeclared
  <2> QED
    BY <1>2, <2>2, BlockParts DEF Providers
<1>3. ASSUME NEW i \in OfKind(Terraform), b \in ResourceBlocks(design[i]) PROVE b.uses \subseteq Declared
  BY <1>3, NodesAre, ResourcesAreClosed DEF OfKind
<1> QED
  BY <1>1, <1>2, <1>3 DEF MainTf

LEMMA AwsByDefault == ~HasGcp => HasAws
BY DEF HasGcp, HasAws, Has, OfKind, Targets

LEMMA OutputsAreClosed ==
  ASSUME DesignInv, ~HasGcp, \A h \in Picked : BlockName(h.to) # DefaultName["aws_subnet"]
  PROVE  /\ ClosedOver(OutputsTf, MainTf)
         /\ \A h \in Picked : \E b \in OutputsTf : b.at = <<"picked", h.to, h.out>>
<1> DEFINE static  == UNION {StaticOutputs(n) : n \in Nodes}
           dynamic == UNION {DynamicOutput(h) : h \in Picked}
<1>0. OutputsTf = IF ~Has(Terraform) THEN {} ELSE static \cup dynamic
  BY DEF OutputsTf
<1>1. HasAws
  BY AwsByDefault
<1>2. ASSUME NEW n \in Nodes, NEW b \in StaticOutputs(n) PROVE b.uses \subseteq Declared
  <2>1. b = Block(<<"output", BlockName(n.id)>>, {At(n.id)}, {}) /\ Kind(n.id) \in Terraform
    BY <1>2 DEF StaticOutputs, Terraform
  <2> QED
    BY <1>1, <2>1, NodeIsDeclared, BlockParts
<1>3. ASSUME NEW h \in Picked
      PROVE  /\ DynamicOutput(h) = {Block(<<"picked", h.to, h.out>>, {At(h.to)}, {})}
             /\ At(h.to) \in Declared /\ Has(Terraform)
  <2>1. PICK n \in Nodes : n.id = h.to
    BY DEF Picked
  <2>2. Kind(h.to) \in Terraform /\ h.out \in PickerOutputs[Kind(h.to)]
    <3>1. PICK m \in Nodes : h \in {m.link, m.guard}
      BY DEF Picked, Texts
    <3>2. h \in TextRecord /\ SoundText(h) /\ h.how = "hole"
      BY <3>1, NodesAre DEF SoundNode, NodeRecord, Picked
    <3>3. h.to \in Terraform \X Nat
      BY <3>2 DEF TextRecord
    <3> QED
      BY <3>2, <3>3 DEF SoundText, Kind
  <2>3. h.out \in HclOutputs[Kind(h.to)]
    BY <2>2 DEF HclOutputs, PickerOutputs
  <2>4. ~(Kind(h.to) = "aws_subnet" /\ \A m \in Nodes : m.id = h.to => m.name = "")
    <3> SUFFICES ASSUME Kind(h.to) = "aws_subnet", \A m \in Nodes : m.id = h.to => m.name = "" PROVE FALSE
      OBVIOUS
    <3>1. BlockName(h.to) = DefaultName["aws_subnet"]
      BY DEF BlockName
    <3> QED
      BY <3>1
  <2>5. DynamicOutput(h) = {Block(<<"picked", h.to, h.out>>, {<<Kind(h.to), BlockName(h.to)>>}, {})}
    BY <2>3, <2>4 DEF DynamicOutput
  <2> QED
    BY <1>1, <2>1, <2>2, <2>5, NodeIsDeclared, HasWhenThere DEF At
<1>4. ASSUME NEW b \in OutputsTf PROVE b.uses \subseteq Declared
  <2>1. CASE \E n \in Nodes : b \in StaticOutputs(n)
    BY <1>2, <2>1
  <2>2. ASSUME NEW h \in Picked, b \in DynamicOutput(h) PROVE b.uses \subseteq Declared
    <3>1. b = Block(<<"picked", h.to, h.out>>, {At(h.to)}, {})
      BY <1>3, <2>2
    <3>2. b.uses = {At(h.to)}
      BY <3>1, BlockParts
    <3> QED
      BY <1>3, <3>2
  <2>3. (\E n \in Nodes : b \in StaticOutputs(n)) \/ (\E h \in Picked : b \in DynamicOutput(h))
    <3>1. b \in static => \E n \in Nodes : b \in StaticOutputs(n)
      OBVIOUS
    <3>2. b \in dynamic => \E h \in Picked : b \in DynamicOutput(h)
      OBVIOUS
    <3> HIDE DEF static, dynamic
    <3>3. b \in static \/ b \in dynamic
      BY <1>0
    <3> QED
      BY <3>1, <3>2, <3>3
  <2> QED
    BY <2>1, <2>2, <2>3
<1>5. ASSUME NEW h \in Picked PROVE \E b \in OutputsTf : b.at = <<"picked", h.to, h.out>>
  <2>1. Block(<<"picked", h.to, h.out>>, {At(h.to)}, {}) \in OutputsTf
    <3>1. Block(<<"picked", h.to, h.out>>, {At(h.to)}, {}) \in DynamicOutput(h)
      BY <1>3
    <3>2. DynamicOutput(h) \subseteq dynamic
      OBVIOUS
    <3> HIDE DEF static, dynamic
    <3>3. dynamic \subseteq OutputsTf
      BY <1>0, <1>3
    <3> QED
      BY <3>1, <3>2, <3>3
  <2> QED
    BY <2>1, BlockParts
<1> QED
  BY <1>4, <1>5 DEF ClosedOver, Declared

LEMMA HostIsDeclared ==
  ASSUME DesignInv, ~HasGcp PROVE ClosedOver(HostsIni, MainTf)
<1> SUFFICES HostUses \subseteq Declared
  BY BlockParts DEF ClosedOver, Declared, HostsIni
<1>1. \A n \in Nodes : Kind(n.id) = "aws_instance.web_server" => At(n.id) \in Declared
  BY AwsByDefault, NodeIsDeclared DEF Terraform
<1>2. ASSUME Wired(FirstTask.id, Hosts) # {}
      PROVE  Kind(Source(FirstTask.id, Hosts)) # "gcp_target" /\ At(Source(FirstTask.id, Hosts)) \in Declared
  <2>1. PICK n \in Nodes : n.id = Source(FirstTask.id, Hosts) /\ Kind(n.id) \in Hosts
    BY <1>2, SourceIsOnCanvas
  <2>2. Kind(n.id) # "gcp_target"
    BY HasWhenThere DEF HasGcp
  <2> QED
    BY <1>1, <2>1, <2>2 DEF Hosts
<1>3. ASSUME Has({"aws_instance.web_server"}) PROVE At(FirstOf({"aws_instance.web_server"})) \in Declared
  BY <1>1, <1>3, FirstOfKind
<1> QED
  BY <1>2, <1>3 DEF HostUses

LEMMA BundleStaysClosed == DesignInv => BundleIsClosed
BY MainIsClosed, OutputsAreClosed, HostIsDeclared DEF BundleIsClosed, ClosedOver
-----------------------------------------------------------------------------
(* What the Inspector offers. *)

LEMMA OfferedFields ==
  /\ Offered("aws_instance.web_server") = InstanceFields \cup GcpFields \cup AzureFields
  /\ Offered("aws_security_group") = FirewallFields
  /\ Offered("aws_s3_bucket") = BucketFields
  /\ Offered("aws_db_instance") = DatabaseFields
  /\ Offered("aws_vpc") = VpcFields
  /\ Offered("aws_subnet") = SubnetFields
  /\ \A k \in Ansible : Offered(k) = TaskFields(k) \cup ModuleFields(k) \cup CommandFields(k)
  /\ \A k \in Targets : Offered(k) = TargetFields(k)
  /\ \A k \in Kubernetes : Offered(k) = WorkloadFields(k) \cup ManifestFields(k)
BY DEF Offered, Ansible, Targets, Kubernetes

LEMMA ReadsOf ==
  ASSUME NEW n
  PROVE  /\ Kind(n.id) \in Terraform  => Reads(n) = UNION {b.reads : b \in ResourceBlocks(n)}
         /\ Kind(n.id) \in Ansible    => Reads(n) = TaskReads(Kind(n.id)) \cup ModuleReads(Kind(n.id)) \cup HostReads(n)
         /\ Kind(n.id) \in Kubernetes => Reads(n) = ManifestReads(Kind(n.id))
         /\ Kind(n.id) \in Targets    => Reads(n) = UNION {b.reads : b \in TargetBlocks(n)}
<1>1. CASE Kind(n.id) \in Terraform
  <2>1. Kind(n.id) \notin Targets /\ Kind(n.id) \notin Kubernetes /\ Kind(n.id) \notin Ansible
    BY <1>1 DEF Ansible, Targets, Kubernetes, Terraform
  <2> QED
    BY <1>1, <2>1 DEF Reads
<1>2. CASE Kind(n.id) \in Ansible
  <2>1. Kind(n.id) \notin Targets /\ Kind(n.id) \notin Kubernetes /\ Kind(n.id) \notin Terraform
    BY <1>2 DEF Ansible, Targets, Kubernetes, Terraform
  <2> QED
    BY <1>2, <2>1 DEF Reads
<1>3. CASE Kind(n.id) \in Kubernetes
  <2>1. Kind(n.id) \notin Targets /\ Kind(n.id) \notin Ansible /\ Kind(n.id) \notin Terraform
    BY <1>3 DEF Ansible, Targets, Kubernetes, Terraform
  <2> QED
    BY <1>3, <2>1 DEF Reads
<1>4. CASE Kind(n.id) \in Targets
  <2>1. Kind(n.id) \notin Kubernetes /\ Kind(n.id) \notin Ansible /\ Kind(n.id) \notin Terraform
    BY <1>4 DEF Ansible, Targets, Kubernetes, Terraform
  <2> QED
    BY <1>4, <2>1 DEF Reads
<1> QED
  BY <1>1, <1>2, <1>3, <1>4

\* A field of a resource is spelled out by one of its blocks.
LEMMA ResourceReads ==
  ASSUME NEW n \in Nodes, Kind(n.id) \in Terraform, n.keys \subseteq Offered(Kind(n.id)),
         NEW f \in n.keys, f \notin Deaf(n)
  PROVE  f \in Reads(n)
<1> SUFFICES \E b \in ResourceBlocks(n) : f \in b.reads
  BY ReadsOf
<1>1. HasAws \/ f \in GcpFields
  <2> DEFINE All == UNION {Offered(k) : k \in Terraform}
  <2>1. ~HasAws => f \notin All \ GcpFields
    BY DEF Deaf
  <2>2. f \in All
    OBVIOUS
  <2> HIDE DEF All
  <2> QED
    BY <2>1, <2>2
<1>2. HasGcp \/ f \notin GcpFields
  BY DEF Deaf
<1>3. CASE Kind(n.id) = "aws_instance.web_server"
  <2>1. CASE f \in InstanceFields
    <3>1. HasAws
      BY <1>1, <2>1 DEF InstanceFields, GcpFields
    <3>2. \E uses : Block(At(n.id), uses, InstanceFields) \in InstanceBlocks(n)
      BY DEF InstanceBlocks
    <3> QED
      BY <1>3, <2>1, <3>1, <3>2, BlockParts DEF ResourceBlocks
  <2>2. CASE f \in GcpFields
    <3>1. f # "gcpNetwork" /\ HasGcp
      BY <1>2, <2>2 DEF Deaf
    <3>2. \E at, uses, reads : Block(at, uses, reads) \in GcpBlocks(n) /\ f \in reads
      BY <2>2, <3>1 DEF GcpBlocks, GcpFields
    <3> QED
      BY <1>3, <3>1, <3>2, BlockParts DEF ResourceBlocks
  <2>3. f \in InstanceFields \cup GcpFields \cup AzureFields
    BY <1>3, OfferedFields
  <2>4. f \notin AzureFields
    BY DEF Deaf
  <2> QED
    BY <2>1, <2>2, <2>3, <2>4
<1>4. CASE Kind(n.id) # "aws_instance.web_server"
  <2>1. HasAws
    <3>1. f \in FirewallFields \cup BucketFields \cup DatabaseFields \cup VpcFields \cup SubnetFields
      BY <1>4, OfferedFields DEF Terraform
    <3> QED
      BY <1>1, <3>1 DEF GcpFields, FirewallFields, BucketFields, DatabaseFields, VpcFields, SubnetFields
  <2>2. CASE Kind(n.id) = "aws_security_group"
    <3> DEFINE ports == IF n.keys \cap {"httpPort", "httpsPort"} # {}
                        THEN {"httpPort", "httpsPort", "sshEnabled"} ELSE {"ingressPorts"}
               reads == {"sgName", "description", "allowedCidr", "vpcId"} \cup ports
    <3>1. f \in FirewallFields /\ f \in n.keys
      BY <2>2, OfferedFields
    <3>2. f \in reads
      BY <3>1 DEF FirewallFields, Deaf
    <3>3. \E uses : Block(At(n.id), uses, reads) \in FirewallBlocks(n)
      BY DEF FirewallBlocks
    <3>4. FirewallBlocks(n) = ResourceBlocks(n)
      BY <2>1, <2>2 DEF ResourceBlocks
    <3> HIDE DEF reads
    <3> QED
      BY <3>2, <3>3, <3>4, BlockParts
  <2>3. CASE Kind(n.id) = "aws_s3_bucket"
    <3>1. Block(At(n.id), {}, {"bucketName", "forceDestroy"}) \in ResourceBlocks(n)
      BY <2>1, <2>3 DEF ResourceBlocks, BucketBlocks
    <3>2. Block(<<"aws_s3_bucket_versioning", BlockName(n.id)>>, {At(n.id)}, {"versioningEnabled"}) \in ResourceBlocks(n)
      BY <2>1, <2>3 DEF ResourceBlocks, BucketBlocks
    <3>3. f \in {"bucketName", "versioningEnabled", "forceDestroy"}
      BY <2>3, OfferedFields DEF BucketFields
    <3> QED
      BY <3>1, <3>2, <3>3, BlockParts
  <2>4. CASE Kind(n.id) = "aws_db_instance"
    <3>1. \E uses : Block(At(n.id), uses, DatabaseFields) \in ResourceBlocks(n)
      BY <2>1, <2>4 DEF ResourceBlocks, DatabaseBlocks
    <3> QED
      BY <2>4, <3>1, BlockParts, OfferedFields
  <2>5. CASE Kind(n.id) = "aws_vpc"
    <3>1. \E uses : Block(At(n.id), uses, VpcFields) \in ResourceBlocks(n)
      BY <2>1, <2>5 DEF ResourceBlocks, VpcBlocks
    <3> QED
      BY <2>5, <3>1, BlockParts, OfferedFields
  <2>6. CASE Kind(n.id) = "aws_subnet"
    <3>1. \E uses : Block(At(n.id), uses, SubnetFields) \in SubnetBlocks(n)
      BY DEF SubnetBlocks
    <3>2. SubnetBlocks(n) = ResourceBlocks(n)
      BY <2>1, <2>6 DEF ResourceBlocks
    <3> QED
      BY <2>6, <3>1, <3>2, BlockParts, OfferedFields
  <2> QED
    BY <1>4, <2>2, <2>3, <2>4, <2>5, <2>6 DEF Terraform
<1> QED
  BY <1>3, <1>4

LEMMA TargetReads ==
  ASSUME NEW n \in Nodes, Kind(n.id) \in Targets, NEW f \in Offered(Kind(n.id)), f \notin Deaf(n)
  PROVE  f \in Reads(n)
<1> SUFFICES \E b \in TargetBlocks(n) : f \in b.reads
  BY ReadsOf
\* Such a target is not idle: there is a main.tf, and it is the first of its cloud.
<1>t. /\ n.id = FirstOf({Kind(n.id)})
      /\ Providers \subseteq MainTf
  <2>1. ~IdleTarget(n)
    BY OfferedFields DEF Deaf
  <2> QED
    BY <2>1 DEF IdleTarget, MainTf
<1>1. CASE Kind(n.id) = "aws_target"
  <2>1. HasAws
    BY <1>1, HasWhenThere DEF HasAws
  <2>2. f \in {"environment", "region"}
    BY <1>1, OfferedFields DEF TargetFields, Deaf, Targets
  <2>3. PICK b \in Providers : b.at = <<"provider", "aws">> /\ f \in b.reads
    BY <2>1, <2>2, BlockParts DEF Providers
  <2> QED
    BY <1>1, <1>t, <2>3 DEF TargetBlocks
<1>2. CASE Kind(n.id) = "gcp_target"
  <2>1. HasGcp
    BY <1>2, HasWhenThere DEF HasGcp
  <2>2. f \in {"projectId", "region", "gcpZone"}
    BY <1>2, OfferedFields DEF TargetFields, Deaf, Targets
  <2>3. PICK b \in Providers : b.at = <<"provider", "google">> /\ f \in b.reads
    BY <2>1, <2>2, BlockParts DEF Providers
  <2> QED
    BY <1>2, <1>t, <2>3 DEF TargetBlocks
<1> QED
  BY <1>1, <1>2 DEF Targets

LEMMA TaskReadsAll ==
  ASSUME NEW n \in Nodes, Kind(n.id) \in Ansible, NEW f \in Offered(Kind(n.id)), f \notin Deaf(n)
  PROVE  f \in Reads(n)
<1>1. Reads(n) = TaskReads(Kind(n.id)) \cup ModuleReads(Kind(n.id)) \cup HostReads(n)
  BY ReadsOf
<1>2. f \in TaskFields(Kind(n.id)) \cup ModuleFields(Kind(n.id)) \cup CommandFields(Kind(n.id))
  BY OfferedFields
<1>3. f # "ansibleHost" /\ (f = "ansibleUser" => f \in HostReads(n)) /\ f # "credentialId"
  BY DEF Deaf, HostReads
<1>4. f \in TaskFields(Kind(n.id)) => f = "ansibleUser" \/ f \in TaskReads(Kind(n.id))
  BY <1>3 DEF TaskFields, TaskReads
<1>5. f \in ModuleFields(Kind(n.id)) \cup CommandFields(Kind(n.id)) => f \in ModuleReads(Kind(n.id))
  BY DEF ModuleFields, CommandFields, ModuleReads
<1> QED
  BY <1>1, <1>2, <1>3, <1>4, <1>5

LEMMA WorkloadReads ==
  ASSUME NEW n \in Nodes, Kind(n.id) \in Kubernetes, NEW f \in Offered(Kind(n.id))
  PROVE  f \in Reads(n)
<1>1. Reads(n) = ManifestReads(Kind(n.id))
  BY ReadsOf
<1>2. f \in WorkloadFields(Kind(n.id)) \cup ManifestFields(Kind(n.id))
  BY OfferedFields
<1>3. f \in ManifestReads(Kind(n.id))
  BY <1>2 DEF WorkloadFields, ManifestFields, ManifestReads, Kubernetes
<1> QED
  BY <1>1, <1>3

LEMMA EditIsRead == DesignInv => EditReachesFiles
<1> SUFFICES ASSUME DesignInv, NEW i \in DOMAIN design, edited # <<>>, design[i].id = edited[1],
                    edited[2] \notin Deaf(design[i])
             PROVE  edited[2] \in Reads(design[i])
  BY DEF EditReachesFiles
<1>1. PICK n \in Nodes : edited[1] = n.id /\ edited[2] \in n.keys
  BY DEF DesignInv
<1>2. n = design[i]
  BY <1>1 DEF DesignInv, Nodes
<1>3. n.keys \subseteq Offered(Kind(n.id)) /\ Kind(n.id) \in Catalog
  <2>1. n \in NodeRecord /\ SoundNode(n)
    BY NodesAre
  <2> QED
    BY <2>1 DEF NodeRecord, IdSet, SoundNode, Kind
<1> QED
  BY <1>1, <1>2, <1>3, ResourceReads, TargetReads, TaskReadsAll, WorkloadReads DEF Catalog
-----------------------------------------------------------------------------
(* A step keeps the invariant. *)

LEMMA DefaultsAreOffered ==
  ASSUME NEW k \in Catalog PROVE Defaults(k) \subseteq Offered(k)
<1>1. CASE k \in Terraform
  <2>0. k \notin Targets /\ k \notin Kubernetes /\ k \notin Ansible
    BY <1>1 DEF Ansible, Targets, Kubernetes, Terraform
  <2>1. Defaults(k) = TerraformDefaults(k)
    BY <1>1, <2>0 DEF Defaults
  <2>2. CASE k = "aws_instance.web_server"
    BY <2>1, <2>2, OfferedFields DEF TerraformDefaults, InstanceFields
  <2>3. CASE k = "aws_security_group"
    BY <2>1, <2>3, OfferedFields DEF TerraformDefaults, FirewallFields
  <2>4. CASE k = "aws_s3_bucket"
    BY <2>1, <2>4, OfferedFields DEF TerraformDefaults, BucketFields
  <2>5. CASE k = "aws_db_instance"
    BY <2>1, <2>5, OfferedFields DEF TerraformDefaults, DatabaseFields
  <2>6. CASE k = "aws_vpc"
    BY <2>1, <2>6, OfferedFields DEF TerraformDefaults, VpcFields
  <2>7. CASE k = "aws_subnet"
    BY <2>1, <2>7, OfferedFields DEF TerraformDefaults, SubnetFields
  <2> QED
    BY <1>1, <2>2, <2>3, <2>4, <2>5, <2>6, <2>7 DEF Terraform
<1>2. CASE k \in Ansible
  <2>0. k \notin Targets /\ k \notin Kubernetes /\ k \notin Terraform
    BY <1>2 DEF Ansible, Targets, Kubernetes, Terraform
  <2>1. Defaults(k) = AnsibleDefaults(k)
    BY <1>2, <2>0 DEF Defaults
  <2>2. Offered(k) = TaskFields(k) \cup ModuleFields(k) \cup CommandFields(k)
    BY <1>2, OfferedFields
  <2>3. ASSUME NEW f \in AnsibleDefaults(k)
        PROVE  f \in TaskFields(k) \/ f \in ModuleFields(k) \/ f \in CommandFields(k)
    BY DEF AnsibleDefaults, TaskFields, ModuleFields, CommandFields
  <2> QED
    BY <2>1, <2>2, <2>3
<1>3. CASE k \in Kubernetes
  <2>0. k \notin Targets /\ k \notin Ansible /\ k \notin Terraform
    BY <1>3 DEF Ansible, Targets, Kubernetes, Terraform
  <2>1. Defaults(k) = KubernetesDefaults(k)
    BY <1>3, <2>0 DEF Defaults
  <2>2. Offered(k) = WorkloadFields(k) \cup ManifestFields(k)
    BY <1>3, OfferedFields
  <2>3. ASSUME NEW f \in KubernetesDefaults(k) PROVE f \in WorkloadFields(k) \/ f \in ManifestFields(k)
    BY <1>3 DEF KubernetesDefaults, WorkloadFields, ManifestFields, Kubernetes
  <2> QED
    BY <2>1, <2>2, <2>3
<1>4. CASE k \in Targets
  <2>0. k \notin Ansible /\ k \notin Kubernetes /\ k \notin Terraform
    BY <1>4 DEF Ansible, Targets, Kubernetes, Terraform
  <2> QED
    BY <2>0 DEF Defaults
<1> QED
  BY <1>1, <1>2, <1>3, <1>4 DEF Catalog

LEMMA TextsAreRecords ==
  /\ NoText \in TextRecord /\ SoundText(NoText) /\ NoText.how = "none"
  /\ Literal \in TextRecord /\ SoundText(Literal) /\ Literal.how = "literal"
  /\ \A a \in Terraform \X Names :
       Address(a) \in TextRecord /\ SoundText(Address(a)) /\ Address(a).how = "address" /\ Address(a).to = a
  /\ \A id \in Terraform \X Nat : \A out \in PickerOutputs[Kind(id)] :
       Output(id, out) \in TextRecord /\ SoundText(Output(id, out)) /\ Output(id, out).how = "hole"
<1>1. /\ NoText \in TextRecord /\ SoundText(NoText) /\ NoText.how = "none"
      /\ Literal \in TextRecord /\ SoundText(Literal) /\ Literal.how = "literal"
  BY DEF NoText, Literal, TextRecord, SoundText
<1>2. ASSUME NEW a \in Terraform \X Names
      PROVE  Address(a) \in TextRecord /\ SoundText(Address(a)) /\ Address(a).how = "address" /\ Address(a).to = a
  BY DEF Address, TextRecord, SoundText
<1>3. ASSUME NEW id \in Terraform \X Nat, NEW out \in PickerOutputs[Kind(id)]
      PROVE  Output(id, out) \in TextRecord /\ SoundText(Output(id, out)) /\ Output(id, out).how = "hole"
  <2>1. Kind(id) \in Terraform
    BY DEF Kind
  <2>2. out \in Outputs
    BY <2>1 DEF Outputs
  <2> QED
    BY <2>2 DEF Output, TextRecord, SoundText
<1> QED
  BY <1>1, <1>2, <1>3

LEMMA OfferedAreFields == \A k \in Catalog : Offered(k) \subseteq Fields
BY DEF Fields

\* A new node.
LEMMA AppendKeeps ==
  ASSUME DesignInv, NEW m \in NodeRecord, SoundNode(m), \A n \in Nodes : n.id # m.id,
         design' = Append(design, m), edited' = <<>>, UNCHANGED <<wiring, edits>>
  PROVE  DesignInv'
<1>1. DOMAIN design = 1..Len(design) /\ Len(design) \in Nat
  BY DEF DesignInv
<1>2. /\ design' \in Seq(NodeRecord)
      /\ DOMAIN design' = 1..(Len(design) + 1)
      /\ design'[Len(design) + 1] = m
      /\ \A i \in DOMAIN design : design'[i] = design[i]
  BY <1>1 DEF DesignInv
<1>3. \A i \in DOMAIN design' : i \in DOMAIN design \/ i = Len(design) + 1
  BY <1>1, <1>2
<1>4. \A i \in DOMAIN design : i \in DOMAIN design' /\ i # Len(design) + 1
  BY <1>1, <1>2
<1>5. \A n \in Nodes' : n \in Nodes \/ n = m
  BY <1>2, <1>3 DEF Nodes
<1>6. Nodes \subseteq Nodes'
  BY <1>2, <1>4 DEF Nodes
<1>7. \A i, j \in DOMAIN design' : design'[i].id = design'[j].id => i = j
  <2> SUFFICES ASSUME NEW i \in DOMAIN design', NEW j \in DOMAIN design', design'[i].id = design'[j].id
               PROVE  i = j
    OBVIOUS
  <2>1. \A x \in DOMAIN design : design[x].id # m.id
    BY DEF Nodes
  <2> QED
    BY <1>2, <1>3, <2>1 DEF DesignInv
<1>8. \A id : OnCanvas(id) => OnCanvas(id)'
  BY <1>6 DEF OnCanvas
<1> QED
  BY <1>2, <1>5, <1>7, <1>8 DEF DesignInv

\* An edit.
LEMMA StoreKeeps ==
  ASSUME DesignInv, NEW i \in DOMAIN design, NEW n \in NodeRecord, n.id = design[i].id, n.keys = design[i].keys,
         NEW f \in Offered(Kind(n.id)), SoundNode(n), Store(i, f, n)
  PROVE  DesignInv'
<1> DEFINE m == [n EXCEPT !.keys = @ \cup {f}]
<1>1. DOMAIN design = 1..Len(design) /\ Len(design) \in Nat
  BY DEF DesignInv
<1>2. m.id = design[i].id /\ m.keys = design[i].keys \cup {f} /\ m.link = n.link /\ m.guard = n.guard
  BY DEF NodeRecord
<1>3. m \in NodeRecord
  BY OfferedAreFields DEF NodeRecord, IdSet, Kind
<1>4. SoundNode(m)
  BY <1>2 DEF SoundNode
<1>5. design' = [design EXCEPT ![i] = m]
  BY DEF Store
<1> HIDE DEF m
<1>6. /\ design' \in Seq(NodeRecord)
      /\ DOMAIN design' = DOMAIN design
      /\ design'[i] = m
      /\ \A j \in DOMAIN design : j # i => design'[j] = design[j]
  BY <1>1, <1>3, <1>5 DEF DesignInv
<1>7. \A j \in DOMAIN design : design'[j].id = design[j].id
  BY <1>2, <1>6
<1>8. \A x \in Nodes' : SoundNode(x)
  BY <1>4, <1>6 DEF Nodes, DesignInv
<1>9. \A id : OnCanvas(id) => OnCanvas(id)'
  BY <1>6, <1>7 DEF OnCanvas, Nodes
<1>10. \A a, b \in DOMAIN design' : design'[a].id = design'[b].id => a = b
  BY <1>6, <1>7 DEF DesignInv
<1>11. m \in Nodes' /\ edited' = <<m.id, f>> /\ f \in m.keys
  BY <1>2, <1>6 DEF Store, Nodes
<1>12. edits' \in 0..MaxEdits /\ UNCHANGED wiring
  BY DesignAssumption DEF Store, DesignInv
<1> QED
  BY <1>6, <1>8, <1>9, <1>10, <1>11, <1>12 DEF DesignInv

LEMMA WireKeeps ==
  ASSUME DesignInv, NEW i \in DOMAIN design, NEW j \in DOMAIN design, DrawWire(i, j)
  PROVE  DesignInv'
<1> DEFINE e == <<design[i].id, design[j].id>>
<1>1. design[i] \in Nodes /\ design[j] \in Nodes /\ Nodes \subseteq NodeRecord
  BY NodesAre
<1>2. e \in IdSet \X IdSet /\ OnCanvas(e[1]) /\ OnCanvas(e[2])
  BY <1>1 DEF NodeRecord, OnCanvas
<1>3. wiring' = Append(wiring, e) /\ edited' = <<>> /\ UNCHANGED <<design, edits>>
  BY DEF DrawWire
<1> HIDE DEF e
<1>4. wiring' \in Seq(IdSet \X IdSet)
  BY <1>2, <1>3 DEF DesignInv
<1>5. \A x \in DOMAIN wiring' : wiring'[x] = e \/ (x \in DOMAIN wiring /\ wiring'[x] = wiring[x])
  BY <1>3 DEF DesignInv
<1>6. Nodes' = Nodes
  BY <1>3 DEF Nodes
<1> QED
  BY <1>2, <1>3, <1>4, <1>5, <1>6 DEF DesignInv, OnCanvas

\* A deleted node.
LEMMA EraseKeeps ==
  ASSUME DesignInv, NEW i \in DOMAIN design, EraseNode(i) PROVE DesignInv'
<1> DEFINE kept == {x \in DOMAIN wiring : design[i].id \notin {wiring[x][1], wiring[x][2]}}
<1>1. DOMAIN design = 1..Len(design) /\ Len(design) \in Nat /\ DOMAIN wiring = 1..Len(wiring) /\ Len(wiring) \in Nat
  BY DEF DesignInv
<1>2. /\ design' = [j \in 1..(Len(design) - 1) |-> IF j < i THEN design[j] ELSE design[j + 1]]
      /\ edited' = <<>> /\ edits < MaxEdits /\ edits' = edits + 1
  BY DEF EraseNode
<1>3. PICK at \in [1..Cardinality(kept) -> kept] : wiring' = [x \in DOMAIN at |-> wiring[at[x]]]
  BY DEF EraseNode
<1>4. Cardinality(kept) \in Nat
  <2>1. IsFiniteSet(1..Len(wiring))
    BY <1>1, FS_Interval
  <2> QED
    BY <1>1, <2>1, FS_Subset, FS_CardinalityType
<1>5. design' \in Seq(NodeRecord) /\ DOMAIN design' = 1..(Len(design) - 1)
  <2>1. Len(design) - 1 \in Nat
    BY <1>1
  <2>2. \A j \in 1..(Len(design) - 1) : j \in DOMAIN design /\ j + 1 \in DOMAIN design
    BY <1>1
  <2>3. \A j \in DOMAIN design : design[j] \in NodeRecord
    BY DEF DesignInv
  <2>4. design' \in [1..(Len(design) - 1) -> NodeRecord]
    BY <1>2, <2>2, <2>3
  <2> QED
    BY <2>1, <2>4
\* Where a place was before.
<1> DEFINE old(j) == IF j < i THEN j ELSE j + 1
<1>6. \A j \in DOMAIN design' : old(j) \in DOMAIN design /\ old(j) # i /\ design'[j] = design[old(j)]
  BY <1>1, <1>2, <1>5
<1>7. \A j, l \in DOMAIN design' : old(j) = old(l) => j = l
  BY <1>1, <1>5
<1>8. \A l \in DOMAIN design : l # i => \E j \in DOMAIN design' : l = old(j)
  <2> SUFFICES ASSUME NEW l \in DOMAIN design, l # i PROVE \E j \in DOMAIN design' : l = old(j)
    OBVIOUS
  <2>1. CASE l < i
    BY <1>1, <1>5, <2>1
  <2>2. CASE l > i
    <3>1. l - 1 \in DOMAIN design' /\ l = old(l - 1)
      BY <1>1, <1>5, <2>2
    <3> QED
      BY <3>1
  <2> QED
    BY <1>1, <2>1, <2>2
<1> HIDE DEF old
<1>9. Nodes' \subseteq Nodes
  BY <1>6 DEF Nodes
<1>10. \A id : OnCanvas(id) /\ id # design[i].id => OnCanvas(id)'
  BY <1>6, <1>8 DEF OnCanvas, Nodes
<1>11. \A j, l \in DOMAIN design' : design'[j].id = design'[l].id => j = l
  BY <1>6, <1>7 DEF DesignInv
<1>12. /\ wiring' \in Seq(IdSet \X IdSet)
       /\ \A x \in DOMAIN wiring' : at[x] \in kept /\ wiring'[x] = wiring[at[x]]
  <2>1. DOMAIN at = 1..Cardinality(kept) /\ \A x \in DOMAIN at : at[x] \in kept
    OBVIOUS
  <2>2. \A x \in DOMAIN wiring : wiring[x] \in IdSet \X IdSet
    BY DEF DesignInv
  <2>3. wiring' \in [1..Cardinality(kept) -> IdSet \X IdSet]
    BY <1>3, <2>1, <2>2
  <2>4. \A N \in Nat : [1..N -> IdSet \X IdSet] \subseteq Seq(IdSet \X IdSet)
    OBVIOUS
  <2>5. wiring' \in Seq(IdSet \X IdSet)
    BY <1>4, <2>3, <2>4, Zenon
  <2>6. \A x \in DOMAIN wiring' : at[x] \in kept /\ wiring'[x] = wiring[at[x]]
    BY <1>3, <2>1
  <2> QED
    BY <2>5, <2>6
<1>13. \A x \in DOMAIN wiring' : OnCanvas(wiring[x][1])' /\ OnCanvas(wiring[x][2])'
  <2> SUFFICES ASSUME NEW x \in DOMAIN wiring' PROVE OnCanvas(wiring[x][1])' /\ OnCanvas(wiring[x][2])'
    OBVIOUS
  <2>1. PICK y \in kept : wiring'[x] = wiring[y]
    BY <1>12
  <2>2. /\ OnCanvas(wiring[y][1]) /\ wiring[y][1] # design[i].id
        /\ OnCanvas(wiring[y][2]) /\ wiring[y][2] # design[i].id
    BY DEF DesignInv
  <2>3. PICK a, b : a = wiring[y][1] /\ b = wiring[y][2]
    OBVIOUS
  <2>4. OnCanvas(a)' /\ OnCanvas(b)'
    BY <1>10, <2>2, <2>3
  <2> QED
    BY <2>1, <2>3, <2>4 DEF OnCanvas
<1>14. edits' \in 0..MaxEdits
  BY <1>2, DesignAssumption DEF DesignInv
<1> QED
  BY <1>2, <1>5, <1>9, <1>11, <1>12, <1>13, <1>14 DEF DesignInv

\* A new node has a number no other has, and every default is offered.
LEMMA PutKeeps ==
  ASSUME DesignInv, NEW k \in Catalog, NEW keys \in SUBSET Offered(k), NEW link \in TextRecord, SoundText(link),
         k = "aws_subnet" /\ link.how = "address" => link.to[1] = "aws_vpc", Put(k, keys, link)
  PROVE  DesignInv'
<1>1. PICK x \in Numbers \ Reserved :
        design' = Append(design, [id |-> <<k, x>>, keys |-> keys, link |-> link, guard |-> NoText,
                                  name |-> IF k \in Terraform THEN DefaultName[k] ELSE ""])
  BY DEF Put
<1> DEFINE name == IF k \in Terraform THEN DefaultName[k] ELSE ""
           m    == [id |-> <<k, x>>, keys |-> keys, link |-> link, guard |-> NoText, name |-> name]
<1>2. x \in Nat
  BY DesignAssumption DEF Numbers
<1>3. name \in Names
  BY DEF Names
<1>4. <<k, x>> \in IdSet /\ keys \in SUBSET Fields
  BY <1>2, OfferedAreFields DEF IdSet
<1> HIDE DEF name
<1>5. m \in NodeRecord
  BY <1>3, <1>4, TextsAreRecords DEF NodeRecord
<1>6. SoundNode(m)
  BY TextsAreRecords DEF SoundNode, Kind
<1>7. \A n \in Nodes : n.id # m.id
  <2>1. \A n \in Nodes : n.id[2] \in Reserved
    BY DEF Reserved
  <2> QED
    BY <2>1
<1>8. design' = Append(design, m)
  BY <1>1 DEF name
<1>9. edited' = <<>> /\ UNCHANGED <<wiring, edits>>
  BY DEF Put
<1> HIDE DEF m
<1> QED
  BY <1>5, <1>6, <1>7, <1>8, <1>9, AppendKeeps

LEMMA DefaultLinkIsSound ==
  ASSUME NEW k \in Catalog
  PROVE  /\ DefaultLink(k) \in TextRecord /\ SoundText(DefaultLink(k))
         /\ k = "aws_subnet" /\ DefaultLink(k).how = "address" => DefaultLink(k).to[1] = "aws_vpc"
<1>1. "app_vpc" \in Names
  <2>1. "aws_vpc" \in Terraform /\ DefaultName["aws_vpc"] = "app_vpc"
    BY DEF DefaultName, Terraform
  <2> QED
    BY <2>1 DEF Names
<1>2. <<"aws_vpc", "app_vpc">> \in Terraform \X Names
  BY <1>1 DEF Terraform
<1> QED
  BY <1>2, TextsAreRecords DEF DefaultLink

LEMMA ClickKeeps ==
  ASSUME DesignInv, NEW k \in Catalog, ClickEntry(k) PROVE DesignInv'
<1>1. Put(k, Defaults(k), DefaultLink(k))
  BY DEF ClickEntry
<1> QED
  BY <1>1, DefaultsAreOffered, DefaultLinkIsSound, PutKeeps

LEMMA DropKeeps ==
  ASSUME DesignInv, NEW k \in Catalog, DropEntry(k) PROVE DesignInv'
<1>1. CASE k = "aws_instance.web_server"
  <2> DEFINE keys == {"instanceName", "amiId", "instanceType", "subnetId", "rootVolumeSize", "tags"}
  <2>1. Put(k, keys, NoText)
    BY <1>1 DEF DropEntry
  <2>2. keys \subseteq Offered(k)
    BY <1>1, OfferedFields DEF InstanceFields
  <2> HIDE DEF keys
  <2> QED
    BY <2>1, <2>2, TextsAreRecords, PutKeeps
<1>2. CASE k = "aws_security_group"
  <2> DEFINE keys == {"sgName", "httpPort", "httpsPort", "sshEnabled", "allowedCidr"}
  <2>1. Put(k, keys, NoText)
    BY <1>2 DEF DropEntry
  <2>2. keys \subseteq Offered(k)
    BY <1>2, OfferedFields DEF FirewallFields
  <2> HIDE DEF keys
  <2> QED
    BY <2>1, <2>2, TextsAreRecords, PutKeeps
<1>3. CASE k \notin {"aws_instance.web_server", "aws_security_group"}
  <2>1. Put(k, Defaults(k), DefaultLink(k))
    BY <1>3 DEF DropEntry
  <2> QED
    BY <2>1, DefaultsAreOffered, DefaultLinkIsSound, PutKeeps
<1> QED
  BY <1>1, <1>2, <1>3

\* A text of the Inspector names a node of the canvas.
LEMMA BlockNameIsName ==
  ASSUME DesignInv, NEW id, Kind(id) \in Terraform PROVE BlockName(id) \in Names
<1>1. DefaultName[Kind(id)] \in Names
  BY DEF Names
<1>2. ASSUME NEW n \in Nodes, n.id = id PROVE (CHOOSE m \in Nodes : m.id = id).name \in Names
  BY <1>2, NodesAre DEF NodeRecord
<1> QED
  BY <1>1, <1>2 DEF BlockName

LEMMA TextsForAreSound ==
  ASSUME DesignInv, NEW f, NEW text \in TextsFor(f)
  PROVE  /\ text \in TextRecord /\ SoundText(text)
         /\ f = "vpcId" /\ text.how = "address" => text.to[1] = "aws_vpc"
<1>1. CASE text = NoText
  BY <1>1, TextsAreRecords
<1>2. ASSUME NEW j \in OfKind(LinkedTo(f)), text = Address(At(design[j].id))
      PROVE  /\ text \in TextRecord /\ SoundText(text)
             /\ f = "vpcId" /\ text.how = "address" => text.to[1] = "aws_vpc"
  <2>1. Kind(design[j].id) \in LinkedTo(f)
    BY DEF OfKind
  <2>2. LinkedTo(f) \subseteq Terraform /\ (f = "vpcId" => LinkedTo(f) = {"aws_vpc"})
    BY DEF LinkedTo, Terraform
  <2>3. At(design[j].id) \in Terraform \X Names /\ At(design[j].id)[1] = Kind(design[j].id)
    BY <2>1, <2>2, BlockNameIsName DEF At
  <2> QED
    BY <1>2, <2>1, <2>2, <2>3, TextsAreRecords
<1>3. ASSUME NEW j \in OfKind(Terraform), NEW out \in PickerOutputs[Kind(design[j].id)],
             text = Output(design[j].id, out)
      PROVE  /\ text \in TextRecord /\ SoundText(text)
             /\ f = "vpcId" /\ text.how = "address" => text.to[1] = "aws_vpc"
  <2>1. design[j] \in NodeRecord /\ Kind(design[j].id) \in Terraform
    BY NodesAre DEF OfKind
  <2>2. design[j].id \in Terraform \X Nat
    BY <2>1 DEF NodeRecord, IdSet, Kind
  <2>3. text \in TextRecord /\ SoundText(text) /\ text.how = "hole"
    BY <1>3, <2>2, TextsAreRecords
  <2> QED
    BY <2>3
<1> QED
  BY <1>1, <1>2, <1>3 DEF TextsFor

LEMMA LinksAreOffered ==
  ASSUME NEW k \in Catalog
  PROVE  /\ k \in Terraform => NameField[k] \in Offered(k)
         /\ LinkField(k) # "none" => LinkField(k) \in Offered(k)
         /\ GuardField(k) # "none" => GuardField(k) \in Offered(k)
         /\ k = "aws_subnet" => LinkField(k) = "vpcId"
<1>1. CASE k \in Terraform
  <2>0. k \notin Ansible
    BY <1>1 DEF Ansible, Terraform
  <2>1. CASE k = "aws_instance.web_server"
    BY <2>1, <2>0, <1>1, OfferedFields DEF NameField, LinkField, GuardField, InstanceFields
  <2>2. CASE k = "aws_security_group"
    BY <2>2, <2>0, <1>1, OfferedFields DEF NameField, LinkField, GuardField, FirewallFields
  <2>3. CASE k = "aws_s3_bucket"
    BY <2>3, <2>0, <1>1, OfferedFields DEF NameField, LinkField, GuardField, BucketFields
  <2>4. CASE k = "aws_db_instance"
    BY <2>4, <2>0, <1>1, OfferedFields DEF NameField, LinkField, GuardField, DatabaseFields
  <2>5. CASE k = "aws_vpc"
    BY <2>5, <2>0, <1>1, OfferedFields DEF NameField, LinkField, GuardField, VpcFields
  <2>6. CASE k = "aws_subnet"
    BY <2>6, <2>0, <1>1, OfferedFields DEF NameField, LinkField, GuardField, SubnetFields
  <2> QED
    BY <1>1, <2>1, <2>2, <2>3, <2>4, <2>5, <2>6 DEF Terraform
<1>2. CASE k \in Ansible
  <2>1. k \notin Terraform
    BY <1>2 DEF Ansible, Terraform
  <2>2. LinkField(k) = "ansibleHost" /\ GuardField(k) = "none"
    BY <1>2, <2>1 DEF LinkField, GuardField, Terraform
  <2>3. "ansibleHost" \in TaskFields(k) /\ TaskFields(k) \subseteq Offered(k)
    BY <1>2, OfferedFields DEF TaskFields
  <2> QED
    BY <2>1, <2>2, <2>3 DEF Terraform
<1>3. CASE k \in Targets \cup Kubernetes
  <2>1. k \notin Terraform /\ k \notin Ansible
    BY <1>3 DEF Ansible, Terraform, Targets, Kubernetes
  <2> QED
    BY <2>1 DEF LinkField, GuardField, Terraform
<1> QED
  BY <1>1, <1>2, <1>3 DEF Catalog

LEMMA EditKeeps ==
  ASSUME DesignInv, NEW i \in DOMAIN design, NEW f, EditField(i, f) PROVE DesignInv'
<1>1. design[i] \in NodeRecord /\ SoundNode(design[i])
  BY NodesAre
<1> QED
  BY <1>1, StoreKeeps DEF EditField

LEMMA RenameKeeps ==
  ASSUME DesignInv, NEW i \in DOMAIN design, NEW name \in Renames \cup {""}, Rename(i, name) PROVE DesignInv'
<1> DEFINE n == [design[i] EXCEPT !.name = name]
<1>1. design[i] \in NodeRecord /\ SoundNode(design[i])
  BY NodesAre
<1>2. /\ n \in NodeRecord /\ n.id = design[i].id /\ n.keys = design[i].keys
      /\ n.link = design[i].link /\ n.guard = design[i].guard
  BY <1>1 DEF NodeRecord, Names
<1>3. SoundNode(n)
  BY <1>1, <1>2 DEF SoundNode
<1>4. Kind(n.id) \in Terraform /\ Kind(n.id) \in Catalog
  BY <1>2 DEF Rename, Catalog
<1>5. Store(i, NameField[Kind(n.id)], n)
  BY <1>2 DEF Rename
<1> HIDE DEF n
<1> QED
  BY <1>2, <1>3, <1>4, <1>5, LinksAreOffered, StoreKeeps

LEMMA AttachKeeps ==
  ASSUME DesignInv, NEW i \in DOMAIN design, NEW text, Attach(i, text) PROVE DesignInv'
<1> DEFINE k == Kind(design[i].id)
<1>1. design[i] \in NodeRecord /\ SoundNode(design[i])
  BY NodesAre
<1>2. k \in Catalog
  BY <1>1 DEF NodeRecord, IdSet, Kind
<1>3. CASE LinkField(k) # "none" /\ text \in TextsFor(LinkField(k))
           /\ Store(i, LinkField(k), [design[i] EXCEPT !.link = text])
  <2> DEFINE n == [design[i] EXCEPT !.link = text]
  <2>1. text \in TextRecord /\ SoundText(text) /\ (k = "aws_subnet" /\ text.how = "address" => text.to[1] = "aws_vpc")
    BY <1>2, <1>3, TextsForAreSound, LinksAreOffered
  <2>2. /\ n \in NodeRecord /\ n.id = design[i].id /\ n.keys = design[i].keys
        /\ n.link = text /\ n.guard = design[i].guard
    BY <1>1, <2>1 DEF NodeRecord
  <2>3. SoundNode(n)
    BY <1>1, <2>1, <2>2 DEF SoundNode
  <2>4. Store(i, LinkField(k), n) /\ LinkField(k) \in Offered(k)
    BY <1>2, <1>3, LinksAreOffered
  <2> HIDE DEF n
  <2> QED
    BY <2>2, <2>3, <2>4, StoreKeeps
<1>4. CASE GuardField(k) # "none" /\ text \in TextsFor(GuardField(k))
           /\ Store(i, GuardField(k), [design[i] EXCEPT !.guard = text])
  <2> DEFINE n == [design[i] EXCEPT !.guard = text]
  <2>1. text \in TextRecord /\ SoundText(text)
    BY <1>4, TextsForAreSound
  <2>2. /\ n \in NodeRecord /\ n.id = design[i].id /\ n.keys = design[i].keys
        /\ n.link = design[i].link /\ n.guard = text
    BY <1>1, <2>1 DEF NodeRecord
  <2>3. SoundNode(n)
    BY <1>1, <2>1, <2>2 DEF SoundNode
  <2>4. Store(i, GuardField(k), n) /\ GuardField(k) \in Offered(k)
    BY <1>2, <1>4, LinksAreOffered
  <2> HIDE DEF n
  <2> QED
    BY <2>2, <2>3, <2>4, StoreKeeps
<1> QED
  BY <1>3, <1>4 DEF Attach
-----------------------------------------------------------------------------
(* The theorems. *)

LEMMA DesignInitInv == DesignInit => DesignInv
<1> SUFFICES ASSUME DesignInit PROVE DesignInv
  OBVIOUS
<1>1. Nodes = {} /\ DOMAIN design = {} /\ DOMAIN wiring = {}
  BY DEF DesignInit, Nodes
<1> QED
  BY <1>1, DesignAssumption DEF DesignInit, DesignInv

LEMMA DesignInvariance == DesignInv /\ [DesignNext]_designVars => DesignInv'
<1> SUFFICES ASSUME DesignInv, [DesignNext]_designVars PROVE DesignInv'
  OBVIOUS
<1>1. ASSUME NEW k \in Catalog, ClickEntry(k) \/ DropEntry(k) PROVE DesignInv'
  BY <1>1, ClickKeeps, DropKeeps
<1>2. ASSUME NEW i \in DOMAIN design, NEW j \in DOMAIN design, DrawWire(i, j) PROVE DesignInv'
  BY <1>2, WireKeeps
<1>3. ASSUME NEW i \in DOMAIN design, NEW f, EditField(i, f) PROVE DesignInv'
  BY <1>3, EditKeeps
<1>4. ASSUME NEW i \in DOMAIN design, NEW name \in Renames \cup {""}, Rename(i, name) PROVE DesignInv'
  BY <1>4, RenameKeeps
<1>5. ASSUME NEW i \in DOMAIN design, NEW text, Attach(i, text) PROVE DesignInv'
  BY <1>5, AttachKeeps
<1>6. ASSUME NEW i \in DOMAIN design, EraseNode(i) PROVE DesignInv'
  BY <1>6, EraseKeeps
<1>7. CASE UNCHANGED designVars
  <2>1. Nodes' = Nodes
    BY <1>7 DEF designVars, Nodes
  <2>2. \A id : OnCanvas(id)' = OnCanvas(id)
    BY <2>1 DEF OnCanvas
  <2> QED
    BY <1>7, <2>1, <2>2 DEF designVars, DesignInv
<1> QED
  BY <1>1, <1>2, <1>3, <1>4, <1>5, <1>6, <1>7 DEF DesignNext

LEMMA DesignInvGivesTypes == DesignInv => DesignTypeOK
<1> SUFFICES ASSUME DesignInv PROVE DesignTypeOK
  OBVIOUS
<1>1. \A i \in DOMAIN design : /\ Kind(design[i].id) \in Catalog
                               /\ design[i].keys \subseteq Offered(Kind(design[i].id))
  BY NodesAre DEF NodeRecord, IdSet, Kind, SoundNode
<1>2. \A id : OnCanvas(id) => \E i \in DOMAIN design : design[i].id = id
  BY DEF OnCanvas, Nodes
<1> QED
  BY <1>1, <1>2 DEF DesignTypeOK, DesignInv

LEMMA DesignIsSound == DesignSpec => []DesignInv
BY DesignInitInv, DesignInvariance, PTL DEF DesignSpec

\* Every node of the canvas is of a catalog entry and holds only fields the Inspector offers
\* for it, no two have one id, and no connection outlives an end of it (deleteNode).
THEOREM DesignTyped == DesignSpec => []DesignTypeOK
BY DesignIsSound, DesignInvGivesTypes, PTL

\* No generated file names a block that none declares, on any canvas that can be drawn: with
\* any names, any number of nodes, connections, edits and deletions (bundleGenerator.ts).
THEOREM BundleIsAlwaysClosed == DesignSpec => []BundleIsClosed
BY DesignIsSound, BundleStaysClosed, PTL

\* Whatever field the Inspector changes, but for those the invariant names, some file spells
\* out: the Inspector of page.tsx and the compiler of bundleGenerator.ts agree on the fields.
THEOREM EditsAreRead == DesignSpec => []EditReachesFiles
BY DesignIsSound, EditIsRead, PTL
=============================================================================
