----------------------------- MODULE PageTables -----------------------------
(****************************************************************************)
(* What the pages and dialogs of the web app do, a panel at a time: how a   *)
(* list is loaded, what each handler asks of the server and does with its   *)
(* answer, and the controls that call it.  Pages takes a panel through      *)
(* time; a dialog that keeps a list of its own is a panel of its own.       *)
(*                                                                          *)
(* A handler is [do, op, by, flag, ok, err, tells, after, timer]: what it   *)
(* asks for (op: "add", "change" or "remove" an item of the list, "none" if *)
(* the list does not depend on it), the state variable it raises while the  *)
(* request is in flight, and what follows a success and a failure:          *)
(*   "lower"   its flag goes down         "close"  its dialog closes        *)
(*   "patch"   the list is edited         "reload" it is loaded once more   *)
(*   "await"   the same, and the flag goes down when that is done           *)
(*   "rerun"   the effect that loads it runs again                          *)
(*   "forget"  what was kept of the item goes                               *)
(*   "timer"   the flag it tells is up until a timer, which then does what  *)
(*             is in after                                                  *)
(*   "leave"   the browser goes to another page                             *)
(****************************************************************************)

None == "none"

\* State variables that hold the id of the item at work, and those with an entry
\* for every item; the others are one for their panel.
Slots   == {"busyProjectId", "connecting", "unlinking", "revokingAgentId", "reverting", "busyId"}
PerItem == {"testState"}

Handler(do, op, flag, ok, err) ==
  [do |-> do, op |-> op, by |-> "user", flag |-> flag, ok |-> ok, err |-> err,
   tells |-> None, after |-> {}, timer |-> FALSE]
Telling(h, flag, after) ==
  [do |-> h.do, op |-> h.op, by |-> h.by, flag |-> h.flag, ok |-> h.ok, err |-> h.err,
   tells |-> flag, after |-> after, timer |-> h.timer]
TimerJob(job) ==
  [do |-> job.do, op |-> "none", by |-> job.by, flag |-> job.tells, ok |-> job.after, err |-> {},
   tells |-> None, after |-> {}, timer |-> TRUE]

\* A button or form: what it calls, the dialog it is in, the flags that disable it.
Control(do, at, guard) == [do |-> do, at |-> at, guard |-> guard]

\* The effect that loads a list: the flag of its spinner, by which calls it is
\* raised (the "effect" itself, a "reload" by a handler), whether a run that is
\* superseded is cancelled, what of it is written all the same, and whether what
\* it depends on can change while the panel is there.
Load(flag, raises, cancels, late, reruns) ==
  [loads |-> TRUE, flag |-> flag, raises |-> raises, cancels |-> cancels,
   late |-> late, reruns |-> reruns]
NoLoad ==
  [loads |-> FALSE, flag |-> None, raises |-> {}, cancels |-> FALSE,
   late |-> FALSE, reruns |-> FALSE]
Both == {"effect", "reload"}

\* unmounts: the dialogs that are rendered only while they are open; refreshes: those
\* whose closing loads the list; holds: those that stay open while their flag is up.
Panel(name, load, handlers, controls, unmounts, refreshes, holds) ==
  [name |-> name, load |-> load, handlers |-> handlers, controls |-> controls,
   unmounts |-> unmounts, refreshes |-> refreshes, holds |-> holds]
-----------------------------------------------------------------------------
(* Dashboard. *)

DashboardLoad == Load("isLoadingData", Both, TRUE, FALSE, TRUE)

DashboardHandlers ==
  { Handler("handleCreateProjectSubmit", "add", "isCreating", {"leave"}, {"lower"}),
    Telling(Handler("handleRequestJoinSubmit", "none", None, {"timer"}, {}),
            "joinSuccess", {"close", "lower", "reload"}),
    Handler("handleReviewRequest", "remove", None, {"reload"}, {}) }

\* "Waiting on you": Approve and Decline are not disabled.
WaitingOnYou == { Control("handleReviewRequest", "page", {}) }

DashboardDialogs ==
  { Control("handleCreateProjectSubmit", "isCreateModalOpen", {"isCreating"}),
    Control("handleRequestJoinSubmit", "isJoinModalOpen", {"joinSuccess"}) }

\* The settings dialog is ProjectGeneral, as the dashboard sees it: what it saves is
\* loaded again, and so is the list when it is closed.
SettingsSaved ==
  Handler("handleGeneralSave", "change", "loading", {"close", "reload", "lower"}, {"lower"})
SettingsDialog == Control("handleGeneralSave", "settings", {"loading"})

\* One load brings both of the dashboard's lists, the projects and the requests to
\* join them; each is looked at with its own handlers.
DashboardProjects ==
  Panel("DashboardProjects", DashboardLoad,
        {h \in DashboardHandlers : h.op = "add"} \cup {SettingsSaved},
        DashboardDialogs \cup {SettingsDialog}, {"settings"}, {"settings"}, {})
DashboardRequests ==
  Panel("DashboardRequests", DashboardLoad, {h \in DashboardHandlers : h.op # "add"},
        DashboardDialogs \cup WaitingOnYou, {}, {}, {})

\* Lists the dashboard only shows, each by a hook of its own: runs (the page of runs
\* has the same), activity, contributions to review, whether an agent is active.
ListOnly(name, load) == Panel(name, load, {}, {}, {}, {}, {})

useAggregatedRuns       == ListOnly("Runs", Load("isLoading", {"effect"}, TRUE, FALSE, TRUE))
useActivity             == ListOnly("Activity", Load("isLoading", {"effect"}, TRUE, FALSE, TRUE))
usePendingContributions == ListOnly("Contributions", Load(None, {}, TRUE, FALSE, TRUE))
useAnyActiveAgent       == ListOnly("Agents", Load(None, {}, TRUE, FALSE, TRUE))

\* The switcher's own list is the dashboard's, to which a new team is added.
handleCreateTeam ==
  Handler("handleCreateTeam", "add", "isSubmitting", {"patch", "close", "lower"}, {"lower"})
NewTeamForm == Control("handleCreateTeam", "open", {"isSubmitting"})

TeamSwitcher == Panel("TeamSwitcher", NoLoad, {handleCreateTeam}, {NewTeamForm}, {}, {}, {})
-----------------------------------------------------------------------------
(* Projects. *)

ProjectsLoad == Load("isLoading", Both, TRUE, FALSE, TRUE)

\* Mutant: a project that could not be archived stays busy.
M_ProjectsHandlers ==
  { Handler("handleDuplicate", "change", "busyProjectId", {"await"}, {"lower"}),
    Handler("handleArchiveToggle", "remove", "busyProjectId", {"await"}, {}) }

\* Duplicating shows in the list as a changed project would.
ProjectsHandlers ==
  { Handler("handleDuplicate", "change", "busyProjectId", {"await"}, {"lower"}),
    Handler("handleArchiveToggle", "remove", "busyProjectId", {"await"}, {"lower"}) }

\* The menu of a card: an administrator's has both, everybody's has Duplicate.
ProjectsMenu ==
  { Control("handleDuplicate", "page", {"busyProjectId"}),
    Control("handleArchiveToggle", "page", {"busyProjectId"}) }

Projects ==
  Panel("Projects", ProjectsLoad, ProjectsHandlers \cup {SettingsSaved},
        ProjectsMenu \cup {SettingsDialog}, {"settings"}, {"settings"}, {})

\* Several dialogs and pages send one form and go on with what it made.
handleSubmit == Handler("handleSubmit", "none", "isSubmitting", {"leave"}, {"lower"})
SubmitButton == Control("handleSubmit", "page", {"isSubmitting"})

ImportLoad   == Load(None, {}, TRUE, TRUE, FALSE)
ImportSubmit == handleSubmit
ImportForm   == SubmitButton

ImportTerraform == Panel("ImportTerraform", ImportLoad, {ImportSubmit}, {ImportForm}, {}, {}, {})
-----------------------------------------------------------------------------
(* Project settings. *)

MembersLoad == Load("membersLoading", {"effect"}, FALSE, FALSE, TRUE)

MembersHandlers ==
  { Handler("handleInvite", "add", None, {"reload"}, {}),
    Handler("handleRoleChange", "change", None, {"patch"}, {}),
    Handler("handleRemoveMember", "remove", None, {"patch"}, {}) }
MembersTab ==
  { Control("handleInvite", "page", {}), Control("handleRoleChange", "page", {}),
    Control("handleRemoveMember", "page", {}) }

ProjectMembers == Panel("ProjectMembers", MembersLoad, MembersHandlers, MembersTab, {}, {}, {})

AgentsLoad == Load("agentsLoading", {"effect"}, FALSE, FALSE, TRUE)

handleRevokeAgent ==
  Handler("handleRevokeAgent", "change", "revokingAgentId", {"patch", "lower"}, {"lower"})
AgentsTab == { Control("handleRevokeAgent", "page", {"revokingAgentId"}) }

ProjectAgents == Panel("ProjectAgents", AgentsLoad, {handleRevokeAgent}, AgentsTab, {}, {}, {})

\* Save and Delete share a flag, and both are disabled by it.
handleGeneralSave ==
  Handler("handleGeneralSave", "change", "loading", {"patch", "lower", "close"}, {"lower"})
handleDeleteProject ==
  Handler("handleDeleteProject", "remove", "loading", {"leave"}, {"lower"})
GeneralTab == Control("handleGeneralSave", "general", {"loading"})
DangerTab  == Control("handleDeleteProject", "danger", {"loading"})

ProjectGeneral ==
  Panel("ProjectGeneral", NoLoad, {handleGeneralSave, handleDeleteProject}, {GeneralTab, DangerTab},
        {}, {}, {})

VaultLoad == Load("isLoading", Both, TRUE, FALSE, TRUE)

handleCreateCredential ==
  Handler("handleCreateCredential", "add", "isSaving", {"reload", "lower"}, {"lower"})
handleDeleteCredential == Handler("handleDeleteCredential", "remove", None, {"reload"}, {})
VaultForm == Control("handleCreateCredential", "page", {"isSaving"})
VaultList == Control("handleDeleteCredential", "page", {})

ProjectCredentials ==
  Panel("ProjectCredentials", VaultLoad, {handleCreateCredential, handleDeleteCredential},
        {VaultForm, VaultList}, {}, {}, {})

\* A revert closes the drawer over the canvas it brings back.
SnapshotsLoad  == Load("loading", {"effect"}, TRUE, FALSE, TRUE)
handleRevert   == Handler("handleRevert", "none", "reverting", {"close", "lower"}, {"lower"})
SnapshotsList  == Control("handleRevert", "isOpen", {"reverting"})

Snapshots == Panel("Snapshots", SnapshotsLoad, {handleRevert}, {SnapshotsList}, {}, {}, {})
-----------------------------------------------------------------------------
(* Credentials. *)

CredentialsLoad == Load("isLoading", Both, FALSE, FALSE, FALSE)

CredentialsHandlers ==
  { Handler("handleRevoke", "remove", None, {"patch"}, {}),
    Handler("handleTestConnection", "none", "testState", {"lower"}, {"lower"}) }
NewCredentialModal ==
  Handler("handleCreate", "add", "isSaving", {"close", "reload", "lower"}, {"lower"})
RotateCredentialModal ==
  Handler("handleRotate", "change", "isRotating", {"close", "forget", "reload", "lower"}, {"lower"})

CredentialsTable ==
  { Control("handleRevoke", "page", {}), Control("handleTestConnection", "page", {"testState"}) }
CredentialsDialogs ==
  { Control("handleCreate", "isCreateOpen", {"isSaving"}),
    Control("handleRotate", "rotateTarget", {"isRotating"}) }

Credentials ==
  Panel("Credentials", CredentialsLoad,
        CredentialsHandlers \cup {NewCredentialModal, RotateCredentialModal},
        CredentialsTable \cup CredentialsDialogs, {"isCreateOpen", "rotateTarget"}, {}, {})
-----------------------------------------------------------------------------
(* Team. *)

TeamLoad == Load("isLoading", Both, FALSE, FALSE, FALSE)

TeamHandlers ==
  { Handler("handleRoleChange", "change", None, {"patch"}, {}),
    Handler("handleRemove", "remove", None, {"patch"}, {}),
    Handler("handleRevokeInvite", "remove", None, {"patch"}, {}) }
InviteMemberModal ==
  Handler("handleInvite", "add", "isSaving", {"close", "reload", "lower"}, {"lower"})

\* What Paddle reports when its checkout is completed, and the customer portal.
TeamBilling ==
  { Telling(Handler("eventCallback", "change", None, {"timer"}, {}),
            "checkoutPending", {"lower", "reload"}),
    Handler("handleManageBilling", "none", "portalLoading", {"leave"}, {"lower"}) }

TeamTables ==
  { Control("handleRoleChange", "page", {}), Control("handleRemove", "page", {}),
    Control("handleRevokeInvite", "page", {}) }
TeamPlan ==
  { Control("eventCallback", "page", {}), Control("handleManageBilling", "page", {"portalLoading"}) }
TeamDialogs == { Control("handleInvite", "isInviteOpen", {"isSaving"}) }

TeamPage ==
  Panel("TeamPage", TeamLoad, TeamHandlers \cup TeamBilling \cup {InviteMemberModal},
        TeamTables \cup TeamPlan \cup TeamDialogs, {"isInviteOpen"}, {}, {})
-----------------------------------------------------------------------------
(* Account. *)

IdentitiesLoad == Load("loading", Both, FALSE, FALSE, TRUE)

IdentitiesHandlers ==
  { Handler("handleConnect", "none", "connecting", {"leave"}, {"lower"}),
    Handler("handleUnlink", "remove", "unlinking", {"patch", "lower"}, {"lower"}),
    Handler("handleRequestPasswordReset", "none", "requestingPassword", {"lower"}, {"lower"}) }
IdentitiesControls ==
  { Control("handleConnect", "page", {"connecting"}), Control("handleUnlink", "page", {"unlinking"}),
    Control("handleRequestPasswordReset", "page", {"requestingPassword"}) }

Identities ==
  Panel("Identities", IdentitiesLoad, IdentitiesHandlers, IdentitiesControls, {}, {}, {})

ProfileHandlers ==
  { Handler("handleSaveProfile", "change", "savingProfile", {"lower", "patch"}, {"lower"}),
    Handler("handleAvatarConfirm", "change", "confirming", {"close", "patch", "lower"}, {"lower"}),
    Handler("handleRemoveAvatar", "change", "removingAvatar", {"lower", "patch"}, {"lower"}),
    Handler("handleRequestEmailChange", "none", "changingEmail", {"lower", "close"}, {"lower"}),
    Handler("handleDeleteAccount", "remove", "deleting", {"leave"}, {"lower"}) }
ProfileControls ==
  { Control("handleSaveProfile", "page", {"savingProfile"}),
    Control("handleRemoveAvatar", "page", {"removingAvatar"}),
    Control("handleRequestEmailChange", "showEmailForm", {"changingEmail"}) }
AvatarCropper == Control("handleAvatarConfirm", "cropFile", {"confirming"})
DeleteAccount == Control("handleDeleteAccount", "showDelete", {"deleting"})

Profile ==
  Panel("Profile", NoLoad, ProfileHandlers, ProfileControls \cup {AvatarCropper, DeleteAccount},
        {"cropFile"}, {}, {"cropFile", "showDelete"})
-----------------------------------------------------------------------------
(* Runs, templates, export. *)

TriggerLoad   == Load("isLoadingProjects", {"effect"}, TRUE, FALSE, TRUE)
TriggerSubmit == handleSubmit
TriggerForm   == SubmitButton

TriggerRun == Panel("TriggerRun", TriggerLoad, {TriggerSubmit}, {TriggerForm}, {}, {}, {})

TemplatesPage == ListOnly("TemplatesPage", Load("isLoading", {}, TRUE, FALSE, FALSE))

DetailLoad       == Load("isLoading", {}, TRUE, FALSE, TRUE)
handleGetStarted == Handler("handleGetStarted", "none", "isForking", {"leave"}, {"lower"})
GetStarted       == Control("handleGetStarted", "page", {"isForking"})

TemplateDetail == Panel("TemplateDetail", DetailLoad, {handleGetStarted}, {GetStarted}, {}, {}, {})

ContributionsLoad == Load(None, {}, TRUE, FALSE, TRUE)
review            == Handler("review", "remove", "busyId", {"rerun", "lower"}, {"lower"})
ReviewButtons     == Control("review", "page", {"busyId"})

TemplateContributions ==
  Panel("TemplateContributions", ContributionsLoad, {review}, {ReviewButtons}, {}, {}, {})

ContributeLoad == Load("isLoading", {}, TRUE, FALSE, TRUE)
ContributeHandlers ==
  { Handler("handleCopy", "none", "isCopying", {"leave"}, {"lower"}),
    Handler("handleSubmit", "none", "isSubmitting", {"lower"}, {"lower"}) }
ContributeForm == { Control("handleCopy", "page", {"isCopying"}), SubmitButton }

ContributeTemplate ==
  Panel("ContributeTemplate", ContributeLoad, ContributeHandlers, ContributeForm, {}, {}, {})

PublishSubmit == Handler("handleSubmit", "none", "isSubmitting", {"lower"}, {"lower"})
PublishForm   == SubmitButton

PublishTemplate == Panel("PublishTemplate", NoLoad, {PublishSubmit}, {PublishForm}, {}, {}, {})

\* The flag of a superseded load is left to the next one, its canvas is written.
ExportLoad           == Load("isLoadingCanvas", {"effect"}, TRUE, TRUE, TRUE)
handleDownloadBundle == Handler("handleDownloadBundle", "none", "isDownloading", {"lower"}, {"lower"})
DownloadButton       == Control("handleDownloadBundle", "page", {"isDownloading"})

ExportCode == Panel("ExportCode", ExportLoad, {handleDownloadBundle}, {DownloadButton}, {}, {}, {})
-----------------------------------------------------------------------------
(* Forms of people who are not signed in, and of those not yet verified.  A  *)
(* form that stays shows how it ended in place of its button.                *)

OneForm(name, load, handler, control) == Panel(name, load, {handler}, {control}, {}, {}, {})

LoginSubmit == Handler("handleSubmit", "none", "isLoading", {"leave"}, {"lower"})
LoginForm   == Control("handleSubmit", "page", {"isLoading"})
LoginPage   == OneForm("LoginPage", NoLoad, LoginSubmit, LoginForm)

ForgotSubmit   == Handler("handleSubmit", "none", "status", {"lower"}, {"lower"})
ForgotForm     == Control("handleSubmit", "page", {"status"})
ForgotPassword == OneForm("ForgotPassword", NoLoad, ForgotSubmit, ForgotForm)

ResetLoad     == Load("checking", {}, TRUE, FALSE, FALSE)
ResetSubmit   == Handler("handleSubmit", "none", "submitting", {"leave"}, {"lower"})
ResetForm     == Control("handleSubmit", "page", {"submitting"})
ResetPassword == OneForm("ResetPassword", ResetLoad, ResetSubmit, ResetForm)

ContactSubmit == Handler("handleSubmit", "none", "status", {"lower"}, {"lower"})
ContactFields == Control("handleSubmit", "page", {"status"})
ContactForm   == OneForm("ContactForm", NoLoad, ContactSubmit, ContactFields)

NewsletterSubmit == Handler("onSubmit", "none", "status", {"lower"}, {"lower"})
NewsletterField  == Control("onSubmit", "page", {"status"})
NewsletterForm   == OneForm("NewsletterForm", NoLoad, NewsletterSubmit, NewsletterField)

\* The cooldown is counted down a second at a time, and disables the button too.
handleResend ==
  Telling(Handler("handleResend", "none", "isSending", {"lower", "timer"}, {"lower"}),
          "cooldown", {"lower"})
ResendButton == Control("handleResend", "page", {"isSending", "cooldown"})

VerificationBanner == OneForm("VerificationBanner", NoLoad, handleResend, ResendButton)

AllPanels ==
  { DashboardProjects, DashboardRequests, useAggregatedRuns, useActivity, usePendingContributions,
    useAnyActiveAgent, TeamSwitcher, Projects, ImportTerraform, ProjectMembers, ProjectAgents,
    ProjectGeneral, ProjectCredentials, Snapshots, Credentials, TeamPage, Identities, Profile,
    TriggerRun, TemplatesPage, TemplateDetail, TemplateContributions, ContributeTemplate,
    PublishTemplate, ExportCode, LoginPage, ForgotPassword, ResetPassword, ContactForm,
    NewsletterForm, VerificationBanner }
=============================================================================
