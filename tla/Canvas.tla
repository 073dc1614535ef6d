------------------------------- MODULE Canvas -------------------------------
(****************************************************************************)
(* One project's canvas: its canvas_states row, the requests that read and  *)
(* write it (src/apps/api/projects.go, snapshots.go), the browser tabs that *)
(* show it (src/apps/web/app/workspace/page.tsx), and the sync room that    *)
(* relays each tab's changes to the others (src/apps/api/main.go).          *)
(*                                                                          *)
(* A tab keeps the whole canvas and sends the whole canvas, to its peers    *)
(* and in each save; whoever receives one takes it as it is.  A canvas is   *)
(* the set of the edits it holds; author[n] made edit n, which adds         *)
(* something no earlier canvas had.                                         *)
(*                                                                          *)
(* A tab handles one event at a time: a message, an answer, a timer, or the *)
(* user's edit.  The effect that broadcasts and saves runs after each event *)
(* that changed the canvas, the version or the save status, and first       *)
(* clears the timer it armed the last time.  A timer sends what the effect  *)
(* that armed it saw, not what the tab shows when it fires.                 *)
(*                                                                          *)
(* A request of the API is one action per SQL statement; each tab belongs   *)
(* to a user of its own, whose role does not change while it is open.       *)
(****************************************************************************)
EXTENDS Naturals, Sequences, FiniteSets

CONSTANTS
  Tabs,        \* browser tabs
  Ready,       \* those that have loaded and joined before the first edit
  MaxEdits,    \* bound: edits, imports and reverts
  MaxInFlight  \* bound: saves that are not answered yet

ASSUME CanvasAssumption ==
  /\ Ready \subseteq Tabs
  /\ MaxEdits \in Nat /\ MaxInFlight \in Nat \ {0}
  /\ {"import", "revert"} \cap Tabs = {}

VARIABLES
  editors,  \* the tabs whose user has the EDITOR role; the others are viewers
  author,   \* author[n]: the tab that made edit n, "import" or "revert"
  row,      \* the canvas_states row: [canvas, version]
  tab,      \* per tab: [canvas, version, status, timer, socket]
  request,  \* per tab: its load or revert under way, [pc, canvas, version]
  saves,    \* the PUT requests under way: [tab, canvas, version, pc]
  import,   \* the import under way: [pc, canvas, version]
  outbox,   \* per tab: messages on their way to the server
  peers,    \* per tab: the room as it joined, for the init it is about to get
  inbox,    \* per tab: messages on their way from the server
  audience  \* history: the tabs that had loaded and joined at the last edit

vars == <<editors, author, row, tab, request, saves, import,
          outbox, peers, inbox, audience>>

Edits     == 1..MaxEdits
Canvases  == SUBSET Edits
Statuses  == {"saved", "saving", "error", "readonly"}
NoRequest == [pc |-> "none", canvas |-> {}, version |-> 0]
NoTimer   == [canvas |-> {}, version |-> 0]

Change(canvas) == [type |-> "change", canvas |-> canvas]
RequestSync    == [type |-> "request_sync", canvas |-> {}]
InitMessage(others) == [type |-> IF others = {} THEN "alone" ELSE "init", canvas |-> {}]
Messages == {RequestSync, InitMessage({}), InitMessage(Tabs)} \cup {Change(x) : x \in Canvases}

Init ==
  /\ editors \in SUBSET Tabs
  /\ author = <<>>
  /\ row = [canvas |-> {}, version |-> 1]
  /\ tab = [c \in Tabs |->
       [canvas |-> {}, version |-> 1, timer |-> NoTimer,
        status |-> IF c \in Ready \ editors THEN "readonly" ELSE "saved",
        socket |-> IF c \in Ready THEN "open" ELSE "new"]]
  /\ request = [c \in Tabs |-> [NoRequest EXCEPT !.pc = IF c \in Ready THEN "none" ELSE "role"]]
  /\ saves = {}
  /\ import = NoRequest
  /\ outbox = [c \in Tabs |-> <<>>]
  /\ peers = [c \in Tabs |-> {}]
  /\ inbox = [c \in Tabs |-> <<>>]
  /\ audience = {}

\* A page starts its socket and its load side by side.  The socket is "new" until
\* the server has registered it, "joined" until it has sent init, then "open";
\* "closed" for good.  A tab opened late is one whose socket and load are slow.
Room   == {c \in Tabs : tab[c].socket \in {"joined", "open"}}

\* What a tab's effect puts on its socket.
Sent(c, m) == IF c \in Room THEN [outbox EXCEPT ![c] = Append(@, m)] ELSE outbox
-----------------------------------------------------------------------------
(* The effect, after each kind of event. *)

\* Mutant: the timer of the last edit survives.
M_Incoming(t, canvas) == [t EXCEPT !.canvas = canvas]

\* A canvas from outside is shown, and neither sent on nor saved: the effect
\* clears its timer and returns.
Incoming(t, canvas) == [t EXCEPT !.canvas = canvas, !.timer = NoTimer]

\* A new version or status runs the effect again, which clears its timer and
\* finds no new canvas.
Answered(t, version, status) ==
  [t EXCEPT !.version = version, !.status = status,
            !.timer = IF version = t.version /\ status = t.status THEN @ ELSE NoTimer]

\* An edit sets "saving" and arms the timer, whose closure holds the canvas and
\* the version of this moment.  If the status was another, its change runs the
\* effect again, and that clears the timer just armed.
Edited(t, n) ==
  LET canvas == t.canvas \cup {n}
  IN  [t EXCEPT !.canvas = canvas, !.status = "saving",
                !.timer = IF t.status = "saving"
                          THEN [canvas |-> canvas, version |-> t.version] ELSE NoTimer]
-----------------------------------------------------------------------------
(* The tab. *)

\* GET /api/projects/{id} tells the role.
LoadRole(c) ==
  /\ request[c].pc = "role"
  /\ request' = [request EXCEPT ![c].pc = "get"]
  /\ tab' = [tab EXCEPT ![c] =
       Answered(@, @.version, IF c \in editors THEN "saved" ELSE "readonly")]
  /\ UNCHANGED <<editors, author, row, saves, import, outbox, peers, inbox, audience>>

\* GET /api/projects/{id}/canvas, at the server.
GetCanvas(c) ==
  /\ request[c].pc = "get"
  /\ request' = [request EXCEPT ![c] = [pc |-> "got", canvas |-> row.canvas, version |-> row.version]]
  /\ UNCHANGED <<editors, author, row, tab, saves, import, outbox, peers, inbox, audience>>

\* Its answer, at the tab, after a load or a revert.
ShowCanvas(c) ==
  /\ request[c].pc = "got"
  /\ request' = [request EXCEPT ![c] = NoRequest]
  /\ tab' = [tab EXCEPT ![c] = [Incoming(@, request[c].canvas) EXCEPT !.version = request[c].version]]
  /\ UNCHANGED <<editors, author, row, saves, import, outbox, peers, inbox, audience>>

\* The user changes the canvas, which is read-only for a viewer.
Edit(c) ==
  /\ tab[c].status # "readonly"
  /\ Len(author) < MaxEdits
  /\ LET new == Edited(tab[c], Len(author) + 1)
     IN  /\ tab' = [tab EXCEPT ![c] = new]
         /\ outbox' = Sent(c, Change(new.canvas))
  /\ author' = Append(author, c)
  /\ audience' = {d \in Room : request[d].pc = "none"}
  /\ UNCHANGED <<editors, row, request, saves, import, peers, inbox>>

\* The timer fires: PUT /api/projects/{id}/canvas with what its closure holds.
StartSave(c) ==
  /\ tab[c].timer # NoTimer
  /\ Cardinality(saves) < MaxInFlight
  /\ tab' = [tab EXCEPT ![c].timer = NoTimer]
  /\ saves' = saves \cup {[tab |-> c, canvas |-> tab[c].timer.canvas,
                           version |-> tab[c].timer.version, pc |-> "sent"]}
  /\ UNCHANGED <<editors, author, row, request, import, outbox, peers, inbox, audience>>

\* The answer: the new version, or "error" and the old one.
EndSave(s) ==
  /\ s.pc \in {"ok", "conflict", "failed"}
  /\ saves' = saves \ {s}
  /\ tab' = [tab EXCEPT ![s.tab] =
       IF s.pc = "ok" THEN Answered(@, s.version + 1, "saved")
                      ELSE Answered(@, @.version, "error")]
  /\ UNCHANGED <<editors, author, row, request, import, outbox, peers, inbox, audience>>

\* Mutant: a change that is shown is sent on, as an edit would be.
M_Reply(c, m) ==
  CASE m.type = "init"         -> Sent(c, RequestSync)
    [] m.type = "request_sync" -> Sent(c, Change(tab[c].canvas))
    [] m.type = "change"       -> Sent(c, m)
    [] OTHER                   -> outbox

\* A message from the room: init asks the peers for their canvas, a request is
\* answered with this one, a change is shown.
Reply(c, m) ==
  CASE m.type = "init"         -> Sent(c, RequestSync)
    [] m.type = "request_sync" -> Sent(c, Change(tab[c].canvas))
    [] OTHER                   -> outbox

Receive(c) ==
  /\ c \in Room
  /\ inbox[c] # <<>>
  /\ LET m == Head(inbox[c])
     IN  /\ inbox' = [inbox EXCEPT ![c] = Tail(@)]
         /\ outbox' = Reply(c, m)
         /\ tab' = [tab EXCEPT ![c] = IF m.type = "change" THEN Incoming(@, m.canvas) ELSE @]
  /\ UNCHANGED <<editors, author, row, request, saves, import, peers, audience>>
-----------------------------------------------------------------------------
(* The sync room. *)

\* handleWorkspaceWebSocketSync registers the socket, under the room's lock.
Join(c) ==
  /\ tab[c].socket = "new"
  /\ tab' = [tab EXCEPT ![c].socket = "joined"]
  \* the peers are those of this moment, though init is sent a step later
  /\ peers' = [peers EXCEPT ![c] = Room]
  /\ UNCHANGED <<editors, author, row, request, saves, import, outbox, inbox, audience>>

\* It sends init, then reads what the tab has sent.
SendInit(c) ==
  /\ tab[c].socket = "joined"
  /\ tab' = [tab EXCEPT ![c].socket = "open"]
  /\ inbox' = [inbox EXCEPT ![c] = Append(@, InitMessage(peers[c]))]
  /\ peers' = [peers EXCEPT ![c] = {}]
  /\ UNCHANGED <<editors, author, row, request, saves, import, outbox, audience>>

\* Mutant: any member of the room may relay anything.
M_MayRelay(c, m) == TRUE

\* syncRelayMinRole: a viewer may only ask.
MayRelay(c, m) == m.type = "change" => c \in editors

\* broadcastToRoom: every other client of the room gets it.
PassedOn(c, m) ==
  [d \in Tabs |-> IF d \in Room \ {c} /\ MayRelay(c, m) THEN Append(inbox[d], m) ELSE inbox[d]]

\* The read loop: one message is passed on, to all the others in one step (there
\* is one other in the runs; more would take it at different times).
Relay(c) ==
  /\ tab[c].socket = "open"
  /\ outbox[c] # <<>>
  /\ inbox' = PassedOn(c, Head(outbox[c]))
  /\ outbox' = [outbox EXCEPT ![c] = Tail(@)]
  /\ UNCHANGED <<editors, author, row, tab, request, saves, import, peers, audience>>

\* The connection breaks, with what was in it; the tab does not open another.
Disconnect(c) ==
  /\ tab[c].socket = "open"
  /\ tab' = [tab EXCEPT ![c].socket = "closed"]
  /\ outbox' = [outbox EXCEPT ![c] = <<>>]
  /\ inbox' = [inbox EXCEPT ![c] = <<>>]
  /\ UNCHANGED <<editors, author, row, request, saves, import, peers, audience>>
-----------------------------------------------------------------------------
(* The requests that write the row. *)

Step(s, pc) == saves' = (saves \ {s}) \cup {[s EXCEPT !.pc = pc]}

\* PUT: the version is read and compared, for a member with the EDITOR role.
CheckSave(s) ==
  /\ s.pc = "sent"
  /\ Step(s, IF s.tab \notin editors THEN "failed"
             ELSE IF s.version = row.version THEN "checked" ELSE "conflict")
  /\ UNCHANGED <<editors, author, row, tab, request, import, outbox, peers, inbox, audience>>

\* PUT: the row is overwritten, whatever its version is by now.
CommitSave(s) ==
  /\ s.pc = "checked"
  /\ Step(s, "ok")
  /\ row' = [canvas |-> s.canvas, version |-> s.version + 1]
  /\ UNCHANGED <<editors, author, tab, request, import, outbox, peers, inbox, audience>>

\* The request or its answer is lost: fetch throws.
LoseSave(s) ==
  /\ s.pc \in {"sent", "ok"}
  /\ Step(s, "failed")
  /\ UNCHANGED <<editors, author, row, tab, request, import, outbox, peers, inbox, audience>>

\* handleImport: the row is read and merged with what the files hold.
ReadImport ==
  /\ import.pc = "none"
  /\ Len(author) < MaxEdits
  /\ import' = [pc |-> "merged", canvas |-> row.canvas \cup {Len(author) + 1}, version |-> row.version]
  /\ author' = Append(author, "import")
  /\ audience' = {}
  /\ UNCHANGED <<editors, row, tab, request, saves, outbox, peers, inbox>>

CommitImport ==
  /\ import.pc = "merged"
  /\ import' = [import EXCEPT !.pc = "committed"]
  /\ row' = [canvas |-> import.canvas, version |-> import.version + 1]
  /\ UNCHANGED <<editors, author, tab, request, saves, outbox, peers, inbox, audience>>

\* The merged canvas, without its version, goes to every client of the room.
AnnounceImport ==
  /\ import.pc = "committed"
  /\ import' = NoRequest
  /\ inbox' = [c \in Tabs |-> IF c \in Room THEN Append(inbox[c], Change(import.canvas)) ELSE inbox[c]]
  /\ UNCHANGED <<editors, author, row, tab, request, saves, outbox, peers, audience>>

\* handleRevertSnapshot: a snapshot is the canvas some tab showed when a run of
\* it succeeded.  The row's version is read ...
ReadRevert(c) ==
  /\ c \in editors
  /\ request[c].pc = "none"
  /\ Len(author) < MaxEdits
  /\ \E snapshot \in SUBSET (1..Len(author)) :
       request' = [request EXCEPT ![c] = [pc |-> "revert", canvas |-> snapshot, version |-> row.version]]
  /\ author' = Append(author, "revert")
  /\ UNCHANGED <<editors, row, tab, saves, import, outbox, peers, inbox, audience>>

\* ... and the row overwritten; the tab then reads it again, its peers do not.
CommitRevert(c) ==
  /\ request[c].pc = "revert"
  /\ row' = [canvas |-> request[c].canvas, version |-> request[c].version + 1]
  /\ request' = [request EXCEPT ![c].pc = "get"]
  /\ UNCHANGED <<editors, author, tab, saves, import, outbox, peers, inbox, audience>>
-----------------------------------------------------------------------------
\* What happens by itself, once a request or a message is under way.
Machinery(c) ==
  LoadRole(c) \/ GetCanvas(c) \/ ShowCanvas(c) \/ StartSave(c) \/ Receive(c)
    \/ Join(c) \/ SendInit(c) \/ Relay(c) \/ CommitRevert(c)

Saving == \E s \in saves : CheckSave(s) \/ CommitSave(s) \/ EndSave(s)

Importing == CommitImport \/ AnnounceImport

Next ==
  \/ \E c \in Tabs : \/ Machinery(c)
                     \/ Edit(c)
                     \/ Disconnect(c)
                     \/ ReadRevert(c)
  \/ \E s \in saves : CheckSave(s) \/ CommitSave(s) \/ EndSave(s) \/ LoseSave(s)
  \/ ReadImport
  \/ Importing

Spec == Init /\ [][Next]_vars

\* Messages, timers and requests proceed; users and networks owe nothing.
FairSpec ==
  /\ Spec
  /\ \A c \in Tabs : WF_vars(Machinery(c))
  /\ WF_vars(Saving)
  /\ WF_vars(Importing)
-----------------------------------------------------------------------------
Request == [pc : {"none", "role", "get", "got", "revert"}, canvas : Canvases, version : Nat]

\* Every variable has its type: the tab of page.tsx, the requests of
\* projects.go and snapshots.go, the room of main.go.
TypeOK ==
  /\ editors \subseteq Tabs /\ audience \subseteq Tabs
  /\ author \in Seq(Tabs \cup {"import", "revert"}) /\ Len(author) <= MaxEdits
  /\ row \in [canvas : Canvases, version : Nat]
  /\ tab \in [Tabs -> [canvas : Canvases, version : Nat, status : Statuses,
                       timer : [canvas : Canvases, version : Nat],
                       socket : {"new", "joined", "open", "closed"}]]
  /\ request \in [Tabs -> Request]
  /\ saves \subseteq [tab : Tabs, canvas : Canvases, version : Nat,
                     pc : {"sent", "checked", "conflict", "ok", "failed"}]
  /\ import \in [pc : {"none", "merged", "committed"}, canvas : Canvases, version : Nat]
  /\ \A c \in Tabs : /\ outbox[c] \in Seq(Messages) /\ inbox[c] \in Seq(Messages)
                     /\ peers[c] \subseteq Tabs

\* The latest of a tab's own edits, 0 if it has made none.
LatestOf(c) ==
  LET own == {n \in 1..Len(author) : author[n] = c}
  IN  IF own = {} THEN 0 ELSE CHOOSE n \in own : \A k \in own : k <= n

\* A save sends what its tab shows at that moment, with the version it holds and
\* its user's own latest edit: the timer's closure over nodes, edges and version
\* (page.tsx, autosave effect) is never one from before a peer's change, an
\* import, a reload or another answer, which the save would overwrite.
SavesWhatIsShown ==
  [][\A s \in saves' \ saves : s.pc = "sent" =>
       /\ s.canvas = tab[s.tab].canvas
       /\ s.version = tab[s.tab].version
       /\ LatestOf(s.tab) \in s.canvas]_vars

\* With one editor, and no import or revert, a tab that had loaded and joined
\* when the editor last edited shows what the editor shows as soon as no
\* message between them is under way.  It takes the full canvas in every
\* change, the order of a socket, and the server not passing on what a
\* viewer's tab answers to the editor's request_sync (syncRelayMinRole).
FollowersInSync ==
  \A e, c \in audience :
    /\ editors = {e} /\ author # <<>> /\ author[Len(author)] = e
    /\ \A n \in DOMAIN author : author[n] \in Tabs
    /\ {e, c} \subseteq Room
    /\ outbox[e] = <<>> /\ inbox[c] = <<>>
    => tab[c].canvas = tab[e].canvas

Quiet == \A c \in Tabs : inbox[c] = <<>> /\ outbox[c] = <<>>

\* Once the users stop, the room falls silent: no tab takes a change it was
\* sent for one to broadcast (isIncomingSyncRef, lastStateRef in page.tsx), and
\* every answer to a request_sync is the end of it.
QuietsDown == <>[]Quiet

\* An edit's "Saving..." ends, in "Saved" or in "Save conflict": README.md names
\* an "optimistic-locked autosave", page.tsx a "Debounced Database Auto-Save".
Autosaves == \A c \in Tabs : tab[c].status = "saving" ~> tab[c].status # "saving"
=============================================================================
