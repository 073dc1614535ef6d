---------------------------- MODULE Canvas_proofs ----------------------------
(* Theorems about Canvas, for any number of tabs and edits: its types, that  *)
(* a save sends what its tab shows, its user's own latest edit included, and *)
(* that followers of a lone editor end up with the editor's canvas.          *)
EXTENDS Canvas, SequenceTheorems, TLAPS

USE CanvasAssumption

-----------------------------------------------------------------------------
(* The invariants.  Types says besides TypeOK that the messages are kept per *)
(* tab.                                                                      *)

TabType == [canvas : Canvases, version : Nat, status : Statuses,
            timer : [canvas : Canvases, version : Nat],
            socket : {"new", "joined", "open", "closed"}]

Authors == Tabs \cup {"import", "revert"}

ImportType == [pc : {"none", "merged", "committed"}, canvas : Canvases, version : Nat]

SaveType == [tab : Tabs, canvas : Canvases, version : Nat,
             pc : {"sent", "checked", "conflict", "ok", "failed"}]

Types ==
  /\ editors \subseteq Tabs /\ audience \subseteq Tabs
  /\ author \in Seq(Authors) /\ Len(author) <= MaxEdits
  /\ row \in [canvas : Canvases, version : Nat]
  /\ tab \in [Tabs -> TabType]
  /\ request \in [Tabs -> Request]
  /\ saves \subseteq SaveType
  /\ import \in ImportType
  /\ outbox \in [Tabs -> Seq(Messages)] /\ inbox \in [Tabs -> Seq(Messages)]
  /\ peers \in [Tabs -> SUBSET Tabs]

\* A timer that runs is the one the tab's own latest edit armed, and its closure
\* holds what the tab still shows: whatever shows another canvas, or tells
\* another version, clears it.
TimerInv ==
  \A c \in Tabs : tab[c].timer # NoTimer =>
    /\ tab[c].timer.canvas = tab[c].canvas
    /\ tab[c].timer.version = tab[c].version
    /\ LatestOf(c) \in tab[c].canvas

\* What tab d shows and what its timer holds are as they were.
TimerStays(d) ==
  /\ tab'[d].timer = tab[d].timer
  /\ tab'[d].canvas = tab[d].canvas /\ tab'[d].version = tab[d].version

\* The changes among the messages of a socket, in either direction.
NoChange(s)  == \A i \in 1..Len(s) : s[i].type # "change"
Newest(s, v) == \E i \in 1..Len(s) :
                  s[i].type = "change" /\ s[i].canvas = v
                    /\ \A j \in 1..Len(s) : j > i => s[j].type # "change"

\* Only the users of tabs have changed the canvas so far.
ByHand == \A n \in DOMAIN author : author[n] \in Tabs

\* The editor's canvas is on its way to tab c, or there.
Follows(e, c) ==
  \/ Newest(outbox[e], tab[e].canvas)
  \/ NoChange(outbox[e]) /\ Newest(inbox[c], tab[e].canvas)
  \/ NoChange(outbox[e]) /\ NoChange(inbox[c]) /\ tab[c].canvas = tab[e].canvas

Leads(e) == editors = {e} /\ author # <<>> /\ author[Len(author)] = e

SyncInv ==
  /\ \A c \in audience : tab[c].socket # "new"
  /\ ByHand =>
       /\ import.pc = "none"
       /\ \A c \in Tabs : request[c].pc # "revert"
       /\ \A c \in audience : request[c].pc = "none"
       /\ \A e \in Tabs : editors = {e} => NoChange(inbox[e])
       /\ \A e, c \in audience :
            Leads(e) /\ c # e /\ {e, c} \subseteq Room => Follows(e, c)

-----------------------------------------------------------------------------
(* Types and timers.                                                         *)

LEMMA MessageTypes ==
  ASSUME Tabs # {}
  PROVE  /\ \A x \in Canvases : Change(x) \in Messages
         /\ RequestSync \in Messages
         /\ \A others : InitMessage(others) \in Messages
  BY DEF Messages, InitMessage

LEMMA TypesInit == Init => Types
<1> SUFFICES ASSUME Init PROVE Types
  OBVIOUS
<1>1. tab \in [Tabs -> TabType]
  BY DEF Init, TabType, NoTimer, Canvases, Statuses
<1>2. request \in [Tabs -> Request] /\ import \in ImportType
  BY DEF Init, Request, ImportType, NoRequest, Canvases
<1>3. /\ outbox \in [Tabs -> Seq(Messages)] /\ inbox \in [Tabs -> Seq(Messages)]
      /\ author \in Seq(Authors) /\ Len(author) <= MaxEdits
  BY EmptySeq DEF Init
<1>. QED
  BY <1>1, <1>2, <1>3 DEF Init, Types, Canvases

\* The effect keeps a tab a tab.
LEMMA EffectTypes ==
  ASSUME NEW t \in TabType, NEW x \in Canvases, NEW v \in Nat, NEW s \in Statuses
  PROVE  /\ Incoming(t, x) \in TabType
         /\ [Incoming(t, x) EXCEPT !.version = v] \in TabType
         /\ Answered(t, v, s) \in TabType
         /\ \A n \in Edits : Edited(t, n) \in TabType
         /\ [t EXCEPT !.timer = NoTimer] \in TabType
         /\ \A k \in {"joined", "open", "closed"} : [t EXCEPT !.socket = k] \in TabType
  BY DEF TabType, Incoming, Answered, Edited, NoTimer, Canvases, Statuses

\* So do the statements of a request.
LEMMA RequestTypes ==
  ASSUME NEW r \in Request
  PROVE  /\ [r EXCEPT !.pc = "get"] \in Request
         /\ r.canvas \in Canvases /\ r.version \in Nat /\ r.version + 1 \in Nat
  BY DEF Request

LEMMA SaveTypes ==
  ASSUME NEW s \in SaveType
  PROVE  /\ \A pc \in {"checked", "conflict", "ok", "failed"} : [s EXCEPT !.pc = pc] \in SaveType
         /\ s.canvas \in Canvases /\ s.tab \in Tabs /\ s.version \in Nat /\ s.version + 1 \in Nat
  BY DEF SaveType

LEMMA ImportTypes ==
  ASSUME NEW i \in ImportType
  PROVE  /\ [i EXCEPT !.pc = "committed"] \in ImportType
         /\ i.canvas \in Canvases /\ i.version \in Nat /\ i.version + 1 \in Nat
  BY DEF ImportType

LEMMA SentType ==
  ASSUME outbox \in [Tabs -> Seq(Messages)], NEW c \in Tabs, NEW m \in Messages
  PROVE  Sent(c, m) \in [Tabs -> Seq(Messages)]
  BY DEF Sent

LEMMA TypesStep == Types /\ [Next]_vars => Types'
<1> SUFFICES ASSUME Types, [Next]_vars PROVE Types'
  OBVIOUS
<1> USE DEF Types
<1>1. CASE UNCHANGED vars
  BY <1>1 DEF vars
<1>2. ASSUME NEW c \in Tabs, LoadRole(c) PROVE Types'
  <2>1. tab' \in [Tabs -> TabType]
    <3>1. tab[c].version \in Nat /\ {} \in Canvases
      BY DEF TabType, Canvases
    <3>2. Answered(tab[c], tab[c].version, IF c \in editors THEN "saved" ELSE "readonly") \in TabType
      BY <3>1, EffectTypes DEF Statuses
    <3>. QED
      BY <1>2, <3>2 DEF LoadRole
  <2>2. request' \in [Tabs -> Request]
    <3>1. [request[c] EXCEPT !.pc = "get"] \in Request
      BY RequestTypes
    <3>. QED
      BY <1>2, <3>1 DEF LoadRole
  <2>. QED
    BY <1>2, <2>1, <2>2 DEF LoadRole
<1>3. ASSUME NEW c \in Tabs, GetCanvas(c) PROVE Types'
  BY <1>3 DEF GetCanvas, Request
<1>4. ASSUME NEW c \in Tabs, ShowCanvas(c) PROVE Types'
  <2>1. request[c].canvas \in Canvases /\ request[c].version \in Nat
    BY DEF Request
  <2>2. tab' \in [Tabs -> TabType]
    <3>1. [Incoming(tab[c], request[c].canvas) EXCEPT !.version = request[c].version] \in TabType
      BY <2>1, EffectTypes DEF Statuses
    <3>. QED
      BY <1>4, <3>1 DEF ShowCanvas
  <2>3. request' \in [Tabs -> Request]
    BY <1>4 DEF ShowCanvas, Request, NoRequest, Canvases
  <2>. QED
    BY <1>4, <2>2, <2>3 DEF ShowCanvas
<1>5. ASSUME NEW c \in Tabs, Edit(c) PROVE Types'
  <2>1. Len(author) + 1 \in Edits /\ Len(author) \in Nat
    BY <1>5 DEF Edit, Edits
  <2>2. Edited(tab[c], Len(author) + 1) \in TabType
    <3>1. {} \in Canvases /\ 1 \in Nat /\ "saved" \in Statuses /\ tab[c] \in TabType
      BY DEF Statuses, Canvases
    <3>. QED
      BY <2>1, <3>1, EffectTypes
  <2>3. tab' \in [Tabs -> TabType]
    BY <1>5, <2>2 DEF Edit
  <2>4. outbox' \in [Tabs -> Seq(Messages)]
    <3>1. Edited(tab[c], Len(author) + 1).canvas \in Canvases
      BY <2>2 DEF TabType
    <3>. QED
      BY <1>5, <3>1, MessageTypes, SentType DEF Edit
  <2>5. author' \in Seq(Authors) /\ Len(author') <= MaxEdits
    BY <1>5, <2>1 DEF Edit, Authors, Edits
  <2>6. audience' \subseteq Tabs
    BY <1>5 DEF Edit, Room
  <2>. QED
    BY <1>5, <2>3, <2>4, <2>5, <2>6 DEF Edit
<1>6. ASSUME NEW c \in Tabs, StartSave(c) PROVE Types'
  <2>1. [tab[c] EXCEPT !.timer = NoTimer] \in TabType
    BY EffectTypes DEF Statuses, Canvases
  <2>2. [tab |-> c, canvas |-> tab[c].timer.canvas,
         version |-> tab[c].timer.version, pc |-> "sent"] \in SaveType
    BY DEF TabType, SaveType
  <2>3. tab' \in [Tabs -> TabType] /\ saves' \subseteq SaveType
    BY <1>6, <2>1, <2>2 DEF StartSave
  <2>. QED
    BY <1>6, <2>3 DEF StartSave
<1>7. ASSUME NEW c \in Tabs, Receive(c) PROVE Types'
  <2>1. Head(inbox[c]) \in Messages /\ Tail(inbox[c]) \in Seq(Messages)
    BY <1>7 DEF Receive
  <2>2. inbox' \in [Tabs -> Seq(Messages)]
    BY <1>7, <2>1 DEF Receive
  <2>3. tab[c].canvas \in Canvases /\ Head(inbox[c]).canvas \in Canvases
    BY <2>1 DEF TabType, Messages, RequestSync, InitMessage, Change, Canvases
  <2>4. outbox' \in [Tabs -> Seq(Messages)]
    <3>1. outbox' = Reply(c, Head(inbox[c]))
      BY <1>7 DEF Receive
    <3>2. Sent(c, RequestSync) \in [Tabs -> Seq(Messages)]
      BY MessageTypes, SentType
    <3>3. Sent(c, Change(tab[c].canvas)) \in [Tabs -> Seq(Messages)]
      BY <2>3, MessageTypes, SentType
    <3>. QED
      BY <3>1, <3>2, <3>3 DEF Reply
  <2>5. tab' \in [Tabs -> TabType]
    <3>1. Incoming(tab[c], Head(inbox[c]).canvas) \in TabType
      BY <2>3, EffectTypes DEF Statuses
    <3>. QED
      BY <1>7, <3>1 DEF Receive
  <2>. QED
    BY <1>7, <2>2, <2>4, <2>5 DEF Receive
<1>8. ASSUME NEW c \in Tabs, Join(c) PROVE Types'
  <2>1. [tab[c] EXCEPT !.socket = "joined"] \in TabType
    BY EffectTypes DEF Statuses, Canvases
  <2>2. tab' \in [Tabs -> TabType] /\ peers' \in [Tabs -> SUBSET Tabs]
    BY <1>8, <2>1 DEF Join, Room
  <2>. QED
    BY <1>8, <2>2 DEF Join
<1>9. ASSUME NEW c \in Tabs, SendInit(c) PROVE Types'
  <2>1. tab' \in [Tabs -> TabType]
    <3>1. [tab[c] EXCEPT !.socket = "open"] \in TabType
      BY EffectTypes DEF Statuses, Canvases
    <3>. QED
      BY <1>9, <3>1 DEF SendInit
  <2>2. inbox' \in [Tabs -> Seq(Messages)]
    BY <1>9, MessageTypes DEF SendInit
  <2>. QED
    BY <1>9, <2>1, <2>2 DEF SendInit
<1>10. ASSUME NEW c \in Tabs, Relay(c) PROVE Types'
  <2>1. Head(outbox[c]) \in Messages /\ Tail(outbox[c]) \in Seq(Messages)
    BY <1>10 DEF Relay
  <2>2. PassedOn(c, Head(outbox[c])) \in [Tabs -> Seq(Messages)]
    BY <2>1 DEF PassedOn
  <2>. QED
    BY <1>10, <2>1, <2>2 DEF Relay
<1>11. ASSUME NEW c \in Tabs, CommitRevert(c) PROVE Types'
  <2>1. [request[c] EXCEPT !.pc = "get"] \in Request /\ request[c].version + 1 \in Nat
        /\ request[c].canvas \in Canvases
    BY RequestTypes
  <2>2. request' \in [Tabs -> Request] /\ row' \in [canvas : Canvases, version : Nat]
    BY <1>11, <2>1 DEF CommitRevert
  <2>. QED
    BY <1>11, <2>2 DEF CommitRevert
<1>12. ASSUME NEW c \in Tabs, Disconnect(c) PROVE Types'
  <2>1. [tab[c] EXCEPT !.socket = "closed"] \in TabType
    BY EffectTypes DEF Statuses, Canvases
  <2>2. /\ tab' \in [Tabs -> TabType]
        /\ outbox' \in [Tabs -> Seq(Messages)] /\ inbox' \in [Tabs -> Seq(Messages)]
    BY <1>12, <2>1, EmptySeq DEF Disconnect
  <2>. QED
    BY <1>12, <2>2 DEF Disconnect
<1>13. ASSUME NEW c \in Tabs, ReadRevert(c) PROVE Types'
  <2>1. author' \in Seq(Authors) /\ Len(author') <= MaxEdits /\ Len(author) \in Nat
    BY <1>13 DEF ReadRevert, Authors
  <2>2. SUBSET (1..Len(author)) \subseteq Canvases
    BY <2>1 DEF Canvases, Edits
  <2>3. request' \in [Tabs -> Request]
    <3>1. \A x \in Canvases : [pc |-> "revert", canvas |-> x, version |-> row.version] \in Request
      BY DEF Request
    <3>2. PICK x \in Canvases :
            request' = [request EXCEPT ![c] = [pc |-> "revert", canvas |-> x, version |-> row.version]]
      BY <1>13, <2>2 DEF ReadRevert
    <3>. QED
      BY <3>1, <3>2
  <2>. QED
    BY <1>13, <2>1, <2>3 DEF ReadRevert
<1>14. ASSUME NEW s \in saves, CheckSave(s) \/ CommitSave(s) \/ EndSave(s) \/ LoseSave(s)
       PROVE  Types'
  <2>0. s \in SaveType
    OBVIOUS
  <2>1. CASE CheckSave(s)
    BY <2>0, <2>1 DEF CheckSave, Step, SaveType
  <2>2. CASE CommitSave(s)
    <3>1. [s EXCEPT !.pc = "ok"] \in SaveType /\ s.version + 1 \in Nat /\ s.canvas \in Canvases
      BY <2>0, SaveTypes
    <3>2. saves' \subseteq SaveType /\ row' \in [canvas : Canvases, version : Nat]
      BY <2>2, <3>1 DEF CommitSave, Step
    <3>. QED
      BY <2>2, <3>2 DEF CommitSave
  <2>3. CASE LoseSave(s)
    BY <2>0, <2>3 DEF LoseSave, Step, SaveType
  <2>4. CASE EndSave(s)
    <3>1. s.tab \in Tabs /\ s.version + 1 \in Nat /\ tab[s.tab].version \in Nat
      BY <2>0 DEF SaveType, TabType
    <3>2. /\ Answered(tab[s.tab], s.version + 1, "saved") \in TabType
          /\ Answered(tab[s.tab], tab[s.tab].version, "error") \in TabType
      BY <3>1, EffectTypes DEF Statuses, Canvases
    <3>3. tab' \in [Tabs -> TabType]
      BY <2>4, <3>1, <3>2 DEF EndSave
    <3>. QED
      BY <2>4, <3>3 DEF EndSave
  <2>. QED
    BY <1>14, <2>1, <2>2, <2>3, <2>4
<1>15. CASE ReadImport
  <2>1. author' \in Seq(Authors) /\ Len(author') <= MaxEdits /\ Len(author) + 1 \in Edits
    BY <1>15 DEF ReadImport, Authors, Edits
  <2>. QED
    BY <1>15, <2>1 DEF ReadImport, ImportType, Canvases
<1>16. CASE CommitImport
  <2>1. /\ [import EXCEPT !.pc = "committed"] \in ImportType
        /\ [canvas |-> import.canvas, version |-> import.version + 1] \in [canvas : Canvases, version : Nat]
    BY ImportTypes
  <2>. QED
    BY <1>16, <2>1 DEF CommitImport
<1>17. CASE AnnounceImport
  <2>1. Change(import.canvas) \in Messages
    BY ImportTypes DEF Messages
  <2>. QED
    BY <1>17, <2>1 DEF AnnounceImport, NoRequest, ImportType, Canvases
<1>. QED
  BY <1>1, <1>2, <1>3, <1>4, <1>5, <1>6, <1>7, <1>8, <1>9, <1>10, <1>11, <1>12, <1>13, <1>14,
     <1>15, <1>16, <1>17 DEF Next, Machinery, Importing

\* Every variable of the tabs, the requests and the room keeps its type, for any
\* number of tabs and edits (page.tsx, projects.go, main.go).
THEOREM Typing == Spec => []TypeOK
<1>1. Spec => []Types
  BY TypesInit, TypesStep, PTL DEF Spec
<1>2. Types => TypeOK
  BY DEF Types, TypeOK, TabType, SaveType, ImportType, Authors
<1>. QED
  BY <1>1, <1>2, PTL

-----------------------------------------------------------------------------
(* A tab's latest edit and its timer.                                        *)

LEMMA LatestIsNew ==
  ASSUME NEW c \in Tabs, author \in Seq(Authors), author' = Append(author, c)
  PROVE  /\ LatestOf(c)' = Len(author) + 1
         /\ \A d \in Tabs \ {c} : LatestOf(d)' = LatestOf(d)
<1>1. Len(author) \in Nat /\ Len(author') = Len(author) + 1 /\ author'[Len(author) + 1] = c
  BY DEF Authors
<1>2. \A n \in 1..Len(author) : author'[n] = author[n]
  BY DEF Authors
<1>3. LatestOf(c)' = Len(author) + 1
  <2> DEFINE own == {n \in 1..Len(author') : author'[n] = c}
             last == Len(author) + 1
  <2>1. last \in own /\ \A k \in own : k <= last
    BY <1>1
  <2>2. \A n \in own : (\A k \in own : k <= n) => n = last
    BY <1>1, <2>1
  <2>3. (CHOOSE n \in own : \A k \in own : k <= n) = last
    BY <2>1, <2>2
  <2>. QED
    BY <2>1, <2>3 DEF LatestOf
<1>4. ASSUME NEW d \in Tabs \ {c} PROVE LatestOf(d)' = LatestOf(d)
  <2> DEFINE Top(own) == IF own = {} THEN 0 ELSE CHOOSE n \in own : \A k \in own : k <= n
  <2>1. {n \in 1..Len(author') : author'[n] = d} = {n \in 1..Len(author) : author[n] = d}
    BY <1>1, <1>2
  <2>2. /\ LatestOf(d) = Top({n \in 1..Len(author) : author[n] = d})
        /\ LatestOf(d)' = Top({n \in 1..Len(author') : author'[n] = d})
    BY DEF LatestOf
  <2> HIDE DEF Top
  <2>. QED
    BY <2>1, <2>2
<1>. QED
  BY <1>3, <1>4

LEMMA LatestIsKept ==
  ASSUME author \in Seq(Authors), NEW x, x \notin Tabs, author' = Append(author, x),
         x \in Authors
  PROVE  \A d \in Tabs : LatestOf(d)' = LatestOf(d)
<1>1. Len(author) \in Nat /\ Len(author') = Len(author) + 1 /\ author'[Len(author) + 1] = x
  BY DEF Authors
<1>2. \A n \in 1..Len(author) : author'[n] = author[n]
  BY DEF Authors
<1>3. ASSUME NEW d \in Tabs PROVE LatestOf(d)' = LatestOf(d)
  <2> DEFINE Top(own) == IF own = {} THEN 0 ELSE CHOOSE n \in own : \A k \in own : k <= n
  <2>1. {n \in 1..Len(author') : author'[n] = d} = {n \in 1..Len(author) : author[n] = d}
    BY <1>1, <1>2
  <2>2. /\ LatestOf(d) = Top({n \in 1..Len(author) : author[n] = d})
        /\ LatestOf(d)' = Top({n \in 1..Len(author') : author'[n] = d})
    BY DEF LatestOf
  <2> HIDE DEF Top
  <2>. QED
    BY <2>1, <2>2
<1>. QED
  BY <1>3

\* An event that leaves the authors alone and clears the timer of each tab whose
\* canvas or version it changes.
LEMMA TimerAside ==
  ASSUME TimerInv, \A d \in Tabs : LatestOf(d)' = LatestOf(d),
         \A d \in Tabs : tab'[d].timer # NoTimer => TimerStays(d)
  PROVE  TimerInv'
<1>1. ASSUME NEW d \in Tabs, tab'[d].timer # NoTimer
      PROVE  /\ tab'[d].timer.canvas = tab'[d].canvas
             /\ tab'[d].timer.version = tab'[d].version
             /\ LatestOf(d)' \in tab'[d].canvas
  BY <1>1 DEF TimerInv, TimerStays
<1>. QED
  BY <1>1 DEF TimerInv, NoTimer

LEMMA TimerStep ==
  ASSUME Types, TimerInv, [Next]_vars
  PROVE  TimerInv'
<1>t. tab \in [Tabs -> TabType] /\ author \in Seq(Authors)
  BY DEF Types
<1>a. author' = author => \A d \in Tabs : LatestOf(d)' = LatestOf(d)
  BY DEF LatestOf
<1>1. CASE tab' = tab /\ author' = author
  BY <1>1, <1>a, TimerAside DEF TimerStays
<1>2. ASSUME NEW c \in Tabs, LoadRole(c) \/ ShowCanvas(c) \/ StartSave(c) \/ Receive(c)
                             \/ Join(c) \/ SendInit(c) \/ Disconnect(c)
      PROVE  TimerInv'
  <2>1. author' = author
    BY <1>2 DEF LoadRole, ShowCanvas, StartSave, Receive, Join, SendInit, Disconnect
  <2>2. \A d \in Tabs : tab'[d].timer # NoTimer => TimerStays(d)
    <3> USE DEF TimerStays
    <3>1. CASE LoadRole(c)
      BY <3>1, <1>t DEF LoadRole, Answered, TabType
    <3>2. CASE ShowCanvas(c)
      BY <3>2, <1>t DEF ShowCanvas, Incoming, TabType
    <3>3. CASE StartSave(c)
      BY <3>3, <1>t DEF StartSave, TabType
    <3>4. CASE Receive(c)
      BY <3>4, <1>t DEF Receive, Incoming, TabType
    <3>5. CASE Join(c)
      BY <3>5, <1>t DEF Join, TabType
    <3>6. CASE SendInit(c)
      BY <3>6, <1>t DEF SendInit, TabType
    <3>7. CASE Disconnect(c)
      BY <3>7, <1>t DEF Disconnect, TabType
    <3>. QED
      BY <1>2, <3>1, <3>2, <3>3, <3>4, <3>5, <3>6, <3>7
  <2>. QED
    BY <2>1, <2>2, <1>a, TimerAside
<1>3. ASSUME NEW c \in Tabs, Edit(c) PROVE TimerInv'
  <2>1. author' = Append(author, c) /\ \A d \in Tabs \ {c} : tab'[d] = tab[d]
    BY <1>3, <1>t DEF Edit
  <2>2. /\ tab'[c].canvas = tab[c].canvas \cup {Len(author) + 1}
        /\ tab'[c].timer # NoTimer => /\ tab'[c].timer.canvas = tab'[c].canvas
                                      /\ tab'[c].timer.version = tab'[c].version
    BY <1>3, <1>t DEF Edit, Edited, TabType
  <2>3. /\ LatestOf(c)' = Len(author) + 1
        /\ \A d \in Tabs \ {c} : LatestOf(d)' = LatestOf(d)
    BY <2>1, <1>t, LatestIsNew
  <2>4. ASSUME NEW d \in Tabs, tab'[d].timer # NoTimer
        PROVE  /\ tab'[d].timer.canvas = tab'[d].canvas
               /\ tab'[d].timer.version = tab'[d].version
               /\ LatestOf(d)' \in tab'[d].canvas
    BY <2>1, <2>2, <2>3, <2>4 DEF TimerInv
  <2>. QED
    BY <2>4 DEF TimerInv, NoTimer
<1>4. CASE ReadImport \/ \E c \in Tabs : ReadRevert(c)
  <2>1. /\ tab' = tab
        /\ author' = Append(author, "import") \/ author' = Append(author, "revert")
    BY <1>4 DEF ReadImport, ReadRevert
  <2>2. \A d \in Tabs : LatestOf(d)' = LatestOf(d)
    BY <2>1, <1>t, LatestIsKept DEF Authors
  <2>. QED
    BY <2>1, <2>2, TimerAside DEF TimerStays
<1>5. ASSUME NEW s \in saves, CheckSave(s) \/ CommitSave(s) \/ EndSave(s) \/ LoseSave(s)
      PROVE  TimerInv'
  <2>1. CASE EndSave(s)
    <3>1. author' = author
          /\ \A d \in Tabs : tab'[d].timer # NoTimer => TimerStays(d)
      BY <2>1, <1>t DEF EndSave, Answered, TabType, TimerStays
    <3>. QED
      BY <3>1, <1>a, TimerAside
  <2>2. CASE CheckSave(s) \/ CommitSave(s) \/ LoseSave(s)
    BY <2>2, <1>1 DEF CheckSave, CommitSave, LoseSave
  <2>. QED
    BY <1>5, <2>1, <2>2
<1>6. ASSUME NEW c \in Tabs, GetCanvas(c) \/ Relay(c) \/ CommitRevert(c)
      PROVE  TimerInv'
  BY <1>6, <1>1 DEF GetCanvas, Relay, CommitRevert
<1>7. CASE CommitImport \/ AnnounceImport \/ UNCHANGED vars
  BY <1>7, <1>1 DEF CommitImport, AnnounceImport, vars
<1>. QED
  BY <1>2, <1>3, <1>4, <1>5, <1>6, <1>7 DEF Next, Machinery, Importing

\* Only StartSave puts a new request on its way.
LEMMA NewSave ==
  ASSUME [Next]_vars, NEW s \in saves' \ saves, s.pc = "sent", Types
  PROVE  \E c \in Tabs : /\ tab[c].timer # NoTimer /\ s.tab = c
                         /\ s.canvas = tab[c].timer.canvas /\ s.version = tab[c].timer.version
<1>1. ASSUME NEW c \in Tabs, StartSave(c)
      PROVE  \E d \in Tabs : /\ tab[d].timer # NoTimer /\ s.tab = d
                             /\ s.canvas = tab[d].timer.canvas /\ s.version = tab[d].timer.version
  BY <1>1 DEF StartSave
<1>2. ASSUME NEW r \in saves, CheckSave(r) \/ CommitSave(r) \/ LoseSave(r)
      PROVE  FALSE
  <2>1. PICK k \in {"checked", "conflict", "ok", "failed"} : saves' = (saves \ {r}) \cup {[r EXCEPT !.pc = k]}
    BY <1>2 DEF CheckSave, CommitSave, LoseSave, Step
  <2>2. r \in SaveType
    BY DEF Types
  <2>3. [r EXCEPT !.pc = k].pc = k
    BY <2>2 DEF SaveType
  <2>. QED
    BY <2>1, <2>3
<1>3. ASSUME NEW r \in saves, EndSave(r) PROVE FALSE
  BY <1>3 DEF EndSave
<1>4. CASE saves' = saves
  BY <1>4
<1>5. ASSUME NEW c \in Tabs, \/ LoadRole(c) \/ GetCanvas(c) \/ ShowCanvas(c) \/ Receive(c) \/ Join(c)
                             \/ SendInit(c) \/ Relay(c) \/ CommitRevert(c) \/ Edit(c)
                             \/ Disconnect(c) \/ ReadRevert(c)
      PROVE  saves' = saves
  BY <1>5 DEF LoadRole, GetCanvas, ShowCanvas, Receive, Join, SendInit, Relay, CommitRevert, Edit,
              Disconnect, ReadRevert
<1>6. CASE ReadImport \/ CommitImport \/ AnnounceImport \/ UNCHANGED vars
  BY <1>6 DEF ReadImport, CommitImport, AnnounceImport, vars
<1>. QED
  BY <1>1, <1>2, <1>3, <1>4, <1>5, <1>6 DEF Next, Machinery, Importing

\* A save sends what its tab shows, its user's own latest edit included: the
\* timer that sends it is the one that edit armed, and every event that would
\* make its closure stale has cleared it (page.tsx, autosave effect).
THEOREM ShownIsSaved == Spec => SavesWhatIsShown
<1> DEFINE Shown(s) == /\ s.canvas = tab[s.tab].canvas
                       /\ s.version = tab[s.tab].version
                       /\ LatestOf(s.tab) \in s.canvas
<1>1. Init => TimerInv
  BY DEF Init, TimerInv
<1>2. Types /\ TimerInv /\ [Next]_vars => TimerInv'
  BY TimerStep
<1>3. Types /\ TimerInv /\ [Next]_vars =>
        [\A s \in saves' \ saves : s.pc = "sent" => Shown(s)]_vars
  <2> SUFFICES ASSUME Types, TimerInv, [Next]_vars, NEW s \in saves' \ saves, s.pc = "sent"
               PROVE  Shown(s)
    OBVIOUS
  <2>1. PICK c \in Tabs : /\ tab[c].timer # NoTimer /\ s.tab = c
                          /\ s.canvas = tab[c].timer.canvas /\ s.version = tab[c].timer.version
    BY NewSave
  <2>2. /\ tab[c].timer.canvas = tab[c].canvas
        /\ tab[c].timer.version = tab[c].version
        /\ LatestOf(c) \in tab[c].canvas
    BY <2>1 DEF TimerInv
  <2>. QED
    BY <2>1, <2>2
<1>4. Spec => []Types
  BY TypesInit, TypesStep, PTL DEF Spec
<1>. QED
  BY <1>1, <1>2, <1>3, <1>4, PTL DEF Spec, SavesWhatIsShown

-----------------------------------------------------------------------------
(* Changes on their way through a socket.                                    *)

LEMMA NoneInEmpty == NoChange(<<>>)
  BY DEF NoChange

LEMMA SentAfter ==
  ASSUME NEW s \in Seq(Messages), NEW m \in Messages, NEW v
  PROVE  /\ m.type # "change" /\ NoChange(s) => NoChange(Append(s, m))
         /\ m.type # "change" /\ Newest(s, v) => Newest(Append(s, m), v)
         /\ m.type = "change" /\ m.canvas = v => Newest(Append(s, m), v)
<1> DEFINE t == Append(s, m)
<1>1. /\ Len(s) \in Nat /\ Len(t) = Len(s) + 1 /\ t[Len(s) + 1] = m
      /\ \A i \in 1..Len(s) : t[i] = s[i]
  OBVIOUS
<1> HIDE DEF t
<1>2. m.type # "change" /\ NoChange(s) => NoChange(t)
  BY <1>1 DEF NoChange
<1>3. m.type # "change" /\ Newest(s, v) => Newest(t, v)
  <2> SUFFICES ASSUME m.type # "change", Newest(s, v) PROVE Newest(t, v)
    OBVIOUS
  <2>1. PICK i \in 1..Len(s) : /\ s[i].type = "change" /\ s[i].canvas = v
                               /\ \A j \in 1..Len(s) : j > i => s[j].type # "change"
    BY DEF Newest
  <2>2. i \in 1..Len(t) /\ t[i].type = "change" /\ t[i].canvas = v
    BY <1>1, <2>1
  <2>3. \A j \in 1..Len(t) : j > i => t[j].type # "change"
    BY <1>1, <2>1
  <2>. QED
    BY <2>2, <2>3 DEF Newest
<1>4. m.type = "change" /\ m.canvas = v => Newest(t, v)
  BY <1>1 DEF Newest
<1>. QED
  BY <1>2, <1>3, <1>4 DEF t

LEMMA TakenFirst ==
  ASSUME NEW s \in Seq(Messages), s # <<>>, NEW v
  PROVE  /\ NoChange(s) => NoChange(Tail(s)) /\ Head(s).type # "change"
         /\ Newest(s, v) =>
              \/ Newest(Tail(s), v)
              \/ NoChange(Tail(s)) /\ Head(s).type = "change" /\ Head(s).canvas = v
<1> DEFINE t == Tail(s)
<1>1. /\ Len(s) \in Nat \ {0} /\ Len(t) = Len(s) - 1 /\ Head(s) = s[1]
      /\ \A i \in 1..Len(t) : t[i] = s[i + 1]
  OBVIOUS
<1> HIDE DEF t
<1>2. NoChange(s) => NoChange(t) /\ Head(s).type # "change"
  BY <1>1 DEF NoChange
<1>3. ASSUME Newest(s, v)
      PROVE  Newest(t, v) \/ (NoChange(t) /\ Head(s).type = "change" /\ Head(s).canvas = v)
  <2>1. PICK i \in 1..Len(s) : /\ s[i].type = "change" /\ s[i].canvas = v
                               /\ \A j \in 1..Len(s) : j > i => s[j].type # "change"
    BY <1>3 DEF Newest
  <2>2. CASE i = 1
    BY <1>1, <2>1, <2>2 DEF NoChange
  <2>3. CASE i > 1
    <3>1. i - 1 \in 1..Len(t) /\ t[i - 1] = s[i]
      BY <1>1, <2>1, <2>3
    <3>2. \A j \in 1..Len(t) : j > i - 1 => t[j].type # "change"
      BY <1>1, <2>1, <2>3
    <3>. QED
      BY <2>1, <3>1, <3>2 DEF Newest
  <2>. QED
    BY <1>1, <2>1, <2>2, <2>3
<1>. QED
  BY <1>2, <1>3 DEF t

LEMMA Kinds ==
  /\ \A others : InitMessage(others).type # "change"
  /\ RequestSync.type # "change"
  /\ \A x : Change(x).type = "change" /\ Change(x).canvas = x
  BY DEF InitMessage, RequestSync, Change

-----------------------------------------------------------------------------
(* A lone editor and its followers.                                          *)

LEMMA SyncInit == Init => SyncInv
  BY NoneInEmpty DEF Init, SyncInv, NoRequest

\* What no step undoes.
LEMMA ForGood ==
  ASSUME Types, [Next]_vars
  PROVE  /\ editors' = editors
         /\ \A c \in Tabs : tab'[c].socket = "new" => tab[c].socket = "new"
         /\ \A c \in Tabs : tab[c].socket # "new" /\ c \in Room' => c \in Room
<1>t. tab \in [Tabs -> TabType]
  BY DEF Types
<1>1. CASE tab' = tab
  <2>1. editors' = editors
    BY DEF Next, Machinery, Importing, LoadRole, GetCanvas, ShowCanvas, StartSave, Receive, Join,
           SendInit, Relay, CommitRevert, Edit, Disconnect, ReadRevert, CheckSave, CommitSave,
           EndSave, LoseSave, ReadImport, CommitImport, AnnounceImport, vars
  <2>. QED
    BY <1>1, <2>1 DEF Room
<1>2. ASSUME NEW c \in Tabs, \/ LoadRole(c) \/ ShowCanvas(c) \/ StartSave(c) \/ Receive(c)
                             \/ Edit(c)
      PROVE  editors' = editors /\ \A d \in Tabs : tab'[d].socket = tab[d].socket
  <2>1. CASE LoadRole(c)
    BY <2>1, <1>t DEF LoadRole, Answered, TabType
  <2>2. CASE ShowCanvas(c)
    BY <2>2, <1>t DEF ShowCanvas, Incoming, TabType
  <2>3. CASE StartSave(c)
    BY <2>3, <1>t DEF StartSave, TabType
  <2>4. CASE Receive(c)
    BY <2>4, <1>t DEF Receive, Incoming, TabType
  <2>5. CASE Edit(c)
    BY <2>5, <1>t DEF Edit, Edited, TabType
  <2>. QED
    BY <1>2, <2>1, <2>2, <2>3, <2>4, <2>5
<1>3. ASSUME NEW c \in Tabs, Join(c) \/ SendInit(c) \/ Disconnect(c)
      PROVE  /\ editors' = editors
             /\ \A d \in Tabs \ {c} : tab'[d].socket = tab[d].socket
             /\ tab'[c].socket \in {"joined", "open", "closed"}
             /\ tab[c].socket # "new" => tab[c].socket \in {"joined", "open"}
  BY <1>3, <1>t DEF Join, SendInit, Disconnect, TabType
<1>4. ASSUME NEW s \in saves, EndSave(s)
      PROVE  editors' = editors /\ \A d \in Tabs : tab'[d].socket = tab[d].socket
  BY <1>4, <1>t DEF EndSave, Answered, TabType
<1>5. ASSUME NEW c \in Tabs, GetCanvas(c) \/ Relay(c) \/ CommitRevert(c) \/ ReadRevert(c)
      PROVE  tab' = tab
  BY <1>5 DEF GetCanvas, Relay, CommitRevert, ReadRevert
<1>6. ASSUME NEW s \in saves, CheckSave(s) \/ CommitSave(s) \/ LoseSave(s)
      PROVE  tab' = tab
  BY <1>6 DEF CheckSave, CommitSave, LoseSave
<1>7. CASE ReadImport \/ CommitImport \/ AnnounceImport \/ UNCHANGED vars
  BY <1>1, <1>7 DEF ReadImport, CommitImport, AnnounceImport, vars
<1>. QED
  BY <1>1, <1>2, <1>3, <1>4, <1>5, <1>6, <1>7 DEF Next, Machinery, Importing, Room

\* Who edited is added at the end.
LEMMA HandKept ==
  ASSUME Types, [Next]_vars, ByHand'
  PROVE  /\ ByHand /\ ~ReadImport /\ \A c \in Tabs : ~ReadRevert(c)
         /\ \/ author' = author /\ audience' = audience
            \/ \E c \in Tabs : Edit(c) /\ author' = Append(author, c)
<1>t. author \in Seq(Authors)
  BY DEF Types
<1>1. ASSUME NEW x, author' = Append(author, x) PROVE ByHand /\ x \in Tabs
  <2>1. /\ Len(author) \in Nat /\ DOMAIN author = 1..Len(author)
        /\ DOMAIN author' = 1..(Len(author) + 1) /\ author'[Len(author) + 1] = x
        /\ \A n \in 1..Len(author) : author'[n] = author[n]
    BY <1>1, <1>t
  <2>. QED
    BY <2>1 DEF ByHand
<1>2. ~ReadImport /\ \A c \in Tabs : ~ReadRevert(c)
  BY <1>1 DEF ReadImport, ReadRevert
<1>3. ASSUME author' = author PROVE ByHand
  BY <1>3 DEF ByHand
<1>4. ASSUME NEW c \in Tabs, Edit(c) PROVE author' = Append(author, c)
  BY <1>4 DEF Edit
<1>5. ASSUME NEW c \in Tabs, \/ LoadRole(c) \/ GetCanvas(c) \/ ShowCanvas(c) \/ StartSave(c)
                             \/ Receive(c) \/ Join(c) \/ SendInit(c) \/ Relay(c)
                             \/ CommitRevert(c) \/ Disconnect(c)
      PROVE  author' = author /\ audience' = audience
  BY <1>5 DEF LoadRole, GetCanvas, ShowCanvas, StartSave, Receive, Join, SendInit, Relay,
              CommitRevert, Disconnect
<1>6. ASSUME NEW s \in saves, CheckSave(s) \/ CommitSave(s) \/ EndSave(s) \/ LoseSave(s)
      PROVE  author' = author /\ audience' = audience
  BY <1>6 DEF CheckSave, CommitSave, EndSave, LoseSave
<1>7. CASE CommitImport \/ AnnounceImport \/ UNCHANGED vars
  BY <1>7, <1>3, <1>2 DEF CommitImport, AnnounceImport, vars
<1>. QED
  BY <1>1, <1>2, <1>3, <1>4, <1>5, <1>6, <1>7 DEF Next, Machinery, Importing

\* The conjuncts of SyncInv about sockets and requests.
LEMMA ReadyStep ==
  ASSUME Types, SyncInv, [Next]_vars
  PROVE  /\ \A c \in audience' : tab'[c].socket # "new"
         /\ ByHand' =>
              /\ import'.pc = "none"
              /\ \A c \in Tabs : request'[c].pc # "revert"
              /\ \A c \in audience' : request'[c].pc = "none"
<1>t. tab \in [Tabs -> TabType] /\ request \in [Tabs -> Request] /\ audience \subseteq Tabs
  BY DEF Types
<1>1. \A c \in audience' : c \in Tabs /\ tab[c].socket # "new"
  <2>1. CASE audience' = audience \/ audience' = {}
    BY <2>1, <1>t DEF SyncInv
  <2>2. CASE audience' = {d \in Room : request[d].pc = "none"}
    BY <2>2 DEF Room
  <2>. QED
    BY <2>1, <2>2
       DEF Next, Machinery, Importing, LoadRole, GetCanvas, ShowCanvas, StartSave, Receive, Join,
           SendInit, Relay, CommitRevert, Edit, Disconnect, ReadRevert, CheckSave, CommitSave,
           EndSave, LoseSave, ReadImport, CommitImport, AnnounceImport, vars
<1>2. \A c \in audience' : tab'[c].socket # "new"
  BY <1>1, ForGood
<1>3. ASSUME ByHand'
      PROVE  /\ import'.pc = "none"
             /\ \A c \in Tabs : request'[c].pc # "revert"
             /\ \A c \in audience' : request'[c].pc = "none"
  <2>h. ByHand /\ ~ReadImport /\ \A c \in Tabs : ~ReadRevert(c)
    BY <1>3, HandKept
  <2>i. import.pc = "none" /\ ~CommitImport /\ ~AnnounceImport
    BY <2>h DEF SyncInv, CommitImport, AnnounceImport
  <2>1. import' = import
    BY <2>h, <2>i
       DEF Next, Machinery, Importing, LoadRole, GetCanvas, ShowCanvas, StartSave, Receive, Join,
           SendInit, Relay, CommitRevert, Edit, Disconnect, ReadRevert, CheckSave, CommitSave,
           EndSave, LoseSave, vars
  <2>2. \A c \in Tabs : ~CommitRevert(c)
    BY <2>h DEF SyncInv, CommitRevert
  <2>3. \A c \in Tabs : \/ request'[c] = request[c]
                        \/ request[c].pc # "none" /\ request'[c].pc # "revert"
    <3>1. CASE request' = request
      BY <3>1
    <3>2. ASSUME NEW d \in Tabs, LoadRole(d) \/ GetCanvas(d) \/ ShowCanvas(d)
          PROVE  \A c \in Tabs : \/ request'[c] = request[c]
                                 \/ request[c].pc # "none" /\ request'[c].pc # "revert"
      BY <3>2, <1>t DEF LoadRole, GetCanvas, ShowCanvas, NoRequest, Request
    <3>. QED
      BY <3>1, <3>2, <2>h, <2>i, <2>2
         DEF Next, Machinery, Importing, StartSave, Receive, Join, SendInit, Relay, Edit, Disconnect,
             CheckSave, CommitSave, EndSave, LoseSave, vars
  <2>4. \A c \in Tabs : request'[c].pc # "revert"
    BY <2>3, <2>h DEF SyncInv
  <2>5. \A c \in audience' : c \in Tabs /\ request[c].pc = "none"
    <3>1. CASE audience' = audience
      BY <3>1, <2>h, <1>t DEF SyncInv
    <3>2. CASE \E c \in Tabs : Edit(c)
      BY <3>2 DEF Edit, Room
    <3>. QED
      BY <1>3, <3>1, <3>2, HandKept
  <2>. QED
    BY <2>1, <2>i, <2>3, <2>4, <2>5
<1>. QED
  BY <1>2, <1>3

\* The lone editor is sent no change.
LEMMA LoneStep ==
  ASSUME Types, SyncInv, [Next]_vars, ByHand', NEW e \in Tabs, editors = {e}
  PROVE  NoChange(inbox'[e])
<1>t. /\ inbox \in [Tabs -> Seq(Messages)] /\ outbox \in [Tabs -> Seq(Messages)]
  BY DEF Types
<1>h. ByHand /\ import.pc = "none" /\ NoChange(inbox[e]) /\ inbox[e] \in Seq(Messages)
  BY <1>t, HandKept DEF SyncInv
<1>1. CASE inbox'[e] = inbox[e]
  BY <1>1, <1>h
<1>2. ASSUME NEW c \in Tabs, Receive(c) PROVE NoChange(inbox'[e])
  <2>1. CASE c = e
    BY <2>1, <1>2, <1>h, <1>t, TakenFirst DEF Receive
  <2>2. CASE c # e
    BY <2>2, <1>2, <1>1, <1>t DEF Receive
  <2>. QED
    BY <2>1, <2>2
<1>3. ASSUME NEW c \in Tabs, SendInit(c) PROVE NoChange(inbox'[e])
  <2>1. CASE c = e
    <3>1. inbox'[e] = Append(inbox[e], InitMessage(peers[e]))
      BY <2>1, <1>3, <1>t DEF SendInit
    <3>2. InitMessage(peers[e]) \in Messages /\ InitMessage(peers[e]).type # "change"
      BY MessageTypes, Kinds
    <3>. QED
      BY <3>1, <3>2, <1>h, SentAfter
  <2>2. CASE c # e
    BY <2>2, <1>3, <1>1, <1>t DEF SendInit
  <2>. QED
    BY <2>1, <2>2
<1>4. ASSUME NEW c \in Tabs, Relay(c) PROVE NoChange(inbox'[e])
  <2>1. Head(outbox[c]) \in Messages
    BY <1>4, <1>t DEF Relay
  <2>2. CASE e \in Room \ {c} /\ MayRelay(c, Head(outbox[c]))
    <3>1. inbox'[e] = Append(inbox[e], Head(outbox[c]))
      BY <2>2, <1>4 DEF Relay, PassedOn
    <3>2. Head(outbox[c]).type # "change"
      BY <2>2 DEF MayRelay
    <3>. QED
      BY <3>1, <3>2, <2>1, <1>h, SentAfter
  <2>3. CASE ~(e \in Room \ {c} /\ MayRelay(c, Head(outbox[c])))
    BY <2>3, <1>4, <1>1 DEF Relay, PassedOn
  <2>. QED
    BY <2>2, <2>3
<1>5. ASSUME NEW c \in Tabs, Disconnect(c) PROVE NoChange(inbox'[e])
  BY <1>5, <1>h, <1>t, NoneInEmpty DEF Disconnect
<1>6. ~AnnounceImport
  BY <1>h DEF AnnounceImport
<1>7. ASSUME NEW c \in Tabs, \/ LoadRole(c) \/ GetCanvas(c) \/ ShowCanvas(c) \/ StartSave(c)
                             \/ Join(c) \/ CommitRevert(c) \/ Edit(c) \/ ReadRevert(c)
      PROVE  inbox' = inbox
  BY <1>7 DEF LoadRole, GetCanvas, ShowCanvas, StartSave, Join, CommitRevert, Edit, ReadRevert
<1>8. ASSUME NEW s \in saves, CheckSave(s) \/ CommitSave(s) \/ EndSave(s) \/ LoseSave(s)
      PROVE  inbox' = inbox
  BY <1>8 DEF CheckSave, CommitSave, EndSave, LoseSave
<1>9. CASE ReadImport \/ CommitImport \/ UNCHANGED vars
  BY <1>9, <1>1 DEF ReadImport, CommitImport, vars
<1>. QED
  BY <1>1, <1>2, <1>3, <1>4, <1>5, <1>6, <1>7, <1>8, <1>9 DEF Next, Machinery, Importing

\* A follower goes on following.
LEMMA FollowStep ==
  ASSUME Types, SyncInv, [Next]_vars, ByHand', NEW e \in audience', NEW c \in audience',
         Leads(e)', c # e, {e, c} \subseteq Room'
  PROVE  Follows(e, c)'
<1>t. /\ inbox \in [Tabs -> Seq(Messages)] /\ outbox \in [Tabs -> Seq(Messages)]
      /\ tab \in [Tabs -> TabType] /\ audience \subseteq Tabs /\ author \in Seq(Authors)
  BY DEF Types
<1>g. editors' = editors /\ editors = {e} /\ e \in Tabs
  BY ForGood DEF Leads, Types
<1>h. /\ ByHand /\ ~ReadImport /\ \A d \in Tabs : ~ReadRevert(d)
      /\ \/ author' = author /\ audience' = audience
         \/ \E d \in Tabs : Edit(d) /\ author' = Append(author, d)
  BY HandKept
<1>i. /\ import.pc = "none" /\ NoChange(inbox[e])
      /\ \A d \in Tabs : ~CommitRevert(d)
  BY <1>h, <1>g DEF SyncInv, CommitRevert
<1>1. ASSUME NEW d \in Tabs, Edit(d) PROVE Follows(e, c)'
  <2>1. author' = Append(author, d) /\ d = e
    BY <1>1, <1>t DEF Edit, Leads
  <2>2. tab'[e] = Edited(tab[e], Len(author) + 1) /\ tab'[e].socket = tab[e].socket
    BY <1>1, <2>1, <1>t DEF Edit, Edited, TabType
  <2>3. e \in Room
    BY <2>2, <1>g DEF Room
  <2>4. outbox'[e] = Append(outbox[e], Change(tab'[e].canvas)) /\ outbox[e] \in Seq(Messages)
    BY <1>1, <2>1, <2>2, <2>3, <1>g, <1>t DEF Edit, Sent
  <2>5. Change(tab'[e].canvas) \in Messages
    <3>1. tab' \in [Tabs -> TabType]
      BY TypesStep DEF Types
    <3>2. tab'[e].canvas \in Canvases
      BY <3>1, <1>g DEF TabType
    <3>. QED
      BY <3>2 DEF Messages
  <2>6. Newest(outbox'[e], tab'[e].canvas)
    BY <2>4, <2>5, SentAfter, Kinds
  <2>. QED
    BY <2>6 DEF Follows, Newest
<1>2. SUFFICES ASSUME author' = author, audience' = audience, \A d \in Tabs : ~Edit(d)
               PROVE  Follows(e, c)'
  BY <1>1, <1>h
<1>a. e \in audience /\ c \in audience /\ c \in Tabs /\ e \in Room /\ c \in Room
      /\ request[e].pc = "none" /\ request[c].pc = "none"
      /\ tab[e].socket # "new" /\ tab[c].socket # "new"
  BY <1>2, <1>t, <1>h, ForGood DEF SyncInv
<1>f. Follows(e, c) /\ inbox[c] \in Seq(Messages) /\ outbox[e] \in Seq(Messages)
  BY <1>2, <1>a, <1>h, <1>g, <1>t DEF SyncInv, Leads
<1>3. ASSUME tab'[e].canvas = tab[e].canvas, tab'[c].canvas = tab[c].canvas,
             outbox'[e] = outbox[e], inbox'[c] = inbox[c]
      PROVE  Follows(e, c)'
  BY <1>3, <1>f DEF Follows, Newest, NoChange
<1>4. ASSUME NEW d \in Tabs, LoadRole(d) PROVE Follows(e, c)'
  BY <1>4, <1>3, <1>a, <1>t DEF LoadRole, Answered, TabType
<1>5. ASSUME NEW d \in Tabs, ShowCanvas(d) PROVE Follows(e, c)'
  <2>1. d # e /\ d # c
    BY <1>5, <1>a DEF ShowCanvas
  <2>. QED
    BY <1>5, <2>1, <1>3, <1>a, <1>g, <1>t DEF ShowCanvas
<1>6. ASSUME NEW d \in Tabs, StartSave(d) \/ Join(d) PROVE Follows(e, c)'
  <2>1. tab'[e].canvas = tab[e].canvas /\ tab'[c].canvas = tab[c].canvas
    <3>1. CASE StartSave(d)
      BY <3>1, <1>a, <1>g, <1>t DEF StartSave, TabType
    <3>2. CASE Join(d)
      BY <3>2, <1>a, <1>g, <1>t DEF Join, TabType
    <3>. QED
      BY <1>6, <3>1, <3>2
  <2>2. outbox' = outbox /\ inbox' = inbox
    BY <1>6 DEF StartSave, Join
  <2>. QED
    BY <2>1, <2>2, <1>3
<1>7. ASSUME NEW d \in Tabs, Receive(d) PROVE Follows(e, c)'
  <2> DEFINE m == Head(inbox[d])
  <2>m. m \in Messages /\ inbox[d] # <<>> /\ inbox[d] \in Seq(Messages)
    BY <1>7, <1>t DEF Receive
  <2>1. CASE d = e
    <3>1. m.type # "change"
      BY <2>1, <2>m, <1>i, TakenFirst
    <3>2. tab' = tab /\ inbox'[c] = inbox[c]
      BY <1>7, <2>1, <3>1, <1>a, <1>t DEF Receive
    <3>3. \/ outbox'[e] = outbox[e]
          \/ outbox'[e] = Append(outbox[e], RequestSync)
          \/ outbox'[e] = Append(outbox[e], Change(tab[e].canvas))
      BY <1>7, <2>1, <1>a, <1>g, <1>t DEF Receive, Reply, Sent
    <3>4. CASE outbox'[e] = outbox[e]
      BY <3>2, <3>4, <1>3
    <3>5. CASE outbox'[e] = Append(outbox[e], RequestSync)
      <4>1. RequestSync \in Messages /\ RequestSync.type # "change"
        BY Kinds DEF Messages
      <4>2. /\ Newest(outbox[e], tab[e].canvas) => Newest(outbox'[e], tab[e].canvas)
            /\ NoChange(outbox[e]) => NoChange(outbox'[e])
        BY <3>5, <4>1, <1>f, SentAfter
      <4>. QED
        BY <3>2, <4>2, <1>f DEF Follows, Newest, NoChange
    <3>6. CASE outbox'[e] = Append(outbox[e], Change(tab[e].canvas))
      <4>1. Change(tab[e].canvas) \in Messages
        BY <1>g, <1>t DEF Messages, TabType
      <4>2. Newest(outbox'[e], tab[e].canvas)
        BY <3>6, <4>1, <1>f, SentAfter, Kinds
      <4>. QED
        BY <3>2, <4>2 DEF Follows, Newest
    <3>. QED
      BY <3>3, <3>4, <3>5, <3>6
  <2>2. CASE d = c
    <3>1. /\ inbox'[c] = Tail(inbox[c]) /\ outbox'[e] = outbox[e]
          /\ tab'[e] = tab[e]
          /\ tab'[c].canvas = IF m.type = "change" THEN m.canvas ELSE tab[c].canvas
      BY <1>7, <2>2, <1>a, <1>g, <1>t DEF Receive, Reply, Sent, Incoming, TabType
    <3>2. /\ NoChange(inbox[c]) => NoChange(inbox'[c]) /\ m.type # "change"
          /\ Newest(inbox[c], tab[e].canvas) =>
               \/ Newest(inbox'[c], tab[e].canvas)
               \/ NoChange(inbox'[c]) /\ m.type = "change" /\ m.canvas = tab[e].canvas
      BY <2>2, <2>m, <3>1, TakenFirst
    <3>. QED
      BY <3>1, <3>2, <1>f DEF Follows, Newest, NoChange
  <2>3. CASE d # e /\ d # c
    <3>1. outbox'[e] = outbox[e] /\ inbox'[c] = inbox[c] /\ tab'[e] = tab[e] /\ tab'[c] = tab[c]
      BY <1>7, <2>3, <1>a, <1>g, <1>t DEF Receive, Reply, Sent
    <3>. QED
      BY <3>1, <1>3
  <2>. QED
    BY <2>1, <2>2, <2>3
<1>8. ASSUME NEW d \in Tabs, SendInit(d) PROVE Follows(e, c)'
  <2>1. tab'[e].canvas = tab[e].canvas /\ tab'[c].canvas = tab[c].canvas /\ outbox' = outbox
    BY <1>8, <1>a, <1>g, <1>t DEF SendInit, TabType
  <2>2. CASE d # c
    BY <1>8, <2>1, <2>2, <1>3, <1>a, <1>t DEF SendInit
  <2>3. CASE d = c
    <3>1. inbox'[c] = Append(inbox[c], InitMessage(peers[c]))
      BY <1>8, <2>3, <1>t DEF SendInit
    <3>2. InitMessage(peers[c]) \in Messages /\ InitMessage(peers[c]).type # "change"
      BY <1>a, MessageTypes, Kinds
    <3>3. /\ Newest(inbox[c], tab[e].canvas) => Newest(inbox'[c], tab[e].canvas)
          /\ NoChange(inbox[c]) => NoChange(inbox'[c])
      BY <3>1, <3>2, <1>f, SentAfter
    <3>. QED
      BY <2>1, <3>3, <1>f DEF Follows, Newest, NoChange
  <2>. QED
    BY <2>2, <2>3
<1>9. ASSUME NEW d \in Tabs, Relay(d) PROVE Follows(e, c)'
  <2> DEFINE m == Head(outbox[d])
  <2>m. m \in Messages /\ outbox[d] # <<>> /\ outbox[d] \in Seq(Messages) /\ tab' = tab
    BY <1>9, <1>t DEF Relay
  <2>1. CASE d = e
    <3>1. outbox'[e] = Tail(outbox[e]) /\ inbox'[c] = Append(inbox[c], m)
      BY <1>9, <2>1, <1>a, <1>g, <1>t DEF Relay, PassedOn, MayRelay
    <3>2. /\ NoChange(outbox[e]) => NoChange(outbox'[e]) /\ m.type # "change"
          /\ Newest(outbox[e], tab[e].canvas) =>
               \/ Newest(outbox'[e], tab[e].canvas)
               \/ NoChange(outbox'[e]) /\ m.type = "change" /\ m.canvas = tab[e].canvas
      BY <2>1, <2>m, <3>1, TakenFirst
    <3>3. /\ m.type # "change" /\ NoChange(inbox[c]) => NoChange(inbox'[c])
          /\ m.type # "change" /\ Newest(inbox[c], tab[e].canvas) => Newest(inbox'[c], tab[e].canvas)
          /\ m.type = "change" /\ m.canvas = tab[e].canvas => Newest(inbox'[c], tab[e].canvas)
      BY <2>m, <3>1, <1>f, SentAfter
    <3>. QED
      BY <2>m, <3>2, <3>3, <1>f DEF Follows, Newest, NoChange
  <2>2. CASE d # e
    <3>1. outbox'[e] = outbox[e]
      BY <1>9, <2>2, <1>g, <1>t DEF Relay
    <3>2. CASE inbox'[c] = inbox[c]
      BY <2>m, <3>1, <3>2, <1>3
    <3>3. CASE inbox'[c] = Append(inbox[c], m) /\ MayRelay(d, m)
      <4>1. m.type # "change"
        BY <2>2, <3>3, <1>g DEF MayRelay
      <4>2. /\ Newest(inbox[c], tab[e].canvas) => Newest(inbox'[c], tab[e].canvas)
            /\ NoChange(inbox[c]) => NoChange(inbox'[c])
        BY <3>3, <4>1, <2>m, <1>f, SentAfter
      <4>. QED
        BY <2>m, <3>1, <4>2, <1>f DEF Follows, Newest, NoChange
    <3>. QED
      BY <1>9, <3>2, <3>3, <1>a DEF Relay, PassedOn
  <2>. QED
    BY <2>1, <2>2
<1>10. ASSUME NEW d \in Tabs, Disconnect(d) PROVE Follows(e, c)'
  <2>1. d # e /\ d # c
    BY <1>10, <1>a, <1>g, <1>t DEF Disconnect, Room, TabType
  <2>. QED
    BY <1>10, <2>1, <1>3, <1>a, <1>g, <1>t DEF Disconnect
<1>11. ASSUME NEW s \in saves, EndSave(s) PROVE Follows(e, c)'
  <2>1. tab'[e].canvas = tab[e].canvas /\ tab'[c].canvas = tab[c].canvas
    BY <1>11, <1>a, <1>g, <1>t DEF EndSave, Answered, TabType
  <2>. QED
    BY <1>11, <2>1, <1>3 DEF EndSave
<1>12. ASSUME NEW s \in saves, CheckSave(s) \/ CommitSave(s) \/ LoseSave(s)
       PROVE  Follows(e, c)'
  BY <1>12, <1>3 DEF CheckSave, CommitSave, LoseSave
<1>13. ASSUME NEW d \in Tabs, GetCanvas(d) PROVE Follows(e, c)'
  BY <1>13, <1>3 DEF GetCanvas
<1>14. ~CommitImport /\ ~AnnounceImport
  BY <1>i DEF CommitImport, AnnounceImport
<1>15. CASE UNCHANGED vars
  BY <1>15, <1>3 DEF vars
<1>. QED
  BY <1>2, <1>h, <1>i, <1>4, <1>5, <1>6, <1>7, <1>8, <1>9, <1>10, <1>11, <1>12, <1>13, <1>14,
     <1>15 DEF Next, Machinery, Importing

LEMMA SyncStep ==
  ASSUME Types, SyncInv, [Next]_vars
  PROVE  SyncInv'
<1>1. /\ \A c \in audience' : tab'[c].socket # "new"
      /\ ByHand' =>
           /\ import'.pc = "none"
           /\ \A c \in Tabs : request'[c].pc # "revert"
           /\ \A c \in audience' : request'[c].pc = "none"
  BY ReadyStep
<1>2. ASSUME ByHand', NEW e \in Tabs, editors' = {e} PROVE NoChange(inbox[e])'
  BY <1>2, ForGood, LoneStep DEF NoChange
<1>3. ASSUME ByHand', NEW e \in audience', NEW c \in audience', Leads(e)', c # e,
             {e, c} \subseteq Room'
      PROVE  Follows(e, c)'
  BY <1>3, FollowStep
<1>. QED
  BY <1>1, <1>2, <1>3 DEF SyncInv

\* A tab that had loaded and joined when the lone editor last edited shows what
\* the editor shows once nothing is under way between them: the editor's newest
\* change is the last change in its outbox, or in the other's inbox, or shown
\* (page.tsx and the relay in main.go).
THEOREM FollowersCatchUp == Spec => []FollowersInSync
<1>1. Types /\ SyncInv => FollowersInSync
  <2> SUFFICES ASSUME Types, SyncInv, NEW e \in audience, NEW c \in audience,
                      editors = {e}, author # <<>>, author[Len(author)] = e,
                      \A n \in DOMAIN author : author[n] \in Tabs,
                      {e, c} \subseteq Room, outbox[e] = <<>>, inbox[c] = <<>>
               PROVE  tab[c].canvas = tab[e].canvas
    BY DEF FollowersInSync
  <2>1. c # e => Follows(e, c)
    BY DEF SyncInv, ByHand, Leads
  <2>. QED
    BY <2>1 DEF Follows, Newest
<1>2. Spec => []Types
  BY TypesInit, TypesStep, PTL DEF Spec
<1>3. Types /\ SyncInv /\ [Next]_vars => SyncInv'
  BY SyncStep
<1>. QED
  BY <1>1, <1>2, <1>3, SyncInit, PTL DEF Spec
=============================================================================
