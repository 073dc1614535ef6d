-------------------------------- MODULE Pages --------------------------------
(****************************************************************************)
(* The pages and dialogs of the web app other than the workspace, as one    *)
(* user works with them.  Each of them keeps a list of what the server has  *)
(* and loads it in an effect, raises a flag while a request is in flight    *)
(* and disables its buttons by it, and after a change either patches its    *)
(* list, loads it again, closes its dialog or goes to another page.  What   *)
(* differs from page to page is in the tables of PageTables; how React      *)
(* takes them through time is here.                                         *)
(*                                                                          *)
(* A request and what the server does with it are one step, when its answer *)
(* is handled: what an answer finds changed meanwhile is what matters here, *)
(* and what the server does with two requests at a time is in Team, Canvas  *)
(* and RunStream.                                                           *)
(****************************************************************************)
EXTENDS PageTables, Naturals, FiniteSets

CONSTANTS
  Panels,   \* the panels to look at, a subset of AllPanels
  Items,    \* what a list holds: projects, members, credentials...
  MaxCalls, \* bound: requests in flight
  MaxQuery  \* bound: times what a list depends on changes

ASSUME PagesAssumption ==
  /\ Panels \subseteq AllPanels
  /\ MaxCalls \in Nat \ {0} /\ MaxQuery \in Nat

VARIABLES
  panel,   \* the panel at hand
  here,    \* it is mounted
  dialogs, \* the dialogs that are open
  raised,  \* the flags that are up: <<flag, item>>
  calls,   \* requests in flight and timers: [id, job, item, live, query]
  server,  \* the version of each item on the server, 0 if there is none
  shown,   \* what the list shows: [query, items]
  query,   \* what the list depends on: a filter, an id of the address
  calm     \* history: no request ran into another one, and no answer was lost

pagesVars == <<panel, here, dialogs, raised, calls, server, shown, query, calm>>

AnyItem == "any"  \* the item of a flag that is one for its panel

Versions == 0..2

\* Flags that hold the item they are up for; of a slot there is one, so the item
\* it is raised for last replaces the one before.
Tag(flag, i) == <<flag, IF flag \in Slots \cup PerItem THEN i ELSE AnyItem>>
Up(flags, flag, i) ==
  IF flag = None THEN flags
  ELSE {Tag(flag, i)} \cup {r \in flags : flag \notin Slots \/ r[1] # flag}
Down(flags, flag, i) ==
  {r \in flags : r[1] # flag \/ (flag \in PerItem /\ r[2] # i)}

FreeIds == (1..MaxCalls) \ {c.id : c \in calls}
Room(n) == Cardinality(FreeIds) >= n
Call(job, i) == [id |-> CHOOSE n \in FreeIds : \A m \in FreeIds : n <= m,
                 job |-> job, item |-> i, live |-> TRUE, query |-> query]

\* The call, whose answer is dropped unless it is still heard.
Heard(c, still) ==
  [id |-> c.id, job |-> c.job, item |-> c.item, live |-> c.live /\ still, query |-> c.query]

\* The effect that loads the list, and loadAll, fetchData... called by a handler; one
\* that its handler awaits takes the handler's flag down too.
LoadJob(by, flag) ==
  [do |-> "load", op |-> "load", by |-> by, flag |-> flag, ok |-> {}, err |-> {},
   tells |-> None, after |-> {}, timer |-> FALSE]
Spins(by) == by \in panel.load.raises
Spin(flags, by) == IF Spins(by) THEN Up(flags, panel.load.flag, AnyItem) ELSE flags

\* The flags that go down when a request is answered.  A spinner that is up from
\* the start is taken down by the effect.
Lowers(c) ==
  {c.job.flag} \cup (IF c.job.op = "load" /\ (c.job.by = "effect" \/ Spins(c.job.by))
                    THEN {panel.load.flag} ELSE {})
DownAll(flags, c) == {r \in flags : \A f \in Lowers(c) : r \in Down(flags, f, c.item)}

PagesInit ==
  /\ panel \in Panels
  /\ here = TRUE /\ dialogs = {}
  /\ server \in [Items -> {0, 1}]
  /\ query = 0 /\ calm = TRUE
  /\ IF panel.load.loads
     THEN /\ shown = [query |-> 0, items |-> [i \in Items |-> 0]]
          /\ raised = Up({}, panel.load.flag, AnyItem)
          /\ calls = {[id |-> 1, job |-> LoadJob("effect", None), item |-> AnyItem,
                       live |-> TRUE, query |-> 0]}
     ELSE shown = [query |-> 0, items |-> server] /\ raised = {} /\ calls = {}
-----------------------------------------------------------------------------
(* What the user does. *)

FlagsAt(dialog) == {h.flag : h \in {g \in panel.handlers :
                      \E c \in panel.controls : c.do = g.do /\ c.at = dialog}}

\* A dialog that is rendered only while it is open loses its state with it, and
\* the requests it has sent no longer find it.
Folded(dialog, flags) ==
  IF dialog \in panel.unmounts THEN {r \in flags : r[1] \notin FlagsAt(dialog)} ELSE flags
Orphaned(dialog, cs) ==
  {Heard(c, ~(dialog \in panel.unmounts /\ c.job.flag \in FlagsAt(dialog))) : c \in cs}

OpenDialog(dialog) ==
  /\ here /\ dialog \notin dialogs
  /\ dialogs' = dialogs \cup {dialog}
  /\ UNCHANGED <<panel, here, raised, calls, server, shown, query, calm>>

CloseDialog(dialog) ==
  /\ here /\ dialog \in dialogs
  /\ dialog \in panel.holds => \A r \in raised : r[1] \notin FlagsAt(dialog)
  /\ dialogs' = dialogs \ {dialog}
  /\ IF dialog \in panel.refreshes
     THEN /\ Room(1)
          /\ raised' = Spin(Folded(dialog, raised), "reload")
          /\ calls' = Orphaned(dialog, calls) \cup {Call(LoadJob("reload", None), AnyItem)}
          /\ calm' = (calm /\ calls = {})
     ELSE /\ raised' = Folded(dialog, raised) /\ calls' = Orphaned(dialog, calls)
          /\ UNCHANGED calm
  /\ UNCHANGED <<panel, here, server, shown, query>>

\* Items a control is there for: a list offers to change what it shows, a form
\* adds what is not on the server.
Offers(op) ==
  CASE op = "add" -> {i \in Items : server[i] = 0}
    [] op \in {"change", "remove"} -> {i \in Items : shown.items[i] # 0}
    [] OTHER -> Items

\* A button or a form: it is disabled while one of its flags is up for its item.
PressButton(control, handler, i) ==
  /\ here /\ control.do = handler.do
  /\ control.at \in dialogs \cup {"page"}
  /\ i \in Offers(handler.op)
  /\ \A f \in control.guard : Tag(f, i) \notin raised
  /\ Room(1)
  /\ raised' = Up(raised, handler.flag, i)
  /\ calls' = calls \cup {Call(handler, i)}
  /\ calm' = (calm /\ calls = {})
  /\ UNCHANGED <<panel, here, dialogs, server, shown, query>>

\* Mutant: a superseded load is not cancelled.
M_Superseded(cs) == cs

\* A load whose effect runs again is cancelled, where the page does so, and its
\* answer is dropped: "a superseded request is actually cancelled instead of racing
\* a newer one and overwriting state with stale data".
Superseded(cs) ==
  {Heard(c, ~(panel.load.cancels /\ c.job.op = "load" /\ c.job.by = "effect")) : c \in cs}

\* What the effect depends on changes: a filter, an id, the user, a refresh key.
Rerun ==
  /\ here /\ panel.load.reruns
  /\ query < MaxQuery /\ query' = query + 1
  /\ Room(1)
  /\ calls' = Superseded(calls) \cup {[Call(LoadJob("effect", None), AnyItem) EXCEPT !.query = query']}
  /\ raised' = Spin(raised, "effect")
  /\ calm' = (calm /\ \A c \in calls : c.job.by = "effect" /\ panel.load.cancels /\ ~panel.load.late)
  /\ UNCHANGED <<panel, here, dialogs, server, shown>>

GoAway ==
  /\ here /\ here' = FALSE
  /\ dialogs' = {} /\ raised' = {} /\ calls' = {}
  /\ UNCHANGED <<panel, server, shown, query, calm>>
-----------------------------------------------------------------------------
(* The answers. *)

\* What the server has after it did what was asked of it.
Done(job, i) ==
  CASE job.op = "add"    -> [server EXCEPT ![i] = 1]
    [] job.op = "change" -> [server EXCEPT ![i] = 3 - @]
    [] job.op = "remove" -> [server EXCEPT ![i] = 0]
    [] OTHER             -> server
Possible(job, i) ==
  /\ job.op = "add" => server[i] = 0
  /\ job.op \in {"change", "remove"} => server[i] # 0

\* The load a handler starts, and the timer it sets, once c is answered.  The load
\* is the one the handler saw when it was called.
Then(c, job) == [id |-> c.id, job |-> job, item |-> c.item, live |-> TRUE, query |-> c.query]
Follow(c, effects) ==
  (IF "timer" \in effects THEN {Then(c, TimerJob(c.job))} ELSE {})
    \cup (IF "reload" \in effects THEN {Then(c, LoadJob("reload", None))} ELSE {})
    \cup (IF "await" \in effects THEN {Then(c, LoadJob("reload", c.job.flag))} ELSE {})
    \cup (IF "rerun" \in effects
          THEN {[Then(c, LoadJob("effect", None)) EXCEPT !.query = query]} ELSE {})

\* What a handler does with an answer, all of it in one step: the dialog it closes
\* is the one that is open now.
Handle(c, effects) ==
  LET dialog  == (CHOOSE k \in panel.controls : k.do = c.job.do).at
      closing == "close" \in effects
      others  == IF "rerun" \in effects THEN Superseded(calls \ {c}) ELSE calls \ {c}
      lowered == IF "lower" \in effects /\ c.live THEN DownAll(raised, c) ELSE raised
      kept    == IF "forget" \in effects THEN {r \in lowered : r[1] \notin PerItem \/ r[2] # c.item}
                 ELSE lowered
      told    == IF "timer" \in effects THEN Up(kept, c.job.tells, c.item) ELSE kept
      spun    == IF effects \cap {"reload", "await"} # {} THEN Spin(told, "reload")
                 ELSE IF "rerun" \in effects THEN Spin(told, "effect") ELSE told
  IN IF "leave" \in effects
     THEN here' = FALSE /\ dialogs' = {} /\ raised' = {} /\ calls' = {}
     ELSE /\ dialogs' = IF closing THEN dialogs \ {dialog} ELSE dialogs
          /\ raised'  = IF closing THEN Folded(dialog, spun) ELSE spun
          /\ calls'   = (IF closing THEN Orphaned(dialog, others) ELSE others)
                         \cup Follow(c, effects)
          /\ UNCHANGED here

\* It was done.
Succeeds(c) ==
  /\ here /\ c.job.op # "load" /\ Possible(c.job, c.item)
  /\ server' = Done(c.job, c.item)
  /\ Handle(c, c.job.ok)
  /\ shown' = IF "patch" \in c.job.ok
              THEN [shown EXCEPT !.items[c.item] = server'[c.item]] ELSE shown
  /\ UNCHANGED <<panel, query, calm>>

\* It was refused.
Fails(c) ==
  /\ here /\ c.job.op # "load" /\ ~c.job.timer
  /\ Handle(c, c.job.err)
  /\ UNCHANGED <<panel, server, shown, query, calm>>

\* It was done, and the answer is lost; or the first of its two requests was done.
AnswerLost(c) ==
  /\ here /\ c.job.op # "load" /\ ~c.job.timer /\ Possible(c.job, c.item)
  /\ server' = Done(c.job, c.item)
  /\ Handle(c, c.job.err)
  /\ calm' = FALSE
  /\ UNCHANGED <<panel, shown, query>>

Loaded(c) ==
  /\ here /\ c.job.op = "load"
  /\ calls' = calls \ {c}
  /\ raised' = IF c.live THEN DownAll(raised, c) ELSE raised
  /\ shown' = IF c.live \/ panel.load.late THEN [query |-> c.query, items |-> server] ELSE shown
  /\ UNCHANGED <<panel, here, dialogs, server, query, calm>>

LoadFails(c) ==
  /\ here /\ c.job.op = "load"
  /\ calls' = calls \ {c}
  /\ raised' = IF c.live THEN DownAll(raised, c) ELSE raised
  /\ calm' = (calm /\ ~c.live)
  /\ UNCHANGED <<panel, here, dialogs, server, shown, query>>
-----------------------------------------------------------------------------
PagesNext ==
  \/ \E k \in panel.controls, h \in panel.handlers, i \in Items : PressButton(k, h, i)
  \/ \E k \in panel.controls : k.at # "page" /\ OpenDialog(k.at)
  \/ \E k \in panel.controls : k.at # "page" /\ CloseDialog(k.at)
  \/ Rerun
  \/ GoAway
  \/ \E c \in calls : Succeeds(c)
  \/ \E c \in calls : Fails(c)
  \/ \E c \in calls : AnswerLost(c)
  \/ \E c \in calls : Loaded(c)
  \/ \E c \in calls : LoadFails(c)

PagesSpec == PagesInit /\ [][PagesNext]_pagesVars
-----------------------------------------------------------------------------
(* Properties. *)

\* What may be in flight: what a handler asks for, its timer, and the loads.
Jobs ==
  panel.handlers \cup {TimerJob(h) : h \in panel.handlers}
    \cup {LoadJob("effect", None), LoadJob("reload", None)}
    \cup {LoadJob("reload", h.flag) : h \in {g \in panel.handlers : "await" \in g.ok}}

PagesTypeOK ==
  /\ panel \in Panels /\ {here, calm} \subseteq BOOLEAN
  /\ dialogs \subseteq {k.at : k \in panel.controls}
  /\ \A r \in raised : r[2] \in Items \cup {AnyItem}
  /\ calls \subseteq [id : 1..MaxCalls, job : Jobs, item : Items \cup {AnyItem}, live : BOOLEAN,
                     query : 0..MaxQuery]
  /\ server \in [Items -> Versions]
  /\ shown \in [query : 0..MaxQuery, items : [Items -> Versions]]
  /\ query \in 0..MaxQuery

\* A button or a spinner that is up has a request in flight, of the same dialog,
\* whose answer takes it down whatever it is: no order of clicks, failures, closed
\* dialogs and loads that run again leaves a page that waits for nothing.
ButtonsComeBack ==
  \A r \in raised : \E c \in calls :
    c.live /\ r[1] \in Lowers(c) /\ (r[1] \in PerItem => r[2] = c.item)

\* A user who waits for each answer sees what the server has: every handler
\* brings its list up to date or leaves the page, and a load that was superseded
\* by a newer one does not write over it.
ListsAgree ==
  here /\ calm /\ calls = {} => shown = [query |-> query, items |-> server]
=============================================================================
