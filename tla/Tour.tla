-------------------------------- MODULE Tour --------------------------------
(****************************************************************************)
(* The guided tour of a page: ProductTour of                                *)
(* src/apps/web/app/components/ProductTour.tsx, which goes through a list   *)
(* of steps, and lib/tourPlacement.ts, which puts its card next to what a   *)
(* step shows.                                                              *)
(*                                                                          *)
(* Lengths are in half pixels: the page rounds what it measures to whole    *)
(* ones, so a half of a length is exact.  The page is its window and the    *)
(* boxes of the elements the steps are about; the tour places its card by   *)
(* what it measured last (seen), which may be behind.                       *)
(****************************************************************************)
EXTENDS Integers, Sequences

CONSTANTS
  Windows,   \* sizes of the window: [w, h]
  Boxes,     \* boxes an element may have: [top, left, width, height]
  Heights    \* heights of the card

ASSUME TourAssumption ==
  /\ Windows \subseteq [w : Nat, h : Nat]
  /\ Boxes \subseteq [top : Int, left : Int, width : Nat, height : Nat]
  /\ Heights \subseteq Nat

VARIABLES
  active,   \* the steps whose targets were there when the tour began
  index,    \* nav.index
  leaving,  \* how the tour is about to end: "no", "finished" or "skipped"
  outcome,  \* what onClose was told, "none" before
  done,     \* the tasks that are done
  window,   \* the size of the window
  box,      \* where the step's target is now; NoBox if it has none or it is gone
  seen      \* vp, frame.box and popSize.h, as last measured: [vp, box, height]

tourVars == <<active, index, leaving, outcome, done, window, box, seen>>

NoBox == [top |-> 0, left |-> 0, width |-> -1, height |-> -1]

TOUR_GAP         == 28
TOUR_MARGIN      == 32
TOUR_PAD         == 12
TOUR_SHEET_BELOW == 1280
CARD_WIDTH       == 720

Lower(a, b)  == IF a < b THEN a ELSE b
Higher(a, b) == IF a > b THEN a ELSE b
clamp(value, min, max) == Lower(Higher(value, min), Higher(min, max))
-----------------------------------------------------------------------------
(* Where the card goes. *)

ORDER == [right  |-> <<"right", "bottom", "left", "top">>,
          bottom |-> <<"bottom", "top", "right", "left">>,
          left   |-> <<"left", "bottom", "right", "top">>,
          top    |-> <<"top", "bottom", "right", "left">>]

MaxLeft(pop, vp) == vp.w - pop.w - TOUR_MARGIN
MaxTop(pop, vp)  == vp.h - pop.h - TOUR_MARGIN
CentreX(target)  == target.left + target.width \div 2
CentreY(target)  == target.top + target.height \div 2

\* The corner of a card beside the target on a side, clamped along it.
Beside(side, target, pop, vp) ==
  LET alongX == clamp(CentreX(target) - pop.w \div 2, TOUR_MARGIN, MaxLeft(pop, vp))
      alongY == clamp(CentreY(target) - pop.h \div 2, TOUR_MARGIN, MaxTop(pop, vp))
  IN CASE side = "right"  -> [top |-> alongY, left |-> target.left + target.width + TOUR_GAP]
       [] side = "left"   -> [top |-> alongY, left |-> target.left - TOUR_GAP - pop.w]
       [] side = "bottom" -> [top |-> target.top + target.height + TOUR_GAP, left |-> alongX]
       [] side = "top"    -> [top |-> target.top - TOUR_GAP - pop.h, left |-> alongX]

\* Mutant: the room at the far edge is measured without the margin.
M_HasRoom(side, target, pop, vp) ==
  LET at == Beside(side, target, pop, vp) IN
  CASE side = "right"  -> at.left <= vp.w - pop.w
    [] side = "left"   -> at.left >= TOUR_MARGIN
    [] side = "bottom" -> at.top <= vp.h - pop.h
    [] side = "top"    -> at.top >= TOUR_MARGIN

HasRoom(side, target, pop, vp) ==
  LET at == Beside(side, target, pop, vp) IN
  CASE side = "right"  -> at.left <= MaxLeft(pop, vp)
    [] side = "left"   -> at.left >= TOUR_MARGIN
    [] side = "bottom" -> at.top <= MaxTop(pop, vp)
    [] side = "top"    -> at.top >= TOUR_MARGIN

\* A step without a target.
Centred(pop, vp) ==
  [top       |-> clamp((vp.h - pop.h) \div 2, TOUR_MARGIN, MaxTop(pop, vp)),
   left      |-> clamp((vp.w - pop.w) \div 2, TOUR_MARGIN, MaxLeft(pop, vp)),
   placement |-> "center"]

\* A narrow window: the edge that the target is not at.
Docked(target, pop, vp) ==
  [top       |-> IF 2 * CentreY(target) > vp.h THEN TOUR_MARGIN
                 ELSE Higher(TOUR_MARGIN, MaxTop(pop, vp)),
   left      |-> clamp((vp.w - pop.w) \div 2, TOUR_MARGIN, MaxLeft(pop, vp)),
   placement |-> "sheet"]

\* Nothing fits beside the target.
Over(target, pop, vp) ==
  [top       |-> Higher(TOUR_MARGIN, MaxTop(pop, vp)),
   left      |-> clamp(CentreX(target) - pop.w \div 2, TOUR_MARGIN, MaxLeft(pop, vp)),
   placement |-> "overlap"]

\* The card at the first side of an order that has room for it.
OnSide(side, target, pop, vp) ==
  LET at == Beside(side, target, pop, vp)
  IN [top |-> at.top, left |-> at.left, placement |-> side]

FirstSide(sides, target, pop, vp) ==
  CASE HasRoom(sides[1], target, pop, vp) -> OnSide(sides[1], target, pop, vp)
    [] ~HasRoom(sides[1], target, pop, vp) /\ HasRoom(sides[2], target, pop, vp)
         -> OnSide(sides[2], target, pop, vp)
    [] /\ \A i \in 1..2 : ~HasRoom(sides[i], target, pop, vp)
       /\ HasRoom(sides[3], target, pop, vp) -> OnSide(sides[3], target, pop, vp)
    [] /\ \A i \in 1..3 : ~HasRoom(sides[i], target, pop, vp)
       /\ HasRoom(sides[4], target, pop, vp) -> OnSide(sides[4], target, pop, vp)
    [] OTHER -> Over(target, pop, vp)

placePopover(target, pop, vp, preferred) ==
  IF target = NoBox THEN Centred(pop, vp)
  ELSE IF vp.w < TOUR_SHEET_BELOW THEN Docked(target, pop, vp)
  ELSE FirstSide(ORDER[preferred], target, pop, vp)

\* The highlight frames a target with some room around it.
Frame(b) == [top |-> b.top - TOUR_PAD, left |-> b.left - TOUR_PAD,
             width |-> b.width + 2 * TOUR_PAD, height |-> b.height + 2 * TOUR_PAD]

CardSize == [w |-> Lower(CARD_WIDTH, seen.vp.w - 2 * TOUR_MARGIN), h |-> seen.height]
-----------------------------------------------------------------------------
(* The lists of steps: what each shows, on which side, and its task. *)

\* The elements with a data-tour; a step may be about none of them.
Landmarks ==
  {"", "workarea", "library", "canvas", "sandbox", "inspector", "views", "project-tools", "actions",
   "console", "help", "nav", "team", "search", "new-project", "checklist", "stats", "projects",
   "runs", "tools"}

Step(target, placement, task) == [target |-> target, placement |-> placement, task |-> task]

\* On an empty canvas the workspace tour asks the user to build something.
WorkspaceSteps(interactive) ==
  <<Step("", "bottom", FALSE),
    IF interactive THEN Step("workarea", "bottom", TRUE) ELSE Step("library", "right", FALSE),
    Step("canvas", "bottom", interactive),
    Step("sandbox", "bottom", FALSE), Step("inspector", "left", FALSE),
    Step("views", "bottom", FALSE), Step("project-tools", "bottom", FALSE),
    Step("actions", "bottom", FALSE), Step("console", "top", FALSE), Step("help", "bottom", FALSE)>>

\* The checklist is on the page only until it is dismissed.
DashboardSteps(checklist) ==
  <<Step("", "bottom", FALSE), Step("nav", "right", FALSE), Step("team", "bottom", FALSE),
    Step("search", "bottom", FALSE), Step("new-project", "bottom", FALSE)>>
  \o (IF checklist THEN <<Step("checklist", "bottom", FALSE)>> ELSE <<>>)
  \o <<Step("stats", "bottom", FALSE), Step("projects", "bottom", FALSE),
       Step("runs", "top", FALSE), Step("tools", "bottom", FALSE)>>

last == Len(active)
step == active[index]

\* Where a step's target is: scrolled into the window, some of it shows.
InView(b, vp) == b.top < vp.h /\ b.left < vp.w /\ b.top + b.height > 0 /\ b.left + b.width > 0

Places(s, vp) == IF s.target = "" THEN {NoBox} ELSE {b \in Boxes : InView(b, vp)}

TourInit ==
  /\ active \in {WorkspaceSteps(TRUE), WorkspaceSteps(FALSE), DashboardSteps(TRUE), DashboardSteps(FALSE)}
  /\ index = 1
  /\ leaving = "no"
  /\ outcome = "none"
  /\ done = {}
  /\ window \in Windows
  /\ box = NoBox
  /\ seen = [vp |-> window, box |-> NoBox, height |-> 460]
-----------------------------------------------------------------------------
(* The tour's steps. *)

Open == outcome = "none"

\* requestClose: the first of several counts.
requestClose(how) ==
  /\ leaving' = IF leaving = "no" THEN how ELSE leaving
  /\ UNCHANGED <<index, box>>

\* go: another step begins with its target scrolled into view.
go(delta) ==
  IF index + delta > last THEN requestClose("finished")
  ELSE IF index + delta < 1 THEN UNCHANGED <<index, box, leaving>>
  ELSE /\ index' = index + delta
       /\ box' \in Places(active[index'], window)
       /\ UNCHANGED leaving

Press(delta) == Open /\ go(delta) /\ UNCHANGED <<active, outcome, done, window, seen>>

\* An arrow key is the page's own during a task, unless the card has the focus.
PressArrow(delta, onCard) ==
  /\ step.task => onCard
  /\ Press(delta)

Skip == Open /\ requestClose("skipped") /\ UNCHANGED <<active, outcome, done, window, seen>>

\* The page reports that the user has done what the step asked for.
TaskDone ==
  /\ Open /\ step.task /\ index \notin done
  /\ done' = done \cup {index}
  /\ UNCHANGED <<active, index, leaving, outcome, window, box, seen>>

\* publish: in the frame after a step began, and whenever follow finds that the
\* target is not where it was; a change of the window alone goes unnoticed.
Measure ==
  /\ Open
  /\ seen' = [seen EXCEPT !.vp = window, !.box = box]
  /\ UNCHANGED <<active, index, leaving, outcome, done, window, box>>

\* The observer of the card's size.
CardResized(h) ==
  /\ Open
  /\ seen' = [seen EXCEPT !.height = h]
  /\ UNCHANGED <<active, index, leaving, outcome, done, window, box>>

\* The page moves under the tour: it is resized, scrolls or shifts.
PageMoves ==
  /\ Open
  /\ window' \in Windows
  /\ box' \in Places(step, window')
  /\ UNCHANGED <<active, index, leaving, outcome, done, seen>>

FadedOut ==
  /\ Open /\ leaving # "no"
  /\ outcome' = leaving
  /\ UNCHANGED <<active, index, leaving, done, window, box, seen>>

TourNext ==
  \/ \E delta \in {1, -1} : Press(delta) \/ \E onCard \in BOOLEAN : PressArrow(delta, onCard)
  \/ Skip
  \/ TaskDone
  \/ Measure
  \/ \E h \in Heights : CardResized(h)
  \/ PageMoves
  \/ FadedOut

TourSpec == TourInit /\ [][TourNext]_tourVars
-----------------------------------------------------------------------------
(* Properties. *)

TourTypeOK ==
  /\ active \in Seq([target : Landmarks, placement : DOMAIN ORDER, task : BOOLEAN])
  /\ index \in 1..last
  /\ leaving \in {"no", "finished", "skipped"} /\ outcome \in {"none", leaving}
  /\ done \subseteq 1..last
  /\ window \in Windows
  /\ box \in Boxes \cup {NoBox}
  /\ seen \in [vp : Windows, box : Boxes \cup {NoBox}, height : Heights \cup {460}]

Card == placePopover(IF seen.box = NoBox THEN NoBox ELSE Frame(seen.box), CardSize, seen.vp,
                     step.placement)

\* Whether two boxes share a point.
Meet(a, b) ==
  /\ a.left < b.left + b.width /\ b.left < a.left + a.width
  /\ a.top < b.top + b.height /\ b.top < a.top + a.height

\* "A target near a viewport edge flips the card to the side that has room rather
\* than clipping it": the card keeps its margin to every edge of the window that
\* was measured, unless it is taller than the window, and covers the target only
\* where the window is narrow or no side has room.
CardIsPlaced ==
  /\ TOUR_MARGIN <= Card.left /\ Card.left <= MaxLeft(CardSize, seen.vp)
  /\ MaxTop(CardSize, seen.vp) >= TOUR_MARGIN =>
       TOUR_MARGIN <= Card.top /\ Card.top <= MaxTop(CardSize, seen.vp)
  /\ seen.box # NoBox /\ Card.placement \notin {"sheet", "overlap"} =>
       ~Meet([top |-> Card.top, left |-> Card.left, width |-> CardSize.w, height |-> CardSize.h],
             Frame(seen.box))
=============================================================================
