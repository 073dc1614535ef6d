------------------------------ MODULE Connector ------------------------------
(****************************************************************************)
(* One connection of the canvas, and what the inspector makes of it: its    *)
(* colour and width are not stored but follow from the node it points at    *)
(* (src/apps/web/app/components/canvas/BlueprintEdge.tsx) unless the user   *)
(* overrides them, and connections saved by older versions carry colours    *)
(* that are no overrides (src/apps/web/app/lib/canvasDesign.ts).            *)
(*                                                                          *)
(* The inspector sends all four fields on each change of one                *)
(* (EdgeInspector.tsx), and updateEdgeData of store/useCanvasStore.ts works *)
(* out which of them the user has set.                                      *)
(****************************************************************************)
EXTENDS Naturals

CONSTANTS
  Legacy,    \* colours older versions gave by themselves; swatches may be among them
  Swatches,  \* the colours the inspector offers
  Widths,    \* the widths its slider offers, in half pixels
  Techs      \* what the node a connection points at may be

VARIABLES
  edge,    \* [stroke, customStroke, width, customWidth, animated]
  tech,    \* of the node it points at
  picked   \* history: what the user chose since: [stroke, width], "" and 0 for nothing

wireVars == <<edge, tech, picked>>

DEFAULT_EDGE_WIDTH == 3

\* edgeCustomStroke: "" where the colour is not the user's.
CustomStroke(e) ==
  IF e.stroke # "" /\ (e.customStroke \/ e.stroke \notin Legacy) THEN e.stroke ELSE ""

\* edgeStrokeWidth
StrokeWidth(e) == IF e.customWidth /\ e.width # 0 THEN e.width ELSE DEFAULT_EDGE_WIDTH

\* What BlueprintEdge draws.
Drawn(e) == [colour |-> IF CustomStroke(e) # "" THEN CustomStroke(e) ELSE tech,
             width  |-> StrokeWidth(e)]

\* A connection as it is drawn first, and as older versions have saved it: a colour
\* they did not give by themselves was the user's.
WireInit ==
  /\ edge \in [stroke : {""} \cup Legacy \cup Swatches, customStroke : {FALSE}, width : {0} \cup Widths,
               customWidth : {FALSE}, animated : BOOLEAN]
  /\ tech \in Techs
  /\ picked = [stroke |-> IF edge.stroke \in Legacy THEN "" ELSE edge.stroke, width |-> 0]

\* Mutant: the colour is stored, and not that the user chose it.
M_UpdateEdgeData(e, animated, stroke, width) ==
  [e EXCEPT !.animated = animated, !.stroke = IF stroke # CustomStroke(e) THEN stroke ELSE @,
            !.width = IF width # StrokeWidth(e) THEN width ELSE @,
            !.customWidth = @ \/ width # StrokeWidth(e)]

\* updateEdgeData: only what differs from what is shown is an override; "" clears it.
UpdateEdgeData(e, animated, stroke, width) ==
  LET cleared == stroke = "" /\ CustomStroke(e) # ""
      coloured == ~cleared /\ stroke # CustomStroke(e)
      widened == width # StrokeWidth(e)
  IN [stroke       |-> IF cleared THEN "" ELSE IF coloured THEN stroke ELSE e.stroke,
      customStroke |-> IF cleared THEN FALSE ELSE e.customStroke \/ coloured,
      width        |-> IF widened THEN width ELSE e.width,
      customWidth  |-> e.customWidth \/ widened,
      animated     |-> animated]

\* The inspector's update(next): the fields that did not change go along as shown.
Send(animated, stroke, width) == edge' = UpdateEdgeData(edge, animated, stroke, width)

\* The label is abstract: typing one sends the rest unchanged, as the dash toggle does.
Retype     == Send(edge.animated, CustomStroke(edge), StrokeWidth(edge)) /\ UNCHANGED <<tech, picked>>
ToggleDash == Send(~edge.animated, CustomStroke(edge), StrokeWidth(edge)) /\ UNCHANGED <<tech, picked>>

Slide(w) ==
  /\ w # StrokeWidth(edge)
  /\ Send(edge.animated, CustomStroke(edge), w)
  /\ picked' = [picked EXCEPT !.width = w]
  /\ UNCHANGED tech

\* A swatch, or "" for Auto.
Pick(c) ==
  /\ Send(edge.animated, c, StrokeWidth(edge))
  /\ picked' = [picked EXCEPT !.stroke = c]
  /\ UNCHANGED tech

\* Another theme, or another kind of node at its end.
Retarget(t) == tech' = t /\ UNCHANGED <<edge, picked>>

WireNext ==
  \/ Retype \/ ToggleDash
  \/ \E w \in Widths : Slide(w)
  \/ \E c \in Swatches \cup {""} : Pick(c)
  \/ \E t \in Techs : Retarget(t)

WireSpec == WireInit /\ [][WireNext]_wireVars
-----------------------------------------------------------------------------
(* Properties. *)

Colours == Legacy \cup Swatches \cup {""}

WireTypeOK ==
  /\ edge \in [stroke : Colours, customStroke : BOOLEAN, width : {0} \cup Widths,
               customWidth : BOOLEAN, animated : BOOLEAN]
  /\ tech \in Techs
  /\ picked \in [stroke : Swatches \cup {""}, width : {0} \cup Widths]

\* What is drawn is what the user chose, and follows the node and the theme where
\* nothing was chosen, whatever colours the connection was saved with: "so existing
\* projects pick up the current theme; an explicit inspector override still wins".
DrawnAsChosen ==
  Drawn(edge) = [colour |-> IF picked.stroke # "" THEN picked.stroke ELSE tech,
                 width  |-> IF picked.width # 0 THEN picked.width ELSE DEFAULT_EDGE_WIDTH]
=============================================================================
