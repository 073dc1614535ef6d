-------------------------------- MODULE MCWeb --------------------------------
(* TLC instance of the web app's modules, one at a time: each behaviour is   *)
(* one of the component that part names.  The variables of the others rest   *)
(* in one of their initial states meanwhile.                                 *)
EXTENDS Workbench, PlaybookOrder, Connector, Tour, Links, Pages, Blueprint, TLC

VARIABLE part

\* A wide window and a narrow one, and a box taller than the window, a small one
\* at an edge and one that leaves no side free.
MCWindows == {[w |-> 1400, h |-> 900], [w |-> 750, h |-> 1334]}
MCBoxes   == {[top |-> -700, left |-> 0, width |-> 620, height |-> 1500],
              [top |-> 60, left |-> 500, width |-> 300, height |-> 60],
              [top |-> 100, left |-> 450, width |-> 900, height |-> 1400]}
MCHeights == {900}

webVars == <<part, vars, orderVars, wireVars, tourVars, linksVars, pagesVars, designVars>>

Parts == {"bench", "order", "wire", "tour", "links", "pages", "design"}

-----------------------------------------------------------------------------
\* The state a component rests in: one of its initial states.
Resting(component, state) == part # component => state

WebInit ==
  /\ part \in Parts
  /\ Resting("bench", nodes = {} /\ viewer = FALSE) /\ Init
  /\ Resting("order", wires = <<>>) /\ OrderInit
  /\ Resting("wire", edge = [stroke |-> "", customStroke |-> FALSE, width |-> 0, customWidth |-> FALSE,
                          animated |-> FALSE] /\ tech = CHOOSE t \in Techs : TRUE)
  /\ WireInit
  /\ Resting("tour", active = DashboardSteps(FALSE) /\ window = CHOOSE w \in Windows : TRUE) /\ TourInit
  /\ Resting("links", kind = "verify" /\ used = FALSE /\ verified = FALSE /\ who = "none") /\ LinksInit
  /\ Resting("pages", panel = LoginPage /\ server = [i \in Items |-> 0]) /\ PagesInit
  /\ DesignInit

BenchStep  == part = "bench" /\ Next
                /\ UNCHANGED <<part, orderVars, wireVars, tourVars, linksVars, pagesVars, designVars>>
OrderStep  == part = "order" /\ OrderNext
                /\ UNCHANGED <<part, vars, wireVars, tourVars, linksVars, pagesVars, designVars>>
WireStep   == part = "wire" /\ WireNext
                /\ UNCHANGED <<part, vars, orderVars, tourVars, linksVars, pagesVars, designVars>>
TourStep   == part = "tour" /\ TourNext
                /\ UNCHANGED <<part, vars, orderVars, wireVars, linksVars, pagesVars, designVars>>
LinksStep  == part = "links" /\ LinksNext
                /\ UNCHANGED <<part, vars, orderVars, wireVars, tourVars, pagesVars, designVars>>
PagesStep  == part = "pages" /\ PagesNext
                /\ UNCHANGED <<part, vars, orderVars, wireVars, tourVars, linksVars, designVars>>
DesignStep == part = "design" /\ DesignNext
                /\ UNCHANGED <<part, vars, orderVars, wireVars, tourVars, linksVars, pagesVars>>

WebNext ==
  \/ BenchStep \/ OrderStep \/ WireStep
  \/ TourStep \/ LinksStep \/ PagesStep \/ DesignStep

WebSpec == WebInit /\ [][WebNext]_webVars

Symmetry == Permutations(Ids)
=============================================================================
