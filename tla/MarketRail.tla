----------------------------- MODULE MarketRail -----------------------------
(***************************************************************************)
(* The carousel of the market page (web/app/market/page.tsx): a rail of    *)
(* cards that drifts by itself, gives way to the person, can be dragged,   *)
(* and must not take the end of a drag for a click on Buy.                 *)
(*                                                                         *)
(* The animation and the wheel listener live in effects that hold on to    *)
(* the element they found; the element comes and goes with loading, with   *)
(* the view and with the cards, and the effects run again when the view or *)
(* the number of cards has changed.  The refs outlive the element.         *)
(*                                                                         *)
(* Positions are counted in steps of a frame; gestures, the switches of    *)
(* the page included, are bounded by MaxGestures.                          *)
(***************************************************************************)
EXTENDS Integers

CONSTANTS
  Lengths,     \* numbers of cards tried
  Extent,      \* how far the rail scrolls when its cards do not fit
  Fits,        \* how many cards fit on the screen
  MaxGestures  \* bound on the gestures

ASSUME RailAssumption ==
  /\ Lengths \subseteq Nat /\ Extent \in Nat \ {0} /\ Fits \in Nat /\ MaxGestures \in Nat

VARIABLES
  viewMode, loading, length,  \* what decides whether there is a rail
  attached,   \* what the effects hold: the rail, an element that is gone, or nothing
  scrollLeft, \* of the rail
  rail,       \* state of the arrows: overflow, atStart, atEnd
  dir, paused, hovered, dragging, dragged, visible,  \* the refs
  over,       \* the pointer is over the rail
  panned,     \* the rail has followed the pointer since it was pressed
  clicking,   \* the pointer was released over the rail: a click follows
  gestures

pageVars == <<viewMode, loading, length>>
refVars == <<dir, paused, hovered, dragging, dragged, visible>>
pointerVars == <<over, panned, clicking>>
railVars == <<pageVars, attached, scrollLeft, rail, refVars, pointerVars, gestures>>

Shows(view, busy, n) == view = "CAROUSEL" /\ ~busy /\ n > 0
RailShown == Shows(viewMode, loading, length)

Max == IF length > Fits THEN Extent ELSE 0

Arrows(overflow, start, end) == [overflow |-> overflow, atStart |-> start, atEnd |-> end]

RailInit ==
  /\ viewMode = "CAROUSEL" /\ loading = TRUE /\ length = 0
  /\ attached = "nothing" /\ scrollLeft = 0
  /\ rail = Arrows(FALSE, TRUE, FALSE)
  /\ dir = 1 /\ paused = FALSE /\ hovered = FALSE /\ dragging = FALSE
  /\ dragged = FALSE /\ visible = TRUE
  /\ over = FALSE /\ panned = FALSE /\ clicking = FALSE
  /\ gestures = 0

Gesture == gestures < MaxGestures /\ gestures' = gestures + 1

-----------------------------------------------------------------------------
(* Rendering.                                                              *)

(* What the page shows changes.  A rail that goes takes no ref along, and the pointer is
   over it no more without an event saying so; a new rail starts at its left end. *)
Renders(view, busy, n) ==
  LET shows == Shows(view, busy, n)
      rerun == view # viewMode \/ n # length
  IN  /\ viewMode' = view /\ loading' = busy /\ length' = n
      /\ attached' = CASE rerun -> IF shows THEN "rail" ELSE "nothing"
                       [] ~rerun /\ attached = "rail" /\ ~shows -> "gone"
                       [] OTHER -> attached
      /\ scrollLeft' = IF shows /\ RailShown /\ n > Fits THEN scrollLeft ELSE 0
      /\ over' = (over /\ shows) /\ clicking' = (clicking /\ shows)
      /\ UNCHANGED <<rail, refVars, panned>>

(* loadData, when the page opens and after a purchase: the rail gives way to a spinner. *)
LoadStarts == ~loading /\ Gesture /\ Renders(viewMode, TRUE, length)

(* The passes arrive, or the read fails and those of before are kept. *)
LoadEnds ==
  /\ loading
  /\ \E n \in Lengths \cup {length} : Renders(viewMode, FALSE, n)
  /\ UNCHANGED gestures

(* The search and the filters, or a listing that expires. *)
CardsChange == ~loading /\ Gesture /\ \E n \in Lengths \ {length} : Renders(viewMode, loading, n)

SwitchView ==
  Gesture /\ \E view \in {"CAROUSEL", "TABLE"} \ {viewMode} : Renders(view, loading, length)

(* syncRail, within a frame. *)
SyncRail ==
  rail' = IF attached = "rail"
          THEN Arrows(Max > 0, scrollLeft = 0, scrollLeft = Max)
          ELSE Arrows(FALSE, TRUE, TRUE)

(* Nothing to drift through, or the person is busy with it. *)
Yields == attached # "rail" \/ Max = 0 \/ ~visible \/ hovered \/ dragging \/ paused

(* Mutant: at the end the rail waits, and tries to go on. *)
FrameOneWay ==
  LET next == scrollLeft + dir
  IN  /\ attached # "nothing"
      /\ SyncRail
      /\ \/ Yields /\ UNCHANGED <<scrollLeft, dir, paused>>
         \/ /\ ~Yields
            /\ scrollLeft' = IF next >= Max THEN Max ELSE IF next <= 0 THEN 0 ELSE next
            /\ dir' = dir
            /\ paused' = (next >= Max \/ next <= 0)
      /\ UNCHANGED <<pageVars, attached, hovered, dragging, dragged, visible,
                     pointerVars, gestures>>

(* One animation frame: the rail moves on, and turns back at either end after a beat. *)
Frame ==
  LET next == scrollLeft + dir
  IN  /\ attached # "nothing"
      /\ SyncRail
      /\ \/ Yields /\ UNCHANGED <<scrollLeft, dir, paused>>
         \/ /\ ~Yields
            /\ scrollLeft' = IF next >= Max THEN Max ELSE IF next <= 0 THEN 0 ELSE next
            /\ dir' = IF next >= Max THEN -1 ELSE IF next <= 0 THEN 1 ELSE dir
            /\ paused' = (next >= Max \/ next <= 0)
      /\ UNCHANGED <<pageVars, attached, hovered, dragging, dragged, visible,
                     pointerVars, gestures>>

PauseEnds ==
  /\ paused /\ paused' = FALSE
  /\ UNCHANGED <<pageVars, attached, scrollLeft, rail, dir, hovered, dragging, dragged,
                 visible, pointerVars, gestures>>

-----------------------------------------------------------------------------
(* The person.                                                             *)

Within(p) == IF p < 0 THEN 0 ELSE IF p > Max THEN Max ELSE p

(* An arrow, or an arrow key on the rail, which does not ask whether it can scroll. *)
ScrollGallery(d) ==
  /\ RailShown /\ Gesture
  /\ dir' = d /\ paused' = TRUE
  /\ scrollLeft' = Within(scrollLeft + 2 * d)
  /\ UNCHANGED <<pageVars, attached, rail, hovered, dragging, dragged, visible,
                 pointerVars>>

(* The wheel, where the listener is attached; at either end the page scrolls instead. *)
Wheel(d) ==
  /\ attached = "rail" /\ Max > 0 /\ Gesture
  /\ scrollLeft + d \in 0 .. Max
  /\ scrollLeft' = scrollLeft + d
  /\ paused' = TRUE
  /\ UNCHANGED <<pageVars, attached, rail, dir, hovered, dragging, dragged, visible,
                 pointerVars>>

(* The tab or the rail leaves the screen, or comes back. *)
Visibility ==
  /\ Gesture /\ visible' = ~visible
  /\ UNCHANGED <<pageVars, attached, scrollLeft, rail, dir, paused, hovered, dragging,
                 dragged, pointerVars>>

PointerEnters ==
  /\ RailShown /\ ~over /\ Gesture
  /\ over' = TRUE /\ hovered' = TRUE
  /\ UNCHANGED <<pageVars, attached, scrollLeft, rail, dir, paused, dragging, dragged,
                 visible, panned, clicking>>

(* handleMouseUpOrLeave *)
DragEnds ==
  /\ dragging' = FALSE
  /\ paused' = (paused \/ dragging)

PointerLeaves ==
  /\ over
  /\ over' = FALSE /\ hovered' = FALSE
  /\ DragEnds
  /\ UNCHANGED <<pageVars, attached, scrollLeft, rail, dir, dragged, visible, panned,
                 clicking, gestures>>

(* handleMouseDown *)
Press ==
  /\ over /\ ~clicking /\ Gesture
  /\ dragging' = TRUE /\ dragged' = FALSE /\ panned' = FALSE
  /\ UNCHANGED <<pageVars, attached, scrollLeft, rail, dir, paused, hovered, visible,
                 over, clicking>>

(* handleMouseMove: by more than the 6 pixels that are still a click. *)
Drag ==
  /\ over /\ dragging
  /\ dragged' = TRUE /\ panned' = TRUE
  /\ scrollLeft' \in 0 .. Max
  /\ UNCHANGED <<pageVars, attached, rail, dir, paused, hovered, dragging, visible,
                 over, clicking, gestures>>

(* Mutant: all that was known of the drag is forgotten when it ends. *)
ReleaseForgetting ==
  /\ over /\ dragging
  /\ DragEnds
  /\ dragged' = FALSE
  /\ clicking' = TRUE
  /\ UNCHANGED <<pageVars, attached, scrollLeft, rail, dir, hovered, visible, over,
                 panned, gestures>>

(* handleMouseUpOrLeave; the browser sends the click next. *)
Release ==
  /\ over /\ dragging
  /\ DragEnds
  /\ clicking' = TRUE
  /\ UNCHANGED <<pageVars, attached, scrollLeft, rail, dir, dragged, hovered, visible,
                 over, panned, gestures>>

(* handleRailClickCapture: a click of the pointer, or one that no press came before, by
   key or by touch.  It reaches Buy unless the rail was dragged. *)
Click ==
  /\ RailShown
  /\ \/ clicking /\ UNCHANGED gestures
     \/ ~clicking /\ ~dragging /\ Gesture
  /\ clicking' = FALSE /\ dragged' = FALSE
  /\ UNCHANGED <<pageVars, attached, scrollLeft, rail, dir, paused, hovered, dragging,
                 visible, over, panned>>

ReachesBuy == Click /\ ~dragged

RailNext ==
  \/ LoadStarts \/ LoadEnds \/ CardsChange \/ SwitchView
  \/ Frame \/ PauseEnds
  \/ \E d \in {-1, 1} : ScrollGallery(d) \/ Wheel(d)
  \/ Visibility \/ PointerEnters \/ PointerLeaves
  \/ Press \/ Drag \/ Release \/ Click

-----------------------------------------------------------------------------
(* "A drag that ended over the Buy button used to fire it -- which opens a wallet and asks
   for money": the click that follows a drag does not reach Buy. *)
NoBuyFromDrag == [][clicking /\ ReachesBuy => ~panned]_railVars

(* The rail does get stuck in two ways.  A spinner that gives way to as many cards as there
   were brings a new element that no effect has seen: it neither drifts nor scrolls by the
   wheel until the number of cards or the view changes.  And a rail that goes from under
   the pointer leaves isHoveredRef set: no rail drifts until the pointer has been over one
   and left it. *)
Detached == RailShown /\ attached # "rail"
HoverLeft == hovered /\ ~over

(* No gesture, filter or switch of the view gets it stuck, and no reload but those two. *)
OnlyReloadsStick ==
  [][/\ ~Detached /\ Detached' => LoadEnds /\ length' = length
     /\ ~HoverLeft /\ HoverLeft' => over /\ RailShown /\ ~RailShown']_railVars

(* On the screen, too long to fit, and the pointer elsewhere. *)
Unattended == RailShown /\ Max > 0 /\ visible /\ ~over

(* Otherwise the rail drifts from one end to the other and back for as long as it is left
   alone, whatever gestures, loads and filters came before ("drift yields after a user
   gesture", "a beat at the end, then back the other way"). *)
RailSweeps ==
  /\ OnlyReloadsStick
  /\ \A x \in {0, Extent} :
       []<>(Unattended => Detached \/ HoverLeft \/ scrollLeft = x)
=============================================================================
