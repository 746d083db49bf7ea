------------------------------- MODULE Viewport -------------------------------
(***************************************************************************)
(* The camera over the network topology: the DraggableNetworkViewport hook *)
(* of the dashboard (assets/js/app.js).  Events of mouse and fingers, the  *)
(* layout and its observer, animation frames, LiveView patches and server  *)
(* events all move one transform; each callback is one step.               *)
(*                                                                         *)
(* Numbers are integers: pixels, and the scale in percent.  The camera     *)
(* moves along the x axis alone, the y axis being treated alike; only the  *)
(* details panel has both.  A gesture is made by one kind of pointer, the  *)
(* mouse or the fingers.  animate runs a half-way frame and a last one.    *)
(***************************************************************************)
EXTENDS Integers, Sequences, FiniteSets

CONSTANTS
  Widths, Height,     \* of the viewport; width 0 is a layout not settled yet
  Panels,             \* rectangles of the details panel, or NoPanel
  CanvasCenter,       \* canvasCenterX; the server makes it half the canvas
  Targets,            \* x of a chain or provider on the canvas
  Extent,             \* width and height of the topology's bounds
  Points,             \* where pointers go
  Budgets             \* bounds on the events of pointers and wheel, and on the
                      \* layout changes, patches and server events: pairs

ASSUME ViewportAssumption ==
  /\ Widths \subseteq Nat /\ Height \in Nat \ {0}
  /\ Budgets \subseteq [inputs : Nat, changes : Nat]
  /\ CanvasCenter \in Int /\ Targets \subseteq Int /\ Points \subseteq Int
  /\ Extent \in [width : Nat, height : Nat]
  /\ Panels \subseteq [left : Int, right : Int, top : Int, bottom : Int]

VARIABLES
  mounted,   \* is the hook alive?
  view,      \* translateX and scale
  shown,     \* the transform kept on the document, or NoFrame; "topology-framed"
             \* is the class that makes the canvas visible
  framed,
  layout,    \* width of the viewport and the details panel over it
  nodes,     \* are chain nodes rendered, and this.hadNodes
  framing,   \* centerCanvas retries left, the ResizeObserver and its last width
  canvas,    \* the element: its class labels-visible, our click handler on it
  labels,    \* this.labelsVisible: TRUE, FALSE or undefined
  gesture,   \* the fields that mouse and touch handlers share
  pointers,  \* positions of the fingers down, or of the pressed mouse
  ghost,     \* what the reader knows of the gesture
  frames,    \* animate closures whose frame is requested; this.animationId
  animation,
  budget     \* the events left

camera   == <<view, shown, canvas, labels>>
touching == <<gesture, pointers, ghost>>
moving   == <<frames, animation>>
place    == <<mounted, framed, layout, nodes, framing>>
viewVars == <<camera, touching, moving, place, budget>>

MinScale == 30
MaxScale == 300
LabelShowThreshold == 145
LabelHideThreshold == 120
Desktop == 768
Padding == 60

NoFrame == [x |-> 0, scale |-> 0]
NoPanel == [left |-> 0, right |-> 0, top |-> 0, bottom |-> 0]
None    == [kind |-> "none"]

\* The details window, of at most three quarters of the screen's height, leaves
\* room above it or below (lib/lasso_web/dashboard/dashboard.ex).
ASSUME PanelAssumption ==
  \A p \in Panels \ {NoPanel} :
    p.left < p.right /\ p.top < p.bottom /\ (p.top > 0 \/ p.bottom < Height)

Smaller(a, b) == IF a < b THEN a ELSE b
Larger(a, b)  == IF a < b THEN b ELSE a

Clamp(scale) == Smaller(MaxScale, Larger(MinScale, scale))
Distance(a, b) == Larger(a - b, b - a)

-----------------------------------------------------------------------------
(* Geometry                                                                *)

\* visibleViewportBox: what the details panel leaves of the viewport.
VisibleBox(width, panel) ==
  LET box == [left |-> 0, top |-> 0, right |-> width, bottom |-> Height]
  IN IF panel.right - panel.left < 1 \/ panel.bottom - panel.top < 1 THEN box
     ELSE IF 10 * (panel.right - panel.left) >= 9 * width
     THEN IF Height - panel.bottom <= panel.top
          THEN [box EXCEPT !.bottom = Larger(1, panel.top)]
          ELSE [box EXCEPT !.top = Smaller(Height - 1, panel.bottom)]
     ELSE IF width - panel.right <= panel.left
     THEN [box EXCEPT !.right = Larger(1, panel.left)]
     ELSE [box EXCEPT !.left = Smaller(width - 1, panel.right)]

Box == VisibleBox(layout.width, layout.panel)
Middle(box) == (box.left + box.right) \div 2

\* initialScale: on a phone, the bounds of the nodes decide.
InitialScale(box, present) ==
  LET width == box.right - box.left
      fit == Smaller((100 * width) \div (Extent.width + 2 * Padding),
                     (100 * (box.bottom - box.top)) \div (Extent.height + 2 * Padding))
  IN IF width >= Desktop THEN 100
     ELSE IF ~present THEN 70
     ELSE Larger(MinScale, Smaller(100, (fit * 6) \div 5))

\* focusScale; a factor is in tenths.
FocusScale(zoom, factor) ==
  IF Box.right - Box.left >= Desktop THEN zoom
  ELSE Smaller(zoom, (InitialScale(Box, nodes.now) * factor) \div 10)

\* Where a canvas point is drawn.
OnScreen(point, v) == v.x + (point * v.scale) \div 100

\* The view of scale s that draws a canvas point at "at".
Aimed(point, at, s) == [x |-> at - (point * s) \div 100, scale |-> s]

\* zoomAtPoint
ZoomedAt(v, s, at) ==
  IF s = v.scale THEN v
  ELSE [x |-> at - ((at - v.x) * s) \div v.scale, scale |-> s]

\* centerCanvas with room: the view that frames the topology.
Centred(present) ==
  Aimed(CanvasCenter, Middle(Box), InitialScale(Box, present))

-----------------------------------------------------------------------------
(* The transform and the labels                                            *)

\* Variant: the class is only written when the decision changes.
SyncedLabelsOnChange(s, visible, element) ==
  LET next == IF s >= LabelShowThreshold THEN TRUE
              ELSE IF s < LabelHideThreshold THEN FALSE ELSE visible
  IN [visible |-> next, element |-> IF next = visible THEN element
                                    ELSE [element EXCEPT !.labels = next]]

\* updateLabelVisibility: a band without change, the class always written.
SyncedLabels(s, visible, element) ==
  LET next == IF s >= LabelShowThreshold THEN TRUE
              ELSE IF s < LabelHideThreshold THEN FALSE ELSE visible
  IN [visible |-> next, element |-> [element EXCEPT !.labels = next]]

\* updateTransform, of a canvas element.
MovesOn(v, element) ==
  LET synced == SyncedLabels(v.scale, labels, element)
  IN /\ view' = v /\ shown' = v
     /\ labels' = synced.visible /\ canvas' = synced.element
Moves(v) == MovesOn(v, canvas)

\* A move that is not the finger's.
Disturb == ghost' = [ghost EXCEPT !.disturbed = TRUE]

-----------------------------------------------------------------------------
(* Mouse, fingers and wheel                                                *)
NoGesture ==
  [dragging |-> FALSE, pinching |-> FALSE, dragged |-> FALSE, startX |-> 0,
   startClient |-> 0, pinchDistance |-> 0, pinchScale |-> 100]
Unpressed == [device |-> "none", strayed |-> FALSE, disturbed |-> FALSE]

Input ==
  /\ mounted /\ budget.inputs > 0
  /\ budget' = [budget EXCEPT !.inputs = @ - 1]
  /\ UNCHANGED <<moving, place>>

\* A contact at p drags the canvas from here on.
Anchored(g, p) == [g EXCEPT !.dragging = TRUE, !.startX = p - view.x, !.startClient = p]

\* Variant: the finger that stays down keeps the anchor of the first press.
HandedOverUnanchored(g, p) == [g EXCEPT !.pinching = FALSE, !.dragging = TRUE]

HandedOver(g, p) == Anchored([g EXCEPT !.pinching = FALSE], p)

Pressed(p) == Anchored([gesture EXCEPT !.pinching = FALSE, !.dragged = FALSE], p)

Press(device, p) ==
  /\ pointers = <<>>
  /\ pointers' = <<p>>
  /\ gesture' = Pressed(p)
  /\ ghost' = [device |-> device, strayed |-> FALSE, disturbed |-> FALSE]
  /\ UNCHANGED camera

\* The drag of handleMouseMove and handleTouchMove.
Pan(p, threshold) ==
  LET far == Distance(p, gesture.startClient) > threshold
  IN /\ Moves([view EXCEPT !.x = p - gesture.startX])
     /\ gesture' = [gesture EXCEPT !.dragged = @ \/ far]
     /\ ghost' = [ghost EXCEPT !.strayed = @ \/ far]

MouseDown(p) == Input /\ Press("mouse", p)

MouseMove(p) ==
  /\ Input
  /\ ghost.device = "mouse" /\ pointers # <<>> /\ pointers # <<p>>
  /\ pointers' = <<p>>
  /\ IF gesture.dragging THEN Pan(p, 5) ELSE UNCHANGED <<camera, gesture, ghost>>

\* mouseleave; the button may be released outside.
MouseLeave(held) ==
  /\ Input
  /\ ghost.device = "mouse" /\ pointers # <<>>
  /\ pointers' = IF held THEN pointers ELSE <<>>
  /\ gesture' = [gesture EXCEPT !.dragging = FALSE]
  /\ UNCHANGED <<camera, ghost>>

\* mouseup and the click that follows it: handleMouseUp, handleCanvasClick.
MouseRelease ==
  /\ Input
  /\ ghost.device = "mouse" /\ pointers # <<>>
  /\ pointers' = <<>>
  /\ gesture' = [gesture EXCEPT !.dragging = FALSE, !.dragged = FALSE]
  /\ UNCHANGED <<camera, ghost>>

\* handleWheel
Wheel(p, factor) ==
  /\ Input
  /\ Moves(ZoomedAt(view, Clamp((view.scale * factor) \div 100), p))
  /\ Disturb
  /\ UNCHANGED <<gesture, pointers>>

BeginPinch(a, b) ==
  gesture' = [gesture EXCEPT !.dragging = FALSE, !.pinching = TRUE, !.dragged = TRUE,
                             !.pinchDistance = Distance(a, b), !.pinchScale = view.scale]

TouchStart(p) ==
  /\ Input
  /\ \/ Press("touch", p)
     \/ /\ ghost.device = "touch" /\ Len(pointers) \in 1..2
        /\ pointers' = Append(pointers, p)
        /\ IF Len(pointers) = 1
           THEN BeginPinch(pointers[1], p) /\ ghost' = [ghost EXCEPT !.strayed = TRUE]
           ELSE UNCHANGED <<gesture, ghost>>
        /\ UNCHANGED camera

UpdatePinch(a, b) ==
  IF gesture.pinchDistance = 0 THEN UNCHANGED <<camera, ghost>>
  ELSE /\ Moves(ZoomedAt(view,
                         Clamp((gesture.pinchScale * Distance(a, b))
                                 \div gesture.pinchDistance),
                         (a + b) \div 2))
       /\ Disturb

TouchMove(i, p) ==
  /\ Input
  /\ ghost.device = "touch" /\ i \in DOMAIN pointers /\ pointers[i] # p
  /\ LET now == [pointers EXCEPT ![i] = p]
     IN /\ pointers' = now
        /\ IF gesture.pinching /\ Len(now) = 2
           THEN UpdatePinch(now[1], now[2]) /\ UNCHANGED gesture
           ELSE IF gesture.dragging /\ Len(now) = 1 THEN Pan(p, 10)
           ELSE UNCHANGED <<camera, gesture, ghost>>

Without(i) == SubSeq(pointers, 1, i - 1) \o SubSeq(pointers, i + 1, Len(pointers))

\* touchend or touchcancel; what follows a press by one finger may be a click.
TouchEnd(i, click) ==
  /\ Input
  /\ ghost.device = "touch" /\ i \in DOMAIN pointers
  /\ click => Len(pointers) = 1 /\ gesture.dragging
  /\ pointers' = Without(i)
  /\ IF pointers' = <<>>
     THEN /\ gesture' = [gesture EXCEPT !.dragging = FALSE, !.pinching = FALSE,
                                        !.dragged = @ /\ ~click]
          /\ UNCHANGED ghost
     ELSE IF Len(pointers') = 1 /\ gesture.pinching
     THEN /\ gesture' = HandedOver(gesture, pointers'[1])
          /\ ghost' = [ghost EXCEPT !.disturbed = FALSE]
     ELSE UNCHANGED <<gesture, ghost>>
  /\ UNCHANGED camera

-----------------------------------------------------------------------------
(* Animations                                                              *)
Change ==
  /\ mounted /\ budget.changes > 0
  /\ budget' = [budget EXCEPT !.changes = @ - 1]

\* The frames requested once a new animation replaces the current one.
Requested(f) == (frames \ {animation}) \cup {f}

Animates(f) ==
  /\ frames' = Requested(f) /\ animation' = f
  /\ UNCHANGED <<camera, touching, place>>

\* centerOnChain and centerOnProvider: animateTo.
AnimateTo(x, zoom, factor) ==
  /\ Change /\ nodes.now
  /\ Animates([kind |-> "to", start |-> view, rect |-> layout, target |-> x,
               scale |-> FocusScale(zoom, factor), half |-> FALSE])

CenterOnChain(x)    == AnimateTo(x, 125, 20)
CenterOnProvider(x) == AnimateTo(x, 140, 26)

\* zoom_out: animateZoomTo, about the canvas point in the middle of the box.
ZoomOut ==
  /\ Change
  /\ Animates([kind |-> "zoom", start |-> view, rect |-> layout,
               target |-> ((Middle(Box) - view.x) * 100) \div view.scale,
               scale |-> 100, half |-> FALSE])

\* The cubic easing at half time, and at the end.
Eased(f, from, to) == IF f.half THEN to ELSE from + ((to - from) * 7) \div 8

\* Variant: the anchor is taken when the animation starts.
AnchorOfStart(f) == Middle(VisibleBox(f.rect.width, f.rect.panel))

\* getViewportAnchor: animateZoomTo keeps the rectangle of the start, animateTo
\* measures again in every frame.
Anchor(f) ==
  Middle(VisibleBox(IF f.kind = "zoom" THEN f.rect.width ELSE layout.width, layout.panel))

\* The view after one frame of animate.
Animated(f) ==
  LET s == Eased(f, f.start.scale, f.scale)
  IN IF f.kind = "zoom" THEN Aimed(f.target, Anchor(f), s)
     ELSE [x |-> Eased(f, f.start.x, Aimed(f.target, Anchor(f), f.scale).x), scale |-> s]

Animate(f) ==
  /\ f \in frames
  /\ Moves(Animated(f)) /\ Disturb
  /\ LET next == [f EXCEPT !.half = TRUE]
     IN IF f.half THEN frames' = frames \ {f} /\ animation' = None
        ELSE frames' = (frames \ {f}) \cup {next} /\ animation' = next
  /\ UNCHANGED <<gesture, pointers, place, budget>>

-----------------------------------------------------------------------------
(* Framing, patches and the life of the hook                               *)

\* centerCanvas, with room for it.
Center(present, element) == MovesOn(Centred(present), element) /\ framed' = TRUE

\* Variant: the retries are all there is.
WatchesNoSize == FALSE

\* Is there a ResizeObserver?
WatchesSize == TRUE

\* mounted().  The thresholds of the labels are not set yet when centerCanvas
\* runs: the class is toggled, not written.
Mount ==
  /\ ~mounted
  /\ mounted' = TRUE
  /\ nodes' = [nodes EXCEPT !.had = nodes.now]
  /\ labels' = FALSE
  /\ IF layout.width > 0
     THEN /\ view' = Centred(nodes.now) /\ shown' = view' /\ framed' = TRUE
          /\ canvas' = [labels |-> TRUE, listening |-> TRUE]
     ELSE /\ view' = IF shown = NoFrame THEN [x |-> 0, scale |-> 100] ELSE shown
          /\ framed' = (framed /\ shown # NoFrame)
          /\ canvas' = [labels |-> FALSE, listening |-> TRUE]
          /\ UNCHANGED shown
  /\ framing' = [retries |-> IF layout.width > 0 THEN 0 ELSE 2, observing |-> WatchesSize, seen |-> 0]
  /\ gesture' = NoGesture /\ pointers' = <<>> /\ ghost' = Unpressed
  /\ UNCHANGED <<layout, moving, budget>>

\* A requestAnimationFrame of mounted.
Retry ==
  /\ mounted /\ framing.retries > 0
  /\ IF layout.width > 0
     THEN /\ Center(nodes.now, canvas) /\ Disturb
          /\ framing' = [framing EXCEPT !.retries = 0]
     ELSE /\ framing' = [framing EXCEPT !.retries = @ - 1]
          /\ UNCHANGED <<camera, framed, ghost>>
  /\ UNCHANGED <<mounted, layout, nodes, gesture, pointers, moving, budget>>

\* The ResizeObserver: called when the size is not the one it last saw.
Resized ==
  /\ mounted /\ framing.observing /\ layout.width # framing.seen
  /\ framing' = [framing EXCEPT !.seen = layout.width, !.observing = layout.width = 0]
  /\ IF layout.width > 0 THEN Center(nodes.now, canvas) /\ Disturb
     ELSE UNCHANGED <<camera, framed, ghost>>
  /\ UNCHANGED <<mounted, layout, nodes, gesture, pointers, moving, budget>>

\* The panels of the page settle, or the details panel opens, grows, closes.
Relayout(width, panel) ==
  /\ Change
  /\ [width |-> width, panel |-> panel] # layout
  /\ layout' = [width |-> width, panel |-> panel]
  /\ UNCHANGED <<mounted, framed, nodes, framing, camera, touching, moving>>

\* The canvas after a patch, once updated() has put the click handler on it.
Reattached(replaced) ==
  [labels |-> FALSE, listening |-> canvas.listening \/ replaced]

\* A LiveView patch, which takes the classes the hook wrote and may replace the
\* canvas, then updated().
Patch(replaced, present) ==
  /\ Change
  /\ LET element == Reattached(replaced)
     IN IF present /\ ~nodes.had /\ layout.width > 0
        THEN Center(present, element) /\ Disturb
        ELSE MovesOn(view, element) /\ UNCHANGED <<framed, ghost>>
  /\ nodes' = [now |-> present, had |-> present]
  /\ UNCHANGED <<mounted, layout, framing, gesture, pointers, moving>>

\* destroyed(), when another tab is shown.
Destroy ==
  /\ Change
  /\ mounted' = FALSE
  /\ frames' = frames \ {animation} /\ animation' = None
  /\ framing' = [framing EXCEPT !.retries = 0, !.observing = FALSE]
  /\ UNCHANGED <<camera, touching, framed, layout, nodes>>

-----------------------------------------------------------------------------
ViewInit ==
  /\ mounted = FALSE /\ framed = FALSE /\ shown = NoFrame
  /\ view = [x |-> 0, scale |-> 100]
  /\ layout \in [width : Widths, panel : {NoPanel}]
  /\ nodes \in [now : BOOLEAN, had : {FALSE}]
  /\ framing = [retries |-> 0, observing |-> FALSE, seen |-> 0]
  /\ canvas = [labels |-> FALSE, listening |-> FALSE]
  /\ labels = FALSE
  /\ gesture = NoGesture /\ pointers = <<>> /\ ghost = Unpressed
  /\ frames = {} /\ animation = None
  /\ budget \in Budgets

Gestures ==
  \/ \E p \in Points :
       \/ MouseDown(p) \/ MouseMove(p) \/ TouchStart(p)
       \/ \E i \in 1..3 : TouchMove(i, p)
       \/ \E factor \in {50, 200} : Wheel(p, factor)
  \/ MouseRelease
  \/ \E held \in BOOLEAN : MouseLeave(held)
  \/ \E i \in 1..3, click \in BOOLEAN : TouchEnd(i, click)

Focusing ==
  \/ \E x \in Targets : CenterOnChain(x) \/ CenterOnProvider(x)
  \/ ZoomOut
  \/ \E f \in frames : Animate(f)

Changing ==
  \/ \E width \in Widths, panel \in Panels : Relayout(width, panel)
  \/ \E replaced, present \in BOOLEAN : Patch(replaced, present)
  \/ Destroy

ViewNext == Mount \/ Retry \/ Resized \/ Gestures \/ Focusing \/ Changing

\* The browser runs requested frames and reports sizes.
ViewFairness == WF_viewVars(Retry) /\ WF_viewVars(Resized)

ViewSpec == ViewInit /\ [][ViewNext]_viewVars /\ ViewFairness

-----------------------------------------------------------------------------
(* Properties                                                              *)

\* What is on the page is what the hook believes, across patches that strip or
\* replace the canvas, zooms, animations that interrupt each other and the death
\* of the hook: the transform is the one shown, the labels follow the scale with
\* their band of hysteresis, clicks are watched, and no more than one animation
\* moves the canvas, within the limits of the zoom.  (The first call of the
\* observer ends the wrong labels of a mount.)
ViewInStep ==
  /\ view.scale \in MinScale..MaxScale
  /\ Cardinality(frames) <= 1
  /\ frames = IF animation = None THEN {} ELSE {animation}
  /\ mounted /\ shown # NoFrame => shown = view
  /\ mounted => canvas.listening
  /\ mounted /\ framing.seen = layout.width /\ layout.width > 0 =>
       /\ canvas.labels = labels
       /\ view.scale >= LabelShowThreshold => labels
       /\ view.scale < LabelHideThreshold => ~labels

\* A click that ends a press is kept from the page exactly if the press had
\* dragged the canvas or become a pinch, and while one finger or the mouse drags
\* the canvas stays under it, also after a pinch hands the canvas back.
Clicked == MouseRelease \/ \E i \in 1..3 : TouchEnd(i, TRUE)
FollowsPointer ==
  gesture.dragging /\ gesture'.dragging /\ ~ghost.disturbed /\ ~ghost'.disturbed
    /\ Len(pointers) = 1 /\ Len(pointers') = 1 /\ budget'.inputs # budget.inputs
GesturesHold ==
  [][/\ Clicked => (gesture.dragged <=> ghost.strayed)
     /\ FollowsPointer => view'.x - view.x = pointers'[1] - pointers[1]]_viewVars

\* An animation towards a chain or provider that is not interrupted ends with it
\* in view and not behind the details panel, which may have opened or moved
\* since the animation began.
Behind(panel, x) == panel # NoPanel /\ panel.left < x /\ x < panel.right
FocusEndsInTheOpen ==
  [][\A f \in frames :
       f.kind = "to" /\ f.half /\ frames' = {} /\ mounted' /\ layout.width > 0 =>
         LET x == OnScreen(f.target, view')
         IN /\ Box.left <= x /\ x <= Box.right
            /\ Behind(layout.panel, x) =>
                 Box.bottom <= layout.panel.top \/ layout.panel.bottom <= Box.top
    ]_viewVars

\* However late the layout settles, a canvas with room is framed and shown,
\* unless the hook dies or the room goes first.
EventuallyFramed ==
  mounted /\ layout.width > 0 ~> framed \/ layout.width = 0 \/ ~mounted
=============================================================================
