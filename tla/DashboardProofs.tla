--------------------------- MODULE DashboardProofs ---------------------------
(***************************************************************************)
(* Proofs about three hooks of the dashboard, each for itself.             *)
(*                                                                         *)
(* The camera (Viewport), for any sizes, panels, targets and pointers:     *)
(* what is on the page is what the hook believes, gestures hold, and a     *)
(* chain brought into focus ends in the open.                              *)
(*                                                                         *)
(* The endpoint box (EndpointSelector), for any profiles, chains and       *)
(* strategies: it agrees with itself and with its panel.  The hook finds   *)
(* its strategy again by looking for the button that is active, so what    *)
(* has to be kept is that there is one such button and it is the one last  *)
(* chosen.                                                                 *)
(*                                                                         *)
(* The activity feed (ActivityFeed), for any window and any limit of rows: *)
(* what is saved at an update is the time and the place of the row that a  *)
(* resting reader is on.                                                   *)
(***************************************************************************)
EXTENDS Viewport, EndpointSelector, ActivityFeed, TLAPS, FiniteSetTheorems, SequenceTheorems

-----------------------------------------------------------------------------
(* The camera: types                                                       *)
Scales == MinScale .. MaxScale
View == [x : Int, scale : Scales]
Rectangle == [left : Int, right : Int, top : Int, bottom : Int]
Layout == [width : Widths, panel : Panels \cup {NoPanel}]
Canvas == [labels : BOOLEAN, listening : BOOLEAN]
Gesture == [dragging : BOOLEAN, pinching : BOOLEAN, dragged : BOOLEAN, startX : Int,
            startClient : Int, pinchDistance : Nat, pinchScale : Scales]
Focus == [kind : {"to", "zoom"}, start : View, rect : Layout, target : Int,
          scale : Scales, half : BOOLEAN]

CameraTypes ==
  /\ view \in View /\ shown \in View \cup {NoFrame}
  /\ canvas \in Canvas /\ labels \in BOOLEAN
TouchTypes ==
  /\ gesture \in Gesture /\ pointers \in Seq(Int)
  /\ ghost \in [device : {"none", "mouse", "touch"}, strayed : BOOLEAN, disturbed : BOOLEAN]
PlaceTypes ==
  /\ mounted \in BOOLEAN /\ framed \in BOOLEAN /\ layout \in Layout
  /\ nodes \in [now : BOOLEAN, had : BOOLEAN]
  /\ framing \in [retries : Nat, observing : BOOLEAN, seen : Nat]
  /\ frames \subseteq Focus
  /\ budget \in [inputs : Nat, changes : Nat]
ViewTypes == CameraTypes /\ TouchTypes /\ PlaceTypes

(* The labels follow the scale, and the page has them.  A mount leaves     *)
(* them behind until the observer has seen a width.                        *)
Labelled ==
  /\ canvas.labels = labels
  /\ view.scale >= LabelShowThreshold => labels
  /\ view.scale < LabelHideThreshold => ~labels

(* The page shows what the hook believes.                                  *)
PageInv ==
  /\ frames = IF animation = None THEN {} ELSE {animation}
  /\ mounted /\ shown # NoFrame => shown = view
  /\ mounted => canvas.listening
  /\ mounted /\ framing.seen > 0 => Labelled

(* What a gesture has done so far: a click that follows is kept from the   *)
(* page if it strayed, two fingers pinch, and one finger that nothing      *)
(* disturbs has its point of the canvas under it.                          *)
GestureInv ==
  /\ pointers # <<>> => (gesture.dragged <=> ghost.strayed)
  /\ Len(pointers) >= 2 => gesture.pinching /\ ~gesture.dragging
  /\ gesture.dragging /\ Len(pointers) = 1 /\ ~ghost.disturbed =>
       view.x = pointers[1] - gesture.startX

ViewInv == ViewTypes /\ PageInv /\ GestureInv

-----------------------------------------------------------------------------
(* The camera: geometry                                                    *)
LEMMA Quotient == \A a \in Int, b \in Nat \ {0} : a \div b \in Int
  OBVIOUS

LEMMA Boxes ==
  ASSUME NEW width \in Nat, NEW p \in Rectangle
  PROVE  VisibleBox(width, p) \in Rectangle
  BY ViewportAssumption DEF VisibleBox, Rectangle, Larger, Smaller

LEMMA Layouts ==
  ASSUME NEW l \in Layout
  PROVE  /\ l.width \in Nat /\ l.panel \in Rectangle
         /\ VisibleBox(l.width, l.panel) \in Rectangle
  <1>1. l.width \in Nat
    BY ViewportAssumption DEF Layout
  <1>2. l.panel \in Rectangle
    BY ViewportAssumption DEF Layout, NoPanel, Rectangle
  <1> QED
    BY <1>1, <1>2, Boxes

LEMMA InitialScales ==
  ASSUME NEW b \in Rectangle, NEW present \in BOOLEAN
  PROVE  InitialScale(b, present) \in MinScale .. 100
  <1> DEFINE width == b.right - b.left
             height == b.bottom - b.top
             across == (100 * width) \div (Extent.width + 2 * Padding)
             along == (100 * height) \div (Extent.height + 2 * Padding)
             fit == Smaller(across, along)
             scaled == (fit * 6) \div 5
  <1>1. width \in Int /\ height \in Int
    BY DEF Rectangle
  <1>2. /\ Extent.width + 2 * Padding \in Nat \ {0}
        /\ Extent.height + 2 * Padding \in Nat \ {0}
    BY ViewportAssumption DEF Padding
  <1> HIDE DEF width, height
  <1>3. across \in Int /\ along \in Int
    <2>1. 100 * width \in Int /\ 100 * height \in Int
      BY <1>1
    <2> QED
      BY <2>1, <1>2, Quotient
  <1> HIDE DEF across, along
  <1>4. fit \in Int
    BY <1>3 DEF Smaller
  <1> HIDE DEF fit
  <1>5. scaled \in Int
    BY <1>4
  <1> HIDE DEF scaled
  <1>6. InitialScale(b, present) \in {100, 70, Larger(MinScale, Smaller(100, scaled))}
    BY DEF InitialScale, scaled, fit, across, along, width, height
  <1> QED
    BY <1>5, <1>6 DEF Larger, Smaller, MinScale

LEMMA Clamped == \A s \in Int : Clamp(s) \in Scales
  BY DEF Clamp, Scales, Smaller, Larger, MinScale, MaxScale

LEMMA Aims ==
  ASSUME NEW point \in Int, NEW at \in Int, NEW s \in Scales
  PROVE  Aimed(point, at, s) \in View
  <1>1. s \in Int /\ point * s \in Int
    BY DEF Scales, MinScale, MaxScale
  <1>2. (point * s) \div 100 \in Int
    BY <1>1, Quotient
  <1> QED
    BY <1>2 DEF Aimed, View

LEMMA Zooms ==
  ASSUME NEW v \in View, NEW s \in Scales, NEW at \in Int
  PROVE  ZoomedAt(v, s, at) \in View
  <1>1. v.x \in Int /\ v.scale \in Nat \ {0} /\ s \in Int
    BY DEF View, Scales, MinScale, MaxScale
  <1>2. (at - v.x) * s \in Int
    BY <1>1
  <1>3. ((at - v.x) * s) \div v.scale \in Int
    BY <1>1, <1>2, Quotient
  <1> QED
    BY <1>3 DEF ZoomedAt, View

LEMMA Middles == \A b \in Rectangle : Middle(b) \in Int
  BY DEF Middle, Rectangle

LEMMA Centres ==
  ASSUME layout \in Layout, NEW present \in BOOLEAN
  PROVE  Centred(present) \in View
  <1>1. Box \in Rectangle
    BY Layouts DEF Box
  <1>2. InitialScale(Box, present) \in Scales
    BY <1>1, InitialScales DEF Scales, MinScale, MaxScale
  <1> QED
    BY <1>1, <1>2, Middles, Aims, ViewportAssumption DEF Centred

LEMMA Focuses ==
  ASSUME layout \in Layout, nodes.now \in BOOLEAN,
         NEW zoom \in 100 .. MaxScale, NEW factor \in {20, 26}
  PROVE  FocusScale(zoom, factor) \in Scales
  <1>1. Box \in Rectangle
    BY Layouts DEF Box
  <1> DEFINE s == InitialScale(Box, nodes.now)
  <1>2. s \in MinScale .. 100
    BY <1>1, InitialScales
  <1>3. FocusScale(zoom, factor) \in {zoom, Smaller(zoom, (s * factor) \div 10)}
    BY DEF FocusScale
  <1> HIDE DEF s
  <1>4. (s * factor) \div 10 \in 30 .. 260
    <2>1. CASE factor = 20
      BY <1>2, <2>1 DEF MinScale
    <2>2. CASE factor = 26
      BY <1>2, <2>2 DEF MinScale
    <2> QED
      BY <2>1, <2>2
  <1> QED
    BY <1>3, <1>4 DEF Smaller, Scales, MinScale, MaxScale

LEMMA Animations ==
  ASSUME layout \in Layout, NEW f \in Focus
  PROVE  /\ Anchor(f) \in Int
         /\ Animated(f) \in View
  <1>0. /\ f.start \in View /\ f.rect \in Layout /\ f.target \in Int /\ f.scale \in Scales
        /\ f.half \in BOOLEAN
    BY DEF Focus
  <1>1. f.rect.width \in Nat /\ layout.width \in Nat /\ layout.panel \in Rectangle /\ f.rect.panel \in Rectangle
    BY <1>0, Layouts
  <1>2. Anchor(f) \in Int
    BY <1>1, Boxes, Middles DEF Anchor
  <1> DEFINE s == Eased(f, f.start.scale, f.scale)
             to == Aimed(f.target, Anchor(f), f.scale)
  <1>3. s \in Scales
    <2>1. f.start.scale \in Scales
      BY <1>0 DEF View
    <2> DEFINE from == f.start.scale
               end == f.scale
               near == from + ((end - from) * 7) \div 8
    <2>2. from \in Int /\ MinScale <= from /\ from <= MaxScale
      BY <2>1 DEF Scales, MinScale, MaxScale
    <2>3. end \in Int /\ MinScale <= end /\ end <= MaxScale
      BY <1>0 DEF Scales, MinScale, MaxScale
    <2>4. s \in {end, near}
      BY DEF Eased
    <2> HIDE DEF from, end, s
    <2>5. near \in Scales
      BY <2>2, <2>3 DEF Scales, MinScale, MaxScale
    <2> QED
      BY <2>4, <2>5, <1>0 DEF end
  <1>4. to \in View
    BY <1>0, <1>2, Aims
  <1>5. Eased(f, f.start.x, to.x) \in Int
    <2>1. f.start.x \in Int /\ to.x \in Int
      BY <1>0, <1>4 DEF View
    <2> HIDE DEF to
    <2> QED
      BY <2>1 DEF Eased
  <1>6. Aimed(f.target, Anchor(f), s) \in View
    BY <1>0, <1>2, <1>3, Aims
  <1> HIDE DEF s, to
  <1>7. Animated(f) = IF f.kind = "zoom" THEN Aimed(f.target, Anchor(f), s)
                      ELSE [x |-> Eased(f, f.start.x, to.x), scale |-> s]
    BY DEF Animated, s, to
  <1> QED
    BY <1>2, <1>3, <1>5, <1>6, <1>7 DEF View

-----------------------------------------------------------------------------
(* The camera: what a step does to the page                                *)

(* The view moves, and shows; the class of the labels is written.          *)
Moved(element) ==
  /\ view' \in View /\ shown' = view'
  /\ canvas' \in Canvas /\ canvas'.listening = element.listening
  /\ labels' \in BOOLEAN /\ Labelled'

LEMMA MovesStep ==
  ASSUME NEW v \in View, NEW element \in Canvas, labels \in BOOLEAN, MovesOn(v, element)
  PROVE  Moved(element) /\ view' = v
  <1> DEFINE next == IF v.scale >= LabelShowThreshold THEN TRUE
                     ELSE IF v.scale < LabelHideThreshold THEN FALSE ELSE labels
  <1>1. view' = v /\ shown' = v /\ labels' = next /\ canvas' = [element EXCEPT !.labels = next]
    BY DEF MovesOn, SyncedLabels
  <1>2. next \in BOOLEAN
    OBVIOUS
  <1>3. v.scale \in Int
    BY DEF View, Scales, MinScale, MaxScale
  <1>4. /\ v.scale >= LabelShowThreshold => next
        /\ v.scale < LabelHideThreshold => ~next
    BY <1>3 DEF LabelShowThreshold, LabelHideThreshold
  <1> HIDE DEF next
  <1>5. canvas' \in Canvas /\ canvas'.listening = element.listening /\ canvas'.labels = next
    BY <1>1, <1>2 DEF Canvas
  <1> QED
    BY <1>1, <1>2, <1>4, <1>5 DEF Moved, Labelled

LEMMA PageSteps ==
  ASSUME ViewInv, UNCHANGED camera \/ Moved(canvas),
         UNCHANGED <<frames, animation, mounted, framing>>
  PROVE  CameraTypes' /\ PageInv'
  <1>1. CASE UNCHANGED camera
    BY <1>1 DEF camera, ViewInv, ViewTypes, CameraTypes, PageInv, Labelled
  <1>2. CASE Moved(canvas)
    BY <1>2 DEF Moved, ViewInv, ViewTypes, CameraTypes, PageInv, Labelled
  <1> QED
    BY <1>1, <1>2

-----------------------------------------------------------------------------
(* The camera: gestures                                                    *)
Follows ==
  FollowsPointer => view'.x - view.x = pointers'[1] - pointers[1]

LEMMA InputStep ==
  ASSUME ViewInv, Input, UNCHANGED camera \/ Moved(canvas), TouchTypes', GestureInv'
  PROVE  ViewInv'
  <1>1. CameraTypes' /\ PageInv'
    BY PageSteps DEF Input, moving, place
  <1>2. budget' \in [inputs : Nat, changes : Nat]
    BY DEF Input, ViewInv, ViewTypes, PlaceTypes
  <1>3. PlaceTypes'
    BY <1>2 DEF Input, moving, place, ViewInv, ViewTypes, PlaceTypes
  <1> QED
    BY <1>1, <1>3 DEF ViewInv, ViewTypes

LEMMA Distances == \A a, b \in Int : Distance(a, b) \in Nat
  BY DEF Distance, Larger

LEMMA PressStep ==
  ASSUME ViewInv, NEW device \in {"mouse", "touch"}, NEW p \in Points, Input, Press(device, p)
  PROVE  ViewInv' /\ Follows
  <1>0. p \in Int /\ view.x \in Int /\ gesture \in Gesture
    BY ViewportAssumption DEF ViewInv, ViewTypes, CameraTypes, TouchTypes, View
  <1>1. /\ UNCHANGED camera /\ pointers = <<>> /\ pointers' = <<p>>
        /\ ghost' = [device |-> device, strayed |-> FALSE, disturbed |-> FALSE]
        /\ gesture' = [gesture EXCEPT !.pinching = FALSE, !.dragged = FALSE, !.dragging = TRUE,
                                      !.startX = p - view.x, !.startClient = p]
    BY DEF Press, Pressed, Anchored
  <1>2. gesture' \in Gesture /\ ~gesture'.dragged /\ gesture'.startX = p - view.x
    <2> DEFINE start == p - view.x
    <2>1. start \in Int
      BY <1>0
    <2>2. gesture' = [gesture EXCEPT !.pinching = FALSE, !.dragged = FALSE, !.dragging = TRUE,
                                     !.startX = start, !.startClient = p]
      BY <1>1
    <2> HIDE DEF start
    <2>3. gesture' \in Gesture /\ ~gesture'.dragged /\ gesture'.startX = start
      BY <1>0, <2>1, <2>2 DEF Gesture
    <2> QED
      BY <2>3 DEF start
  <1>3. TouchTypes'
    BY <1>0, <1>1, <1>2 DEF TouchTypes
  <1>4. view' = view /\ Len(pointers') = 1 /\ pointers'[1] = p
    BY <1>1 DEF camera
  <1>5. GestureInv'
    BY <1>0, <1>1, <1>2, <1>4 DEF GestureInv
  <1>6. Follows
    BY <1>1 DEF Follows, FollowsPointer
  <1> QED
    BY <1>1, <1>3, <1>5, <1>6, InputStep

LEMMA PanStep ==
  ASSUME ViewInv, NEW p \in Points, NEW threshold \in Nat,
         Len(pointers) = 1, gesture.dragging, pointers' = <<p>>, Pan(p, threshold), Input
  PROVE  ViewInv' /\ Follows
  <1> DEFINE far == Distance(p, gesture.startClient) > threshold
             v == [view EXCEPT !.x = p - gesture.startX]
  <1>0. /\ p \in Int /\ view \in View /\ view.x \in Int /\ gesture \in Gesture
        /\ gesture.startX \in Int /\ gesture.startClient \in Int
        /\ pointers \in Seq(Int) /\ labels \in BOOLEAN /\ canvas \in Canvas
    BY ViewportAssumption DEF ViewInv, ViewTypes, CameraTypes, TouchTypes, View, Gesture
  <1>1. v \in View /\ v.x = p - gesture.startX
    BY <1>0 DEF View
  <1>2. /\ Moves(v)
        /\ gesture' = [gesture EXCEPT !.dragged = @ \/ far]
        /\ ghost' = [ghost EXCEPT !.strayed = @ \/ far]
    BY DEF Pan
  <1> HIDE DEF far, v
  <1>3. Moved(canvas) /\ view' = v
    BY <1>0, <1>1, <1>2, MovesStep DEF Moves
  <1>4. far \in BOOLEAN
    BY DEF far
  <1>5. /\ gesture' \in Gesture /\ gesture'.dragging = gesture.dragging
        /\ gesture'.startX = gesture.startX
        /\ gesture'.dragged = (gesture.dragged \/ far)
    BY <1>0, <1>2, <1>4 DEF Gesture
  <1>6. /\ ghost' \in [device : {"none", "mouse", "touch"}, strayed : BOOLEAN, disturbed : BOOLEAN]
        /\ ghost'.strayed = (ghost.strayed \/ far) /\ ghost'.disturbed = ghost.disturbed
    BY <1>2, <1>4 DEF ViewInv, ViewTypes, TouchTypes
  <1>7. pointers' \in Seq(Int) /\ Len(pointers') = 1 /\ pointers'[1] = p /\ pointers # <<>>
    <2>1. pointers' \in Seq(Int)
      BY <1>0
    <2>2. Len(pointers') = 1 /\ pointers'[1] = p
      OBVIOUS
    <2>3. pointers # <<>>
      OBVIOUS
    <2> QED
      BY <2>1, <2>2, <2>3
  <1>8. gesture.dragged <=> ghost.strayed
    BY <1>7 DEF ViewInv, GestureInv
  <1>9. GestureInv'
    BY <1>0, <1>1, <1>3, <1>5, <1>6, <1>7, <1>8 DEF GestureInv
  <1>10. Follows
    <2> SUFFICES ASSUME FollowsPointer PROVE view'.x - view.x = pointers'[1] - pointers[1]
      BY DEF Follows
    <2>1. view.x = pointers[1] - gesture.startX
      BY DEF ViewInv, GestureInv, FollowsPointer
    <2>2. pointers[1] \in Int
      BY <1>0
    <2> QED
      BY <1>0, <1>1, <1>3, <1>7, <2>1, <2>2
  <1> QED
    BY <1>3, <1>5, <1>6, <1>7, <1>9, <1>10, InputStep DEF TouchTypes

LEMMA MouseSteps ==
  ASSUME ViewInv, NEW p \in Points, MouseDown(p) \/ MouseMove(p)
  PROVE  ViewInv' /\ Follows
  <1>0. /\ p \in Int /\ gesture \in Gesture /\ pointers \in Seq(Int)
    BY ViewportAssumption DEF ViewInv, ViewTypes, TouchTypes
  <1>1. CASE MouseDown(p)
    BY <1>1, PressStep DEF MouseDown
  <1>2. CASE MouseMove(p)
    <2>1. /\ Input /\ pointers # <<>> /\ pointers' = <<p>>
          /\ IF gesture.dragging THEN Pan(p, 5) ELSE UNCHANGED <<camera, gesture, ghost>>
      BY <1>2 DEF MouseMove
    <2>2. CASE gesture.dragging
      <3>1. Len(pointers) = 1
        <4>1. Len(pointers) \in Nat /\ Len(pointers) # 0
          BY <1>0, <2>1, EmptySeq, Zenon
        <4>2. ~(Len(pointers) >= 2)
          BY <2>2 DEF ViewInv, GestureInv
        <4>3. \A n \in Nat : n # 0 /\ ~(n >= 2) => n = 1
          OBVIOUS
        <4> QED
          BY <4>1, <4>2, <4>3, Zenon
      <3> QED
        BY <2>1, <2>2, <3>1, PanStep
    <2>3. CASE ~gesture.dragging
      <3>1. UNCHANGED <<camera, gesture, ghost>>
        BY <2>1, <2>3
      <3>2. TouchTypes'
        BY <1>0, <2>1, <3>1 DEF ViewInv, ViewTypes, TouchTypes
      <3>3. GestureInv' /\ Follows
        BY <2>1, <2>3, <3>1 DEF ViewInv, GestureInv, Follows, FollowsPointer
      <3> QED
        BY <2>1, <3>1, <3>2, <3>3, InputStep
    <2> QED
      BY <2>2, <2>3
  <1> QED
    BY <1>1, <1>2

LEMMA MouseEnds ==
  ASSUME ViewInv, NEW held \in BOOLEAN, MouseLeave(held) \/ MouseRelease
  PROVE  ViewInv' /\ Follows
  <1>0. gesture \in Gesture /\ pointers \in Seq(Int)
    BY DEF ViewInv, ViewTypes, TouchTypes
  <1>1. /\ Input /\ pointers # <<>> /\ pointers' \in {pointers, <<>>} /\ UNCHANGED <<camera, ghost>>
        /\ \/ gesture' = [gesture EXCEPT !.dragging = FALSE]
           \/ gesture' = [gesture EXCEPT !.dragging = FALSE, !.dragged = FALSE] /\ pointers' = <<>>
    BY DEF MouseLeave, MouseRelease
  <1>2. /\ gesture' \in Gesture /\ ~gesture'.dragging /\ gesture'.pinching = gesture.pinching
        /\ gesture'.dragged = gesture.dragged \/ pointers' = <<>>
    BY <1>0, <1>1 DEF Gesture
  <1>3. TouchTypes'
    BY <1>0, <1>1, <1>2, EmptySeq DEF ViewInv, ViewTypes, TouchTypes
  <1>4. Len(<<>>) = 0
    OBVIOUS
  <1>5. GestureInv' /\ Follows
    BY <1>1, <1>2, <1>4 DEF ViewInv, GestureInv, Follows, FollowsPointer
  <1> QED
    BY <1>1, <1>3, <1>5, InputStep

LEMMA WheelStep ==
  ASSUME ViewInv, NEW p \in Points, NEW factor \in {50, 200}, Wheel(p, factor)
  PROVE  ViewInv' /\ Follows
  <1> DEFINE s == Clamp((view.scale * factor) \div 100)
             v == ZoomedAt(view, s, p)
  <1>0. /\ p \in Int /\ view \in View /\ labels \in BOOLEAN /\ canvas \in Canvas
    BY ViewportAssumption DEF ViewInv, ViewTypes, CameraTypes
  <1>1. s \in Scales
    <2>1. view.scale * factor \in Int
      BY <1>0 DEF View, Scales, MinScale, MaxScale
    <2> QED
      BY <2>1, Quotient, Clamped
  <1>2. v \in View
    BY <1>0, <1>1, Zooms
  <1>3. Input /\ Moves(v) /\ ghost' = [ghost EXCEPT !.disturbed = TRUE] /\ UNCHANGED <<gesture, pointers>>
    BY DEF Wheel, Disturb
  <1> HIDE DEF v
  <1>4. Moved(canvas)
    BY <1>0, <1>2, <1>3, MovesStep DEF Moves
  <1>5. TouchTypes' /\ ghost'.disturbed /\ ghost'.strayed = ghost.strayed
    BY <1>3 DEF ViewInv, ViewTypes, TouchTypes
  <1>6. GestureInv' /\ Follows
    BY <1>3, <1>5 DEF ViewInv, GestureInv, Follows, FollowsPointer
  <1> QED
    BY <1>3, <1>4, <1>5, <1>6, InputStep

LEMMA Withouts ==
  ASSUME pointers \in Seq(Int), NEW i \in DOMAIN pointers
  PROVE  Without(i) \in Seq(Int) /\ Len(Without(i)) = Len(pointers) - 1
  <1> DEFINE left == SubSeq(pointers, 1, i - 1)
             right == SubSeq(pointers, i + 1, Len(pointers))
  <1>1. Len(pointers) \in Nat /\ i \in 1 .. Len(pointers)
    OBVIOUS
  <1>2. left \in Seq(Int) /\ Len(left) = i - 1
    BY <1>1
  <1>3. right \in Seq(Int) /\ Len(right) = Len(pointers) - i
    BY <1>1
  <1> HIDE DEF left, right
  <1>4. left \o right \in Seq(Int) /\ Len(left \o right) = Len(left) + Len(right)
    BY <1>2, <1>3
  <1>5. Without(i) = left \o right
    BY DEF Without, left, right
  <1> QED
    BY <1>1, <1>2, <1>3, <1>4, <1>5

LEMMA TouchStartStep ==
  ASSUME ViewInv, NEW p \in Points, TouchStart(p)
  PROVE  ViewInv' /\ Follows
  <1>0. /\ p \in Int /\ view \in View /\ gesture \in Gesture /\ pointers \in Seq(Int)
        /\ Len(pointers) \in Nat
    BY ViewportAssumption DEF ViewInv, ViewTypes, CameraTypes, TouchTypes
  <1>1. CASE Press("touch", p)
    BY <1>1, PressStep DEF TouchStart
  <1>2. CASE ~Press("touch", p)
    <2>1. /\ Input /\ Len(pointers) \in 1 .. 2 /\ pointers' = Append(pointers, p) /\ UNCHANGED camera
          /\ IF Len(pointers) = 1
             THEN BeginPinch(pointers[1], p) /\ ghost' = [ghost EXCEPT !.strayed = TRUE]
             ELSE UNCHANGED <<gesture, ghost>>
      BY <1>2 DEF TouchStart
    <2>2. pointers' \in Seq(Int) /\ Len(pointers') = Len(pointers) + 1
      BY <1>0, <2>1
    <2>3. pointers # <<>>
      BY <2>1
    <2>4. /\ TouchTypes' /\ gesture'.pinching /\ ~gesture'.dragging
          /\ gesture'.dragged <=> ghost'.strayed
      <3>1. CASE Len(pointers) = 1
        <4> DEFINE d == Distance(pointers[1], p)
        <4>1. pointers[1] \in Int
          BY <1>0, <3>1
        <4>2. d \in Nat
          BY <1>0, <4>1, Distances
        <4>3. gesture' = [gesture EXCEPT !.dragging = FALSE, !.pinching = TRUE, !.dragged = TRUE,
                                         !.pinchDistance = d, !.pinchScale = view.scale]
          BY <2>1, <3>1 DEF BeginPinch
        <4> HIDE DEF d
        <4>4. gesture' \in Gesture /\ gesture'.pinching /\ ~gesture'.dragging /\ gesture'.dragged
          BY <1>0, <4>2, <4>3 DEF Gesture, View
        <4>5. ghost' = [ghost EXCEPT !.strayed = TRUE]
          BY <2>1, <3>1
        <4>6. /\ ghost' \in [device : {"none", "mouse", "touch"}, strayed : BOOLEAN, disturbed : BOOLEAN]
              /\ ghost'.strayed
          BY <4>5 DEF ViewInv, ViewTypes, TouchTypes
        <4> QED
          BY <2>2, <4>4, <4>6 DEF TouchTypes
      <3>2. CASE Len(pointers) # 1
        <4>1. UNCHANGED <<gesture, ghost>> /\ Len(pointers) >= 2
          BY <2>1, <3>2
        <4> QED
          BY <2>2, <2>3, <4>1 DEF ViewInv, ViewTypes, TouchTypes, GestureInv
      <3> QED
        BY <3>1, <3>2
    <2>5. Len(pointers') # 1
      BY <2>1, <2>2
    <2>6. GestureInv' /\ Follows
      BY <2>4, <2>5 DEF GestureInv, Follows, FollowsPointer
    <2> QED
      BY <2>1, <2>4, <2>6, InputStep
  <1> QED
    BY <1>1, <1>2

LEMMA TouchMoveStep ==
  ASSUME ViewInv, NEW p \in Points, NEW i \in 1 .. 3, TouchMove(i, p)
  PROVE  ViewInv' /\ Follows
  <1> DEFINE now == [pointers EXCEPT ![i] = p]
  <1>0. /\ p \in Int /\ view \in View /\ gesture \in Gesture /\ pointers \in Seq(Int)
        /\ labels \in BOOLEAN /\ canvas \in Canvas
        /\ Len(pointers) \in Nat
    BY ViewportAssumption DEF ViewInv, ViewTypes, CameraTypes, TouchTypes
  <1>1. Input /\ i \in DOMAIN pointers /\ pointers' = now
    BY DEF TouchMove
  <1>2. now \in Seq(Int) /\ Len(now) = Len(pointers)
    BY <1>0, <1>1
  <1>3. pointers # <<>>
    BY <1>1
  <1>4. \/ gesture.pinching /\ Len(now) = 2 /\ UpdatePinch(now[1], now[2]) /\ UNCHANGED gesture
        \/ gesture.dragging /\ Len(now) = 1 /\ Pan(p, 10)
        \/ ~(gesture.dragging /\ Len(now) = 1) /\ UNCHANGED <<camera, gesture, ghost>>
    BY <1>2 DEF TouchMove
  <1>5. CASE gesture.pinching /\ Len(now) = 2 /\ UpdatePinch(now[1], now[2]) /\ UNCHANGED gesture
    <2> DEFINE a == now[1]
               b == now[2]
               v == ZoomedAt(view, Clamp((gesture.pinchScale * Distance(a, b)) \div gesture.pinchDistance),
                             (a + b) \div 2)
    <2>1. a \in Int /\ b \in Int
      BY <1>2, <1>5
    <2>2. \/ UNCHANGED <<camera, ghost>>
          \/ gesture.pinchDistance # 0 /\ Moves(v) /\ Disturb
      BY <1>5 DEF UpdatePinch
    <2> HIDE DEF now, a, b
    <2>3. CASE UNCHANGED <<camera, ghost>>
      <3>1. TouchTypes'
        BY <1>1, <1>2, <1>5, <2>3 DEF ViewInv, ViewTypes, TouchTypes
      <3>2. GestureInv' /\ Follows
        BY <1>1, <1>2, <1>3, <1>5, <2>3 DEF ViewInv, GestureInv, Follows, FollowsPointer
      <3> QED
        BY <1>1, <2>3, <3>1, <3>2, InputStep
    <2>4. CASE gesture.pinchDistance # 0 /\ Moves(v) /\ Disturb
      <3>1. /\ gesture.pinchScale \in Int /\ gesture.pinchDistance \in Nat \ {0}
            /\ Distance(a, b) \in Nat /\ a + b \in Int
        <4>1. gesture.pinchScale \in Int /\ gesture.pinchDistance \in Nat
          <5>1. gesture.pinchScale \in Scales /\ gesture.pinchDistance \in Nat
            BY <1>0 DEF Gesture
          <5> QED
            BY <5>1 DEF Scales, MinScale, MaxScale
        <4>2. Distance(a, b) \in Nat
          BY <2>1, Distances
        <4> QED
          BY <2>1, <2>4, <4>1, <4>2
      <3>2. gesture.pinchScale * Distance(a, b) \in Int
        BY <3>1
      <3>3. (gesture.pinchScale * Distance(a, b)) \div gesture.pinchDistance \in Int
        BY <3>1, <3>2, Quotient
      <3>4. (a + b) \div 2 \in Int
        BY <3>1, Quotient
      <3>5. v \in View
        BY <1>0, <3>3, <3>4, Clamped, Zooms
      <3> HIDE DEF v
      <3>6. Moved(canvas)
        BY <1>0, <2>4, <3>5, MovesStep DEF Moves
      <3>7. ghost' = [ghost EXCEPT !.disturbed = TRUE]
        BY <2>4 DEF Disturb
      <3>8. TouchTypes' /\ ghost'.disturbed /\ ghost'.strayed = ghost.strayed
        BY <1>1, <1>2, <1>5, <3>7 DEF ViewInv, ViewTypes, TouchTypes
      <3>9. GestureInv' /\ Follows
        BY <1>1, <1>2, <1>3, <1>5, <3>8 DEF ViewInv, GestureInv, Follows, FollowsPointer
      <3> QED
        BY <1>1, <3>6, <3>8, <3>9, InputStep
    <2> QED
      BY <2>2, <2>3, <2>4
  <1>6. CASE gesture.dragging /\ Len(now) = 1 /\ Pan(p, 10)
    <2>1. Len(pointers) = 1 /\ i = 1
      <3> HIDE DEF now
      <3>1. Len(pointers) = 1
        BY <1>2, <1>6
      <3>2. i \in 1 .. Len(pointers)
        BY <1>0, <1>1
      <3> QED
        BY <3>1, <3>2
    <2>2. pointers' = <<p>>
      BY <1>0, <1>1, <2>1
    <2> HIDE DEF now
    <2> QED
      BY <1>1, <1>6, <2>1, <2>2, PanStep
  <1>7. CASE ~(gesture.dragging /\ Len(now) = 1) /\ UNCHANGED <<camera, gesture, ghost>>
    <2> HIDE DEF now
    <2>1. TouchTypes'
      BY <1>1, <1>2, <1>7 DEF ViewInv, ViewTypes, TouchTypes
    <2>2. GestureInv' /\ Follows
      BY <1>1, <1>2, <1>3, <1>7 DEF ViewInv, GestureInv, Follows, FollowsPointer
    <2> QED
      BY <1>1, <1>7, <2>1, <2>2, InputStep
  <1> QED
    BY <1>4, <1>5, <1>6, <1>7

LEMMA TouchEndStep ==
  ASSUME ViewInv, NEW i \in 1 .. 3, NEW click \in BOOLEAN, TouchEnd(i, click)
  PROVE  ViewInv' /\ Follows
  <1>0. /\ view.x \in Int /\ gesture \in Gesture /\ pointers \in Seq(Int)
    BY DEF ViewInv, ViewTypes, CameraTypes, TouchTypes, View
  <1>1. /\ Input /\ i \in DOMAIN pointers /\ UNCHANGED camera
        /\ pointers' = Without(i)
        /\ IF pointers' = <<>>
           THEN /\ gesture' = [gesture EXCEPT !.dragging = FALSE, !.pinching = FALSE,
                                              !.dragged = @ /\ ~click]
                /\ UNCHANGED ghost
           ELSE IF Len(pointers') = 1 /\ gesture.pinching
           THEN /\ gesture' = HandedOver(gesture, pointers'[1])
                /\ ghost' = [ghost EXCEPT !.disturbed = FALSE]
           ELSE UNCHANGED <<gesture, ghost>>
    BY DEF TouchEnd
  <1>2. pointers' \in Seq(Int) /\ Len(pointers') = Len(pointers) - 1
    BY <1>0, <1>1, Withouts
  <1>3. Len(pointers) \in Nat /\ pointers # <<>> /\ Len(pointers') \in Nat
    BY <1>0, <1>1, <1>2
  <1>4. Follows
    BY <1>2 DEF Follows, FollowsPointer
  <1>5. CASE pointers' = <<>>
    <2>1. Len(pointers') = 0
      BY <1>5
    <2>2. gesture' \in Gesture /\ ~gesture'.dragging /\ UNCHANGED ghost
      BY <1>0, <1>1, <1>5 DEF Gesture
    <2>3. TouchTypes'
      BY <1>2, <2>2 DEF ViewInv, ViewTypes, TouchTypes
    <2>4. GestureInv'
      BY <1>5, <2>1, <2>2 DEF GestureInv
    <2> QED
      BY <1>1, <1>4, <2>3, <2>4, InputStep
  <1>6. CASE pointers' # <<>> /\ Len(pointers') = 1 /\ gesture.pinching
    <2> DEFINE q == pointers'[1]
               start == q - view.x
    <2>1. q \in Int
      BY <1>2, <1>6
    <2>2. start \in Int
      BY <1>0, <2>1
    <2>3. /\ gesture' = [gesture EXCEPT !.pinching = FALSE, !.dragging = TRUE,
                                        !.startX = start, !.startClient = q]
          /\ ghost' = [ghost EXCEPT !.disturbed = FALSE]
      BY <1>1, <1>6 DEF HandedOver, Anchored
    <2> HIDE DEF q, start
    <2>4. /\ gesture' \in Gesture /\ gesture'.dragged = gesture.dragged
          /\ gesture'.startX = start
      BY <1>0, <2>1, <2>2, <2>3 DEF Gesture
    <2>5. /\ ghost' \in [device : {"none", "mouse", "touch"}, strayed : BOOLEAN, disturbed : BOOLEAN]
          /\ ghost'.strayed = ghost.strayed
      BY <2>3 DEF ViewInv, ViewTypes, TouchTypes
    <2>6. view' = view /\ view.x = q - start
      BY <1>0, <1>1, <2>1 DEF camera, start
    <2>7. GestureInv'
      BY <1>3, <1>6, <2>4, <2>5, <2>6 DEF GestureInv, ViewInv, q
    <2>8. TouchTypes'
      BY <1>2, <2>4, <2>5 DEF TouchTypes
    <2> QED
      BY <1>1, <1>4, <2>7, <2>8, InputStep
  <1>7. CASE pointers' # <<>> /\ ~(Len(pointers') = 1 /\ gesture.pinching)
    <2>1. UNCHANGED <<gesture, ghost>>
      BY <1>1, <1>7
    <2>2. Len(pointers') # 0
      BY <1>2, <1>7
    <2>3. Len(pointers) >= 2
      BY <1>2, <1>3, <2>2
    <2>4. gesture.pinching /\ ~gesture.dragging /\ (gesture.dragged <=> ghost.strayed)
      BY <1>3, <2>3 DEF ViewInv, GestureInv
    <2>5. GestureInv'
      BY <2>1, <2>4 DEF GestureInv
    <2>6. TouchTypes'
      BY <1>2, <2>1 DEF ViewInv, ViewTypes, TouchTypes
    <2> QED
      BY <1>1, <1>4, <2>5, <2>6, InputStep
  <1> QED
    BY <1>5, <1>6, <1>7

LEMMA GestureSteps ==
  ASSUME ViewInv, Gestures
  PROVE  ViewInv' /\ Follows
  <1>1. CASE \E p \in Points :
               \/ MouseDown(p) \/ MouseMove(p) \/ TouchStart(p)
               \/ \E i \in 1..3 : TouchMove(i, p)
               \/ \E factor \in {50, 200} : Wheel(p, factor)
    <2>1. PICK p \in Points :
               \/ MouseDown(p) \/ MouseMove(p) \/ TouchStart(p)
               \/ \E i \in 1..3 : TouchMove(i, p)
               \/ \E factor \in {50, 200} : Wheel(p, factor)
      BY <1>1
    <2>2. CASE MouseDown(p) \/ MouseMove(p)
      BY <2>2, MouseSteps
    <2> QED
      BY <2>1, <2>2, TouchStartStep, TouchMoveStep, WheelStep
  <1>2. CASE MouseRelease \/ \E held \in BOOLEAN : MouseLeave(held)
    BY <1>2, MouseEnds
  <1> QED
    BY <1>1, <1>2, TouchEndStep DEF Gestures

-----------------------------------------------------------------------------
(* The camera: animations                                                  *)
LEMMA AnimatesStep ==
  ASSUME ViewInv, NEW f \in Focus, Change, Animates(f)
  PROVE  ViewInv'
  <1>1. frames \ {animation} = {}
    BY DEF ViewInv, PageInv
  <1>2. /\ mounted /\ frames' = {f} /\ animation' = f
        /\ UNCHANGED <<camera, touching, place>>
        /\ budget' = [budget EXCEPT !.changes = @ - 1] /\ budget.changes > 0
    BY <1>1 DEF Animates, Requested, Change
  <1>3. f # None
    BY DEF Focus, None
  <1>4. CameraTypes' /\ TouchTypes'
    BY <1>2 DEF camera, touching, ViewInv, ViewTypes, CameraTypes, TouchTypes
  <1>5. PlaceTypes'
    BY <1>2 DEF place, ViewInv, ViewTypes, PlaceTypes
  <1>6. PageInv'
    BY <1>2, <1>3 DEF camera, place, ViewInv, PageInv, Labelled
  <1>7. GestureInv'
    BY <1>2 DEF camera, touching, ViewInv, GestureInv
  <1> QED
    BY <1>4, <1>5, <1>6, <1>7 DEF ViewInv, ViewTypes

LEMMA FocusTypes ==
  ASSUME ViewInv, NEW kind \in {"to", "zoom"}, NEW target \in Int, NEW s \in Scales
  PROVE  [kind |-> kind, start |-> view, rect |-> layout, target |-> target,
          scale |-> s, half |-> FALSE] \in Focus
  BY DEF ViewInv, ViewTypes, CameraTypes, PlaceTypes, Focus

LEMMA FocusingStarts ==
  ASSUME ViewInv, NEW x \in Targets, CenterOnChain(x) \/ CenterOnProvider(x)
  PROVE  ViewInv'
  <1>0. layout \in Layout /\ nodes.now \in BOOLEAN /\ x \in Int
    BY ViewportAssumption DEF ViewInv, ViewTypes, PlaceTypes
  <1>1. ASSUME NEW zoom \in {125, 140}, NEW factor \in {20, 26}, AnimateTo(x, zoom, factor)
        PROVE  ViewInv'
    <2>1. FocusScale(zoom, factor) \in Scales
      BY <1>0, Focuses DEF MaxScale
    <2> QED
      BY <1>0, <1>1, <2>1, FocusTypes, AnimatesStep DEF AnimateTo
  <1> QED
    BY <1>1 DEF CenterOnChain, CenterOnProvider

LEMMA ZoomOutStep ==
  ASSUME ViewInv, ZoomOut
  PROVE  ViewInv'
  <1> DEFINE target == ((Middle(Box) - view.x) * 100) \div view.scale
             f == [kind |-> "zoom", start |-> view, rect |-> layout, target |-> target,
                   scale |-> 100, half |-> FALSE]
  <1>1. Middle(Box) \in Int
    BY Layouts, Middles DEF Box, ViewInv, ViewTypes, PlaceTypes
  <1>2. view.x \in Int /\ view.scale \in Nat \ {0}
    BY DEF ViewInv, ViewTypes, CameraTypes, View, Scales, MinScale, MaxScale
  <1>3. (Middle(Box) - view.x) * 100 \in Int
    BY <1>1, <1>2
  <1>4. target \in Int
    BY <1>2, <1>3, Quotient
  <1>5. 100 \in Scales
    BY DEF Scales, MinScale, MaxScale
  <1>6. Change /\ Animates(f)
    BY DEF ZoomOut
  <1> HIDE DEF target
  <1>7. f \in Focus
    BY <1>4, <1>5, FocusTypes
  <1> HIDE DEF f
  <1> QED
    BY <1>6, <1>7, AnimatesStep

(* A frame of the animation moves the view to where it then is.            *)
LEMMA AnimateStep ==
  ASSUME ViewInv, NEW f \in frames, Animate(f)
  PROVE  ViewInv' /\ view' = Animated(f)
  <1>0. /\ layout \in Layout /\ f \in Focus /\ labels \in BOOLEAN /\ canvas \in Canvas
        /\ frames = {f} /\ animation = f
    BY DEF ViewInv, ViewTypes, CameraTypes, PlaceTypes, PageInv
  <1>1. /\ Moves(Animated(f)) /\ ghost' = [ghost EXCEPT !.disturbed = TRUE]
        /\ UNCHANGED <<gesture, pointers, place, budget>>
    BY DEF Animate, Disturb
  <1>2. Moved(canvas) /\ view' = Animated(f)
    <2> DEFINE v == Animated(f)
    <2>1. v \in View
      BY <1>0, Animations
    <2>2. Moves(v)
      BY <1>1
    <2> HIDE DEF v
    <2>3. Moved(canvas) /\ view' = v
      BY <1>0, <2>1, <2>2, MovesStep DEF Moves
    <2> QED
      BY <2>3 DEF v
  <1> DEFINE next == [f EXCEPT !.half = TRUE]
  <1>3. next \in Focus /\ next # None
    <2>1. next \in Focus
      BY <1>0 DEF Focus
    <2> HIDE DEF next
    <2> QED
      BY <2>1 DEF Focus, None
  <1>4. \/ frames' = {} /\ animation' = None
        \/ frames' = {next} /\ animation' = next
    BY <1>0 DEF Animate
  <1> HIDE DEF next
  <1>5. /\ frames' \subseteq Focus
        /\ frames' = IF animation' = None THEN {} ELSE {animation'}
    BY <1>3, <1>4
  <1>6. CameraTypes' /\ PageInv'
    BY <1>1, <1>2, <1>5 DEF Moved, place, ViewInv, ViewTypes, CameraTypes, PageInv, Labelled
  <1>7. PlaceTypes'
    BY <1>1, <1>5 DEF place, ViewInv, ViewTypes, PlaceTypes
  <1>8. TouchTypes' /\ ghost'.disturbed /\ ghost'.strayed = ghost.strayed
    BY <1>1 DEF ViewInv, ViewTypes, TouchTypes
  <1>9. GestureInv'
    BY <1>1, <1>8 DEF ViewInv, GestureInv
  <1> QED
    BY <1>2, <1>6, <1>7, <1>8, <1>9 DEF ViewInv, ViewTypes

-----------------------------------------------------------------------------
(* The camera: framing, patches and the life of the hook                   *)
LEMMA MountStep ==
  ASSUME ViewInv, Mount
  PROVE  ViewInv'
  <1>0. /\ layout \in Layout /\ nodes \in [now : BOOLEAN, had : BOOLEAN]
        /\ shown \in View \cup {NoFrame} /\ layout.width \in Nat
    BY Layouts DEF ViewInv, ViewTypes, CameraTypes, PlaceTypes
  <1>1. /\ mounted' /\ labels' = FALSE /\ nodes' = [nodes EXCEPT !.had = nodes.now]
        /\ framing' = [retries |-> IF layout.width > 0 THEN 0 ELSE 2, observing |-> WatchesSize, seen |-> 0]
        /\ gesture' = NoGesture /\ pointers' = <<>> /\ ghost' = Unpressed
        /\ UNCHANGED <<layout, moving, budget>> /\ mounted' = TRUE
    BY DEF Mount
  <1>2. /\ view' \in View /\ shown' \in View \cup {NoFrame} /\ (shown' # NoFrame => shown' = view')
        /\ canvas' \in Canvas /\ canvas'.listening /\ framed' \in BOOLEAN
    <2>1. CASE layout.width > 0
      <3>1. /\ view' = Centred(nodes.now) /\ shown' = view' /\ framed' = TRUE
            /\ canvas' = [labels |-> TRUE, listening |-> TRUE]
        BY <2>1 DEF Mount
      <3>2. nodes.now \in BOOLEAN
        BY <1>0
      <3>3. Centred(nodes.now) \in View
        BY <1>0, <3>2, Centres
      <3> QED
        BY <3>1, <3>3 DEF Canvas
    <2>2. CASE ~(layout.width > 0)
      <3>1. /\ view' = IF shown = NoFrame THEN [x |-> 0, scale |-> 100] ELSE shown
            /\ canvas' = [labels |-> FALSE, listening |-> TRUE] /\ UNCHANGED shown
            /\ framed' = (framed /\ shown # NoFrame)
        BY <2>2 DEF Mount
      <3>2. [x |-> 0, scale |-> 100] \in View
        BY DEF View, Scales, MinScale, MaxScale
      <3>3. canvas' \in Canvas /\ canvas'.listening
        BY <3>1 DEF Canvas
      <3> QED
        BY <1>0, <3>1, <3>2, <3>3
    <2> QED
      BY <2>1, <2>2
  <1>3. CameraTypes'
    BY <1>1, <1>2 DEF CameraTypes
  <1>4. TouchTypes'
    <2>1. NoGesture \in Gesture
      BY DEF NoGesture, Gesture, Scales, MinScale, MaxScale
    <2>2. pointers' \in Seq(Int)
      BY <1>1
    <2> QED
      BY <1>1, <2>1, <2>2 DEF TouchTypes, Unpressed
  <1>5. PlaceTypes'
    <2>1. framing' \in [retries : Nat, observing : BOOLEAN, seen : Nat] /\ framing'.seen = 0
      BY <1>1 DEF WatchesSize
    <2>2. nodes' \in [now : BOOLEAN, had : BOOLEAN]
      BY <1>0, <1>1
    <2> QED
      BY <1>1, <1>2, <2>1, <2>2 DEF moving, ViewInv, ViewTypes, PlaceTypes
  <1>6. PageInv'
    <2>1. framing'.seen = 0
      BY <1>1
    <2> QED
      BY <1>1, <1>2, <2>1 DEF moving, ViewInv, PageInv
  <1>7. GestureInv'
    <2>1. Len(pointers') = 0 /\ pointers' = <<>>
      BY <1>1
    <2> QED
      BY <2>1 DEF GestureInv
  <1> QED
    BY <1>3, <1>4, <1>5, <1>6, <1>7 DEF ViewInv, ViewTypes

(* centerCanvas, of the canvas or of one that took its place.              *)
LEMMA CenterStep ==
  ASSUME ViewInv, NEW element \in Canvas, NEW present \in BOOLEAN, Center(present, element)
  PROVE  Moved(element) /\ framed' = TRUE
  <1> DEFINE v == Centred(present)
  <1>1. v \in View /\ labels \in BOOLEAN
    BY Centres DEF ViewInv, ViewTypes, CameraTypes, PlaceTypes
  <1>2. MovesOn(v, element) /\ framed' = TRUE
    BY DEF Center
  <1> HIDE DEF v
  <1> QED
    BY <1>1, <1>2, MovesStep

LEMMA Undisturbed ==
  ASSUME ViewInv, UNCHANGED <<gesture, pointers>>,
         \/ ghost' = [ghost EXCEPT !.disturbed = TRUE]
         \/ UNCHANGED ghost /\ view'.x = view.x
  PROVE  TouchTypes' /\ GestureInv'
  <1>1. CASE ghost' = [ghost EXCEPT !.disturbed = TRUE]
    <2>1. TouchTypes' /\ ghost'.disturbed /\ ghost'.strayed = ghost.strayed
      BY <1>1 DEF ViewInv, ViewTypes, TouchTypes
    <2> QED
      BY <2>1 DEF ViewInv, GestureInv
  <1>2. CASE UNCHANGED ghost /\ view'.x = view.x
    BY <1>2 DEF ViewInv, ViewTypes, TouchTypes, GestureInv
  <1> QED
    BY <1>1, <1>2

LEMMA FramingSteps ==
  ASSUME ViewInv, Retry \/ Resized
  PROVE  ViewInv'
  <1>0. /\ layout \in Layout /\ layout.width \in Nat /\ nodes.now \in BOOLEAN /\ canvas \in Canvas
        /\ framing \in [retries : Nat, observing : BOOLEAN, seen : Nat]
    BY Layouts DEF ViewInv, ViewTypes, CameraTypes, PlaceTypes
  <1>1. /\ mounted
        /\ UNCHANGED <<mounted, layout, nodes, gesture, pointers, moving, budget>>
    BY DEF Retry, Resized
  <1>2. \/ Center(nodes.now, canvas) /\ Disturb
        \/ UNCHANGED <<camera, framed, ghost>>
    BY DEF Retry, Resized
  <1>3. /\ framing' \in [retries : Nat, observing : BOOLEAN, seen : Nat]
        /\ framing'.seen > 0 =>
             framing'.seen = framing.seen \/ Center(nodes.now, canvas)
    <2>1. CASE Retry
      <3>1. /\ framing.retries > 0
            /\ \/ framing' = [framing EXCEPT !.retries = 0]
               \/ framing' = [framing EXCEPT !.retries = @ - 1]
        BY <2>1 DEF Retry
      <3> QED
        BY <1>0, <3>1
    <2>2. CASE Resized
      <3>1. /\ framing' = [framing EXCEPT !.seen = layout.width, !.observing = layout.width = 0]
            /\ layout.width > 0 => Center(nodes.now, canvas)
        BY <2>2 DEF Resized
      <3> DEFINE none == layout.width = 0
      <3>2. framing' = [framing EXCEPT !.seen = layout.width, !.observing = none] /\ none \in BOOLEAN
        BY <3>1
      <3> HIDE DEF none
      <3>3. framing' \in [retries : Nat, observing : BOOLEAN, seen : Nat] /\ framing'.seen = layout.width
        BY <1>0, <3>2
      <3> QED
        BY <3>1, <3>3
    <2> QED
      BY <2>1, <2>2
  <1>4. CASE Center(nodes.now, canvas)
    <2>1. Moved(canvas) /\ framed' = TRUE
      BY <1>0, <1>4, CenterStep
    <2>2. CameraTypes' /\ PageInv'
      BY <1>1, <2>1 DEF Moved, moving, ViewInv, ViewTypes, CameraTypes, PageInv, Labelled
    <2>3. PlaceTypes'
      BY <1>1, <1>3, <2>1 DEF moving, ViewInv, ViewTypes, PlaceTypes
    <2>4. TouchTypes' /\ GestureInv'
      BY <1>1, <1>4, <1>2, Undisturbed DEF Disturb, camera
    <2> QED
      BY <2>2, <2>3, <2>4 DEF ViewInv, ViewTypes
  <1>5. CASE UNCHANGED <<camera, framed, ghost>> /\ ~Center(nodes.now, canvas)
    <2>1. CameraTypes' /\ PageInv'
      BY <1>1, <1>3, <1>5 DEF camera, moving, ViewInv, ViewTypes, CameraTypes, PageInv, Labelled
    <2>2. PlaceTypes'
      BY <1>1, <1>3, <1>5 DEF moving, ViewInv, ViewTypes, PlaceTypes
    <2>3. TouchTypes' /\ GestureInv'
      BY <1>1, <1>5, Undisturbed DEF camera
    <2> QED
      BY <2>1, <2>2, <2>3 DEF ViewInv, ViewTypes
  <1> QED
    BY <1>2, <1>4, <1>5

LEMMA RelayoutStep ==
  ASSUME ViewInv, NEW width \in Widths, NEW p \in Panels, Relayout(width, p)
  PROVE  ViewInv'
  <1>1. /\ layout' = [width |-> width, panel |-> p]
        /\ budget' = [budget EXCEPT !.changes = @ - 1] /\ budget.changes > 0
        /\ UNCHANGED <<mounted, framed, nodes, framing, camera, touching, moving>>
    BY DEF Relayout, Change
  <1>2. layout' \in Layout
    BY <1>1 DEF Layout
  <1>3. CameraTypes' /\ TouchTypes' /\ PageInv' /\ GestureInv'
    BY <1>1 DEF camera, touching, moving, ViewInv, ViewTypes, CameraTypes, TouchTypes,
                PageInv, Labelled, GestureInv
  <1>4. PlaceTypes'
    BY <1>1, <1>2 DEF moving, ViewInv, ViewTypes, PlaceTypes
  <1> QED
    BY <1>3, <1>4 DEF ViewInv, ViewTypes

LEMMA PatchStep ==
  ASSUME ViewInv, NEW replaced \in BOOLEAN, NEW present \in BOOLEAN, Patch(replaced, present)
  PROVE  ViewInv'
  <1> DEFINE element == Reattached(replaced)
  <1>0. canvas \in Canvas /\ view \in View /\ labels \in BOOLEAN
    BY DEF ViewInv, ViewTypes, CameraTypes
  <1>1. /\ mounted /\ nodes' = [now |-> present, had |-> present]
        /\ budget' = [budget EXCEPT !.changes = @ - 1] /\ budget.changes > 0
        /\ UNCHANGED <<mounted, layout, framing, gesture, pointers, moving>>
        /\ \/ Center(present, element) /\ Disturb
           \/ MovesOn(view, element) /\ UNCHANGED <<framed, ghost>>
    BY DEF Patch, Change
  <1>2. element \in Canvas /\ (canvas.listening => element.listening)
    BY <1>0 DEF Reattached, Canvas
  <1> HIDE DEF element
  <1>3. Moved(element) /\ framed' \in BOOLEAN
    <2>1. CASE Center(present, element)
      BY <1>2, <2>1, CenterStep
    <2>2. CASE MovesOn(view, element) /\ UNCHANGED framed
      BY <1>0, <1>2, <2>2, MovesStep DEF ViewInv, ViewTypes, PlaceTypes
    <2> QED
      BY <1>1, <2>1, <2>2
  <1>4. TouchTypes' /\ GestureInv'
    <2>1. CASE MovesOn(view, element) /\ UNCHANGED ghost
      BY <1>1, <2>1, Undisturbed DEF MovesOn
    <2>2. CASE Disturb
      BY <1>1, <2>2, Undisturbed DEF Disturb
    <2> QED
      BY <1>1, <2>1, <2>2
  <1>5. CameraTypes' /\ PageInv'
    BY <1>1, <1>2, <1>3 DEF Moved, moving, ViewInv, ViewTypes, CameraTypes, PageInv, Labelled
  <1>6. PlaceTypes'
    BY <1>1, <1>3 DEF moving, ViewInv, ViewTypes, PlaceTypes
  <1> QED
    BY <1>4, <1>5, <1>6 DEF ViewInv, ViewTypes

LEMMA DestroyStep ==
  ASSUME ViewInv, Destroy
  PROVE  ViewInv'
  <1>1. /\ mounted' = FALSE /\ frames' = frames \ {animation} /\ animation' = None
        /\ framing' = [framing EXCEPT !.retries = 0, !.observing = FALSE]
        /\ budget' = [budget EXCEPT !.changes = @ - 1] /\ budget.changes > 0
        /\ UNCHANGED <<camera, touching, framed, layout, nodes>>
    BY DEF Destroy, Change
  <1>2. frames' = {}
    BY <1>1 DEF ViewInv, PageInv
  <1>3. CameraTypes' /\ TouchTypes' /\ GestureInv'
    BY <1>1 DEF camera, touching, ViewInv, ViewTypes, CameraTypes, TouchTypes, GestureInv
  <1>4. PageInv'
    BY <1>1, <1>2 DEF PageInv
  <1>5. PlaceTypes'
    <2>1. framing' \in [retries : Nat, observing : BOOLEAN, seen : Nat]
      BY <1>1 DEF ViewInv, ViewTypes, PlaceTypes
    <2>2. budget' \in [inputs : Nat, changes : Nat]
      BY <1>1 DEF ViewInv, ViewTypes, PlaceTypes
    <2> QED
      BY <1>1, <1>2, <2>1, <2>2 DEF ViewInv, ViewTypes, PlaceTypes
  <1> QED
    BY <1>3, <1>4, <1>5 DEF ViewInv, ViewTypes

-----------------------------------------------------------------------------
(* The camera: the invariant, and what follows from it                     *)
LEMMA ViewInitially == ViewInit => ViewInv
  <1> SUFFICES ASSUME ViewInit PROVE ViewInv
    OBVIOUS
  <1>1. view \in View /\ NoGesture \in Gesture
    BY DEF ViewInit, View, NoGesture, Gesture, Scales, MinScale, MaxScale
  <1>2. CameraTypes
    BY <1>1 DEF ViewInit, CameraTypes, Canvas
  <1>3. pointers \in Seq(Int) /\ Len(pointers) = 0
    BY DEF ViewInit
  <1>4. TouchTypes
    BY <1>1, <1>3 DEF ViewInit, TouchTypes, Unpressed
  <1>5. PlaceTypes
    <2>1. layout \in Layout /\ nodes \in [now : BOOLEAN, had : BOOLEAN]
      BY DEF ViewInit, Layout
    <2>2. framing \in [retries : Nat, observing : BOOLEAN, seen : Nat]
      BY DEF ViewInit
    <2>3. budget \in [inputs : Nat, changes : Nat]
      BY ViewportAssumption DEF ViewInit
    <2> QED
      BY <2>1, <2>2, <2>3 DEF ViewInit, PlaceTypes
  <1>6. PageInv
    BY DEF ViewInit, PageInv
  <1>7. GestureInv
    BY <1>3 DEF ViewInit, GestureInv
  <1> QED
    BY <1>2, <1>4, <1>5, <1>6, <1>7 DEF ViewInv, ViewTypes

LEMMA ViewNextStep ==
  ASSUME ViewInv, [ViewNext]_viewVars
  PROVE  ViewInv'
  <1>1. CASE Focusing
    <2>1. CASE \E x \in Targets : CenterOnChain(x) \/ CenterOnProvider(x)
      BY <2>1, FocusingStarts
    <2>2. CASE ZoomOut
      BY <2>2, ZoomOutStep
    <2>3. CASE \E f \in frames : Animate(f)
      BY <2>3, AnimateStep
    <2> QED
      BY <1>1, <2>1, <2>2, <2>3 DEF Focusing
  <1>2. CASE Changing
    BY <1>2, RelayoutStep, PatchStep, DestroyStep DEF Changing
  <1>3. CASE UNCHANGED viewVars
    BY <1>3 DEF viewVars, camera, touching, moving, place, ViewInv, ViewTypes, CameraTypes,
                TouchTypes, PlaceTypes, PageInv, Labelled, GestureInv
  <1> QED
    BY <1>1, <1>2, <1>3, MountStep, FramingSteps, GestureSteps DEF ViewNext

(* Only the events of pointers and wheel use their budget.                 *)
LEMMA OtherSteps ==
  ASSUME ViewInv, ViewNext, ~Gestures
  PROVE  budget'.inputs = budget.inputs
  <1>1. budget \in [inputs : Nat, changes : Nat]
    BY DEF ViewInv, ViewTypes, PlaceTypes
  <1>2. CASE Change
    BY <1>1, <1>2 DEF Change
  <1>3. CASE UNCHANGED budget
    BY <1>3
  <1>4. Change \/ UNCHANGED budget
    BY DEF ViewNext, Focusing, Changing, Mount, Retry, Resized, CenterOnChain, CenterOnProvider,
           AnimateTo, ZoomOut, Animate, Relayout, Patch, Destroy
  <1> QED
    BY <1>2, <1>3, <1>4

(* The page shows what the hook believes, whatever patches, zooms,         *)
(* animations and mounts come in between (DraggableNetworkViewport).       *)
THEOREM PageInStep == ViewSpec => []ViewInStep
  <1>1. ViewInv => ViewInStep
    <2> SUFFICES ASSUME ViewInv PROVE ViewInStep
      OBVIOUS
    <2>1. view.scale \in MinScale .. MaxScale
      BY DEF ViewInv, ViewTypes, CameraTypes, View, Scales
    <2>2. frames = IF animation = None THEN {} ELSE {animation}
      BY DEF ViewInv, PageInv
    <2>3. Cardinality(frames) <= 1
      <3>1. Cardinality({}) = 0 /\ Cardinality({animation}) = 1
        BY FS_EmptySet, FS_Singleton
      <3>2. frames \in {{}, {animation}}
        BY <2>2
      <3> QED
        BY <3>1, <3>2
    <2>4. /\ mounted /\ shown # NoFrame => shown = view
          /\ mounted => canvas.listening
      BY DEF ViewInv, PageInv
    <2>5. mounted /\ framing.seen = layout.width /\ layout.width > 0 => Labelled
      BY DEF ViewInv, PageInv
    <2> QED
      BY <2>1, <2>2, <2>3, <2>4, <2>5 DEF ViewInStep, Labelled
  <1> QED
    BY <1>1, ViewInitially, ViewNextStep, PTL DEF ViewSpec

(* A press that strayed is no click, and a finger or the mouse keeps its   *)
(* point of the canvas (handleMouseMove, handleTouchMove, handleTouchEnd). *)
THEOREM GesturesKeepTheirPoint == ViewSpec => GesturesHold
  <1> DEFINE Keeps == /\ Clicked => (gesture.dragged <=> ghost.strayed)
                      /\ FollowsPointer => view'.x - view.x = pointers'[1] - pointers[1]
  <1>1. ViewInv /\ [ViewNext]_viewVars => [Keeps]_viewVars
    <2> SUFFICES ASSUME ViewInv, ViewNext PROVE Keeps
      OBVIOUS
    <2>1. Clicked => pointers # <<>>
      BY DEF Clicked, MouseRelease, TouchEnd
    <2>2. Clicked => (gesture.dragged <=> ghost.strayed)
      BY <2>1 DEF ViewInv, GestureInv
    <2>3. CASE Gestures
      BY <2>2, <2>3, GestureSteps DEF Follows
    <2>4. CASE ~Gestures
      BY <2>2, <2>4, OtherSteps DEF FollowsPointer
    <2> QED
      BY <2>3, <2>4
  <1>2. [ViewNext]_viewVars /\ ViewInv => ViewInv'
    BY ViewNextStep
  <1>3. GesturesHold <=> [][Keeps]_viewVars
    BY DEF GesturesHold
  <1> QED
    BY <1>1, <1>2, <1>3, ViewInitially, PTL DEF ViewSpec

(* Where a target comes to rest lies in the part of the viewport that the  *)
(* details panel leaves.                                                   *)
LEMMA OpenGround ==
  ASSUME layout \in Layout, layout.width > 0
  PROVE  LET x == Middle(Box)
         IN /\ Box.left <= x /\ x <= Box.right
            /\ Behind(layout.panel, x) =>
                 Box.bottom <= layout.panel.top \/ layout.panel.bottom <= Box.top
  <1> DEFINE p == layout.panel
             w == layout.width
  <1>1. w \in Nat /\ w > 0 /\ p \in Rectangle
    BY Layouts
  <1>2. /\ p.left \in Int /\ p.right \in Int /\ p.top \in Int /\ p.bottom \in Int /\ Height \in Nat \ {0}
    BY <1>1, ViewportAssumption DEF Rectangle
  <1>3. p = NoPanel \/ (p.left < p.right /\ p.top < p.bottom /\ (p.top > 0 \/ p.bottom < Height))
    BY PanelAssumption DEF Layout
  <1>4. Box = VisibleBox(w, p)
    BY DEF Box
  <1> HIDE DEF p, w
  <1>5. CASE p = NoPanel
    <2>1. Box = [left |-> 0, top |-> 0, right |-> w, bottom |-> Height]
      BY <1>4, <1>5 DEF VisibleBox, NoPanel
    <2> QED
      BY <1>1, <1>5, <2>1 DEF Middle, Behind, p
  <1>6. CASE p # NoPanel /\ 10 * (p.right - p.left) >= 9 * w
    <2>1. Box.left = 0 /\ Box.right = w
      BY <1>1, <1>2, <1>3, <1>4, <1>6 DEF VisibleBox
    <2>2. Box.bottom <= p.top \/ p.bottom <= Box.top
      <3>1. CASE Height - p.bottom <= p.top
        <4>1. Box.bottom = Larger(1, p.top)
          BY <1>2, <1>3, <1>4, <1>6, <3>1 DEF VisibleBox
        <4> QED
          BY <1>2, <1>3, <1>6, <3>1, <4>1 DEF Larger
      <3>2. CASE ~(Height - p.bottom <= p.top)
        <4>1. Box.top = Smaller(Height - 1, p.bottom)
          BY <1>2, <1>3, <1>4, <1>6, <3>2 DEF VisibleBox
        <4> QED
          BY <1>2, <1>3, <1>6, <3>2, <4>1 DEF Smaller
      <3> QED
        BY <3>1, <3>2
    <2> QED
      BY <1>1, <2>1, <2>2 DEF Middle, p
  <1>7. CASE p # NoPanel /\ ~(10 * (p.right - p.left) >= 9 * w)
    <2>1. CASE w - p.right <= p.left
      <3>1. Box.left = 0 /\ Box.right = Larger(1, p.left)
        BY <1>1, <1>2, <1>3, <1>4, <1>7, <2>1 DEF VisibleBox
      <3>2. ~Behind(p, Middle(Box))
        BY <1>1, <1>2, <1>3, <1>7, <2>1, <3>1 DEF Middle, Larger, Behind
      <3> QED
        BY <1>2, <3>1, <3>2 DEF Middle, Larger, p
    <2>2. CASE ~(w - p.right <= p.left)
      <3>1. Box.left = Smaller(w - 1, p.right) /\ Box.right = w
        BY <1>1, <1>2, <1>3, <1>4, <1>7, <2>2 DEF VisibleBox
      <3>2. ~Behind(p, Middle(Box))
        BY <1>1, <1>2, <1>3, <1>7, <2>2, <3>1 DEF Middle, Smaller, Behind
      <3> QED
        BY <1>1, <1>2, <3>1, <3>2 DEF Middle, Smaller, p
    <2> QED
      BY <2>1, <2>2
  <1> QED
    BY <1>5, <1>6, <1>7

LEMMA GesturesMoveNoFrames == Gestures => UNCHANGED frames
  BY DEF Gestures, MouseDown, MouseMove, TouchStart, TouchMove, Wheel, MouseRelease, MouseLeave,
         TouchEnd, Input, moving

(* The last frame aims at the anchor of the layout as it then is.          *)
LEMMA LastFrame ==
  ASSUME layout \in Layout, NEW f \in Focus, f.kind = "to", f.half
  PROVE  OnScreen(f.target, Animated(f)) = Middle(Box)
  <1> DEFINE a == Anchor(f)
             point == (f.target * f.scale) \div 100
  <1>1. a = Middle(Box)
    BY DEF Anchor, Box
  <1>2. a \in Int
    BY Animations
  <1>3. point \in Int
    <2>1. f.target \in Int /\ f.scale \in Int
      BY DEF Focus, Scales, MinScale, MaxScale
    <2>2. f.target * f.scale \in Int
      BY <2>1
    <2> QED
      BY <2>2, Quotient
  <1>4. Animated(f) = [x |-> a - point, scale |-> f.scale]
    BY DEF Animated, Eased, Aimed
  <1>5. OnScreen(f.target, Animated(f)) = (a - point) + point
    BY <1>4 DEF OnScreen
  <1> HIDE DEF a, point
  <1> QED
    BY <1>1, <1>2, <1>3, <1>5

(* The last frame towards a chain or provider shows it in the open, where  *)
(* the panel is then (animateTo, getViewportAnchor).                       *)
THEOREM FocusIsInTheOpen == ViewSpec => FocusEndsInTheOpen
  <1> DEFINE InTheOpen == \A f \in frames :
               f.kind = "to" /\ f.half /\ frames' = {} /\ mounted' /\ layout.width > 0 =>
                 LET x == OnScreen(f.target, view')
                 IN /\ Box.left <= x /\ x <= Box.right
                    /\ Behind(layout.panel, x) =>
                         Box.bottom <= layout.panel.top \/ layout.panel.bottom <= Box.top
  <1>1. ViewInv /\ [ViewNext]_viewVars => [InTheOpen]_viewVars
    <2> SUFFICES ASSUME ViewInv, ViewNext, NEW f \in frames,
                        f.kind = "to", f.half, frames' = {}, mounted', layout.width > 0
                 PROVE  LET x == OnScreen(f.target, view')
                        IN /\ Box.left <= x /\ x <= Box.right
                           /\ Behind(layout.panel, x) =>
                                Box.bottom <= layout.panel.top \/ layout.panel.bottom <= Box.top
      OBVIOUS
    <2>1. layout \in Layout /\ f \in Focus /\ frames = {f}
      BY DEF ViewInv, ViewTypes, PlaceTypes, PageInv
    <2>2. Animate(f)
      <3>1. frames' # frames
        BY <2>1
      <3>2. ~Gestures /\ ~Mount /\ ~Retry /\ ~Resized
        BY <3>1, GesturesMoveNoFrames DEF Mount, Retry, Resized, moving
      <3>3. ~Changing
        BY <3>1 DEF Changing, Relayout, Patch, Destroy, moving
      <3>4. Focusing
        BY <3>2, <3>3 DEF ViewNext
      <3>5. ASSUME NEW g, Animates(g) PROVE FALSE
        BY <3>5 DEF Animates, Requested
      <3>6. ~ZoomOut /\ \A x \in Targets : ~CenterOnChain(x) /\ ~CenterOnProvider(x)
        BY <3>5 DEF ZoomOut, CenterOnChain, CenterOnProvider, AnimateTo
      <3> QED
        BY <2>1, <3>4, <3>6 DEF Focusing
    <2>3. OnScreen(f.target, view') = Middle(Box)
      BY <2>1, <2>2, AnimateStep, LastFrame
    <2> QED
      BY <2>1, <2>3, OpenGround
  <1>2. [ViewNext]_viewVars /\ ViewInv => ViewInv'
    BY ViewNextStep
  <1>3. FocusEndsInTheOpen <=> [][InTheOpen]_viewVars
    BY DEF FocusEndsInTheOpen
  <1> QED
    BY <1>1, <1>2, <1>3, ViewInitially, PTL DEF ViewSpec

-----------------------------------------------------------------------------
(* The endpoint box                                                        *)

(* All the box shows is drawn from one selection: that of the panel, with  *)
(* the strategy last chosen.                                               *)
Drawn ==
  /\ chosen \in Strategies
  /\ selected = [chain |-> panel.chain, profile |-> panel.profile, strategy |-> chosen]
  /\ buttons = [s \in Strategies |-> IF s = chosen THEN "active" ELSE "inactive"]
  /\ urls = Urls(<<panel.profile, chosen, panel.chain>>)
  /\ blurb = chosen

BoxInv == panel # Closed => Drawn

LEMMA OpenDraws ==
  ASSUME NEW profile \in BoxProfiles, NEW chain \in BoxChains,
         OpenPanel([profile |-> profile, chain |-> chain])
  PROVE  BoxInv'
  <1> DEFINE sel == Detected(FromDataset(NoSelection, panel'), Inactive)
  <1>1. panel' = [profile |-> profile, chain |-> chain] /\ chosen' = LoadBalanced
    BY DEF OpenPanel
  <1>2. {s \in Strategies : Inactive[s] = "active"} = {}
    BY DEF Inactive
  <1>3. sel = [chain |-> chain, profile |-> profile, strategy |-> LoadBalanced]
    BY <1>1, <1>2 DEF Detected, FromDataset, NoSelection
  <1>4. UpdateUI(sel)
    BY <1>1 DEF OpenPanel
  <1> QED
    BY <1>1, <1>3, <1>4, SelectorAssumption DEF UpdateUI, Endpoint, BoxInv, Drawn

LEMMA SwitchDraws ==
  ASSUME BoxInv, NEW profile \in BoxProfiles, SwitchPanel(profile)
  PROVE  BoxInv'
  <1> DEFINE sel == Detected(FromDataset(selected, panel'), buttons)
             active == {s \in Strategies : buttons[s] = "active"}
  <1>1. panel # Closed /\ panel' = [panel EXCEPT !.profile = profile] /\ chosen' = chosen
    BY DEF SwitchPanel
  <1>2. Drawn
    BY <1>1 DEF BoxInv
  <1>3. active = {chosen}
    BY <1>2 DEF Drawn
  <1>4. (CHOOSE s \in active : TRUE) = chosen
    BY <1>3
  <1> DEFINE seen == FromDataset(selected, panel')
  <1>5. seen = [chain |-> panel'.chain, profile |-> panel'.profile, strategy |-> chosen]
    <2>1. selected = [chain |-> panel.chain, profile |-> panel.profile, strategy |-> chosen]
      BY <1>2 DEF Drawn
    <2> DEFINE c == panel'.chain
               p == panel'.profile
    <2>2. seen = [selected EXCEPT !.chain = c, !.profile = p]
      BY DEF FromDataset
    <2> HIDE DEF seen, c, p
    <2>3. seen = [chain |-> c, profile |-> p, strategy |-> chosen]
      BY <2>1, <2>2
    <2> QED
      BY <2>3 DEF c, p
  <1>6. sel = [seen EXCEPT !.strategy = chosen]
    BY <1>3, <1>4 DEF Detected
  <1> HIDE DEF seen, active
  <1>7. sel = [chain |-> panel'.chain, profile |-> panel'.profile, strategy |-> chosen]
    BY <1>5, <1>6
  <1>8. UpdateUI(sel)
    BY DEF SwitchPanel
  <1> QED
    BY <1>1, <1>2, <1>7, <1>8 DEF UpdateUI, Endpoint, BoxInv, Drawn

LEMMA SelectDraws ==
  ASSUME BoxInv, NEW s \in Strategies, SelectStrategy(s)
  PROVE  BoxInv'
  <1> DEFINE sel == [selected EXCEPT !.strategy = s]
  <1>1. panel # Closed /\ panel' = panel /\ chosen' = s /\ UpdateUI(sel)
    BY DEF SelectStrategy
  <1>2. sel = [chain |-> panel.chain, profile |-> panel.profile, strategy |-> s]
    BY <1>1 DEF BoxInv, Drawn
  <1> QED
    BY <1>1, <1>2 DEF UpdateUI, Endpoint, BoxInv, Drawn

LEMMA StepDraws ==
  ASSUME BoxInv, [SelectorNext]_selectorVars
  PROVE  BoxInv'
  <1>1. CASE ClosePanel
    BY <1>1 DEF ClosePanel, BoxInv
  <1>2. CASE UNCHANGED selectorVars
    BY <1>2 DEF selectorVars, box, BoxInv, Drawn
  <1> QED
    BY <1>1, <1>2, OpenDraws, SwitchDraws, SelectDraws DEF SelectorNext

(* The box shows, copies, highlights and describes one endpoint, whatever  *)
(* is clicked, switched and opened (EndpointSelector in assets/js/app.js). *)
THEOREM BoxAgrees == SelectorSpec => []EndpointAgrees
  <1>1. SelectorInit => BoxInv
    BY DEF SelectorInit, BoxInv
  <1>2. BoxInv /\ [SelectorNext]_selectorVars => BoxInv'
    BY StepDraws
  <1>3. BoxInv => EndpointAgrees
    <2> SUFFICES ASSUME BoxInv, panel # Closed
                 PROVE  /\ {s \in Strategies : buttons[s] = "active"} = {chosen}
                        /\ blurb = chosen
                        /\ \A row \in DOMAIN urls :
                             urls[row] = <<panel.profile, chosen, panel.chain>>
      BY DEF EndpointAgrees
    <2>1. Drawn
      BY DEF BoxInv
    <2>2. {s \in Strategies : buttons[s] = "active"} = {chosen}
      BY <2>1 DEF Drawn
    <2>3. \A row \in DOMAIN urls : urls[row] = <<panel.profile, chosen, panel.chain>>
      BY <2>1 DEF Drawn, Urls
    <2> QED
      BY <2>1, <2>2, <2>3 DEF Drawn
  <1> QED
    BY <1>1, <1>2, <1>3, PTL DEF SelectorSpec

-----------------------------------------------------------------------------
(* The activity feed: an anchor that is of the time and at the place of the *)
(* top row, for a paused reader who has not scrolled since it was saved.   *)
Row == [nr : Int, time : Times]

FeedInv ==
  /\ rows \in Seq(Row)
  /\ scrollTop \in 0..Lowest(rows)
  /\ follow \in [auto : BOOLEAN, scrolled : BOOLEAN]
  /\ anchor \in [time : Nat, offset : Nat, saved : Nat]
  /\ follow.auto /\ still => scrollTop = 0
  /\ Paused /\ still =>
       anchor = [time |-> TopRow.time, offset |-> scrollTop, saved |-> scrollTop]

LEMMA LowestIs ==
  ASSUME NEW S, NEW list \in Seq(S)
  PROVE  /\ Lowest(list) \in 0..Len(list)
         /\ list # <<>> => Lowest(list) < Len(list)
         /\ \A y \in Int : Within(list, y) \in 0..Lowest(list)
         /\ \A y \in 0..Lowest(list) : Within(list, y) = y
         /\ \A y \in Nat : y > Lowest(list) => Within(list, y) = Lowest(list)
  BY FeedAssumption DEF Lowest, Within

(* querySelector returns the first row of a time. *)
LEMMA FirstIsFound ==
  ASSUME NEW list \in Seq(Row), NEW time, NEW i \in DOMAIN list, IsFirst(list, time, i)
  PROVE  Lists(list, time) /\ Offset(list, time) = i - 1
  <1>1. \A j \in DOMAIN list : IsFirst(list, time, j) => j = i
    <2> SUFFICES ASSUME NEW j \in DOMAIN list, IsFirst(list, time, j) PROVE j = i
      OBVIOUS
    <2>1. i \in Nat /\ j \in Nat
      OBVIOUS
    <2>2. ~ (i < j) /\ ~ (j < i)
      BY DEF IsFirst
    <2> QED
      BY <2>1, <2>2
  <1>2. (CHOOSE j \in DOMAIN list : IsFirst(list, time, j)) = i
    BY <1>1
  <1> QED
    BY <1>2 DEF Lists, Offset

LEMMA PrependedIs ==
  ASSUME rows \in Seq(Row), NEW n \in 1..2, NEW times \in [1..n -> Times]
  PROVE  Prepended(n, times) \in Seq(Row)
  <1> DEFINE top == n + (IF rows = <<>> THEN 0 ELSE rows[1].nr)
             new == Numbered(n, top, times)
             all == new \o rows
             len == IF Len(all) > MaxRows THEN MaxRows ELSE Len(all)
  <1>1. top \in Int
    <2>1. rows # <<>> => rows[1].nr \in Int
      <3>1. rows # <<>> => rows[1] \in Row
        OBVIOUS
      <3> QED
        BY <3>1 DEF Row
    <2> QED
      BY <2>1
  <1> HIDE DEF top
  <1>2. new \in [1..n -> Row]
    BY <1>1 DEF Numbered, Row
  <1> HIDE DEF new
  <1>3. new \in Seq(Row)
    BY <1>2
  <1>4. all \in Seq(Row)
    BY <1>3
  <1> HIDE DEF all
  <1>5. len \in 0..Len(all)
    BY <1>4, FeedAssumption
  <1> HIDE DEF len
  <1>6. SubSeq(all, 1, len) \in Seq(Row)
    BY <1>4, <1>5
  <1> QED
    BY <1>6 DEF Prepended, top, new, all, len

(* The place a paused feed is scrolled to. *)
LEMMA PlaceIs ==
  ASSUME FeedInv, NEW list \in Seq(Row)
  PROVE  Compensated(list, Within(list, scrollTop)) \in 0..Lowest(list)
  <1>1. \A z \in Int : Within(list, z) \in 0..Lowest(list)
    BY LowestIs
  <1>2. scrollTop \in Nat
    <2>1. scrollTop \in 0..Lowest(rows) /\ rows \in Seq(Row)
      BY DEF FeedInv
    <2> QED
      BY <2>1
  <1>3. Within(list, scrollTop) \in 0..Lowest(list)
    BY <1>1, <1>2
  <1>4. CASE ~ Lists(list, anchor.time) \/ Offset(list, anchor.time) = anchor.offset
    BY <1>3, <1>4 DEF Compensated
  <1>5. CASE ~ (~ Lists(list, anchor.time) \/ Offset(list, anchor.time) = anchor.offset)
    <2>1. Compensated(list, Within(list, scrollTop))
            = Within(list, anchor.saved + Offset(list, anchor.time) - anchor.offset)
      BY <1>5 DEF Compensated
    <2>2. PICK i \in DOMAIN list : IsFirst(list, anchor.time, i)
      BY <1>5 DEF Lists
    <2>3. Offset(list, anchor.time) = i - 1
      BY <2>2, FirstIsFound
    <2>4. anchor.saved \in Nat /\ anchor.offset \in Nat
      BY DEF FeedInv
    <2>5. anchor.saved + Offset(list, anchor.time) - anchor.offset \in Int
      BY <2>3, <2>4
    <2> QED
      BY <1>1, <2>1, <2>5
  <1> QED
    BY <1>4, <1>5

(* The list after a patch is one of rows. *)
LEMMA RenderedKeeps ==
  ASSUME FeedInv, NEW list \in Seq(Row), Rendered(list)
  PROVE  FeedInv'
  <1> DEFINE y == IF follow.auto THEN 0 ELSE Compensated(list, Within(list, scrollTop))
  <1>1. /\ rows' = list /\ scrollTop' = y /\ still' = TRUE /\ follow' = follow
        /\ anchor' = IF follow.auto THEN anchor ELSE
                     IF list = <<>> THEN NoAnchor
                     ELSE [time |-> list[y + 1].time, offset |-> y, saved |-> y]
    BY DEF Rendered
  <1>2. y \in 0..Lowest(list)
    <2>1. 0 \in 0..Lowest(list)
      BY LowestIs
    <2> QED
      BY <2>1, PlaceIs
  <1>3. follow.auto => y = 0
    OBVIOUS
  <1> HIDE DEF y
  <1>4. anchor' \in [time : Nat, offset : Nat, saved : Nat]
    <2>1. CASE follow.auto
      BY <1>1, <2>1 DEF FeedInv
    <2>2. CASE ~ follow.auto /\ list = <<>>
      BY <1>1, <2>2 DEF NoAnchor
    <2>3. CASE ~ follow.auto /\ list # <<>>
      <3>1. Lowest(list) \in 0..Len(list) /\ Lowest(list) < Len(list)
        BY <2>3, LowestIs
      <3>2. y \in Nat /\ y + 1 \in 1..Len(list)
        BY <1>2, <3>1
      <3>3. list[y + 1] \in Row
        BY <3>2
      <3>4. list[y + 1].time \in Nat
        BY <3>3, FeedAssumption DEF Row
      <3> QED
        BY <1>1, <2>3, <3>2, <3>4
    <2> QED
      BY <2>1, <2>2, <2>3
  <1> QED
    BY <1>1, <1>2, <1>3, <1>4 DEF FeedInv, Paused, TopRow

(* A list rendered leaves a resting reader on the first row of his time. *)
LEMMA RenderedStays ==
  ASSUME FeedInv, NEW list \in Seq(Row), Rendered(list), Paused, still
  PROVE  MomentStays /\ (Alone => Stays)
  <1>1. ~ follow.auto /\ rows' = list
    BY DEF Paused, Rendered
  <1>2. scrollTop' = Compensated(list, Within(list, scrollTop))
    BY <1>1 DEF Rendered
  <1>3. /\ anchor.time = TopRow.time /\ anchor.offset = scrollTop /\ anchor.saved = scrollTop
        /\ scrollTop \in Nat
    BY DEF FeedInv
  <1>4. ASSUME NEW i \in DOMAIN list, IsFirst(list, TopRow.time, i)
        PROVE  i - 1 > Lowest(list) \/ scrollTop' = i - 1
    <2>1. i - 1 \in Nat
      OBVIOUS
    <2>2. Lists(list, TopRow.time) /\ Offset(list, TopRow.time) = i - 1
      BY <1>4, FirstIsFound
    <2>3. scrollTop' = Within(list, i - 1)
      <3>1. CASE i - 1 = scrollTop
        BY <1>2, <1>3, <2>2, <3>1 DEF Compensated
      <3>2. CASE i - 1 # scrollTop
        <4>1. scrollTop' = Within(list, scrollTop + (i - 1) - scrollTop)
          BY <1>2, <1>3, <2>2, <3>2 DEF Compensated
        <4>2. scrollTop + (i - 1) - scrollTop = i - 1
          BY <1>3, <2>1
        <4> QED
          BY <4>1, <4>2
      <3> QED
        BY <3>1, <3>2
    <2>4. CASE ~ (i - 1 > Lowest(list))
      <3>1. Lowest(list) \in 0..Len(list) /\ \A y \in 0..Lowest(list) : Within(list, y) = y
        BY LowestIs
      <3>2. i - 1 \in 0..Lowest(list)
        BY <2>1, <2>4, <3>1
      <3> QED
        BY <2>3, <3>1, <3>2
    <2> QED
      BY <2>4
  <1>5. MomentStays
    BY <1>1, <1>4 DEF MomentStays
  <1>6. Alone => Stays
    <2> SUFFICES ASSUME Alone, NEW i \in DOMAIN rows', rows'[i].nr = TopRow.nr
                 PROVE  i - 1 > Lowest(rows') \/ scrollTop' = i - 1
      BY DEF Stays
    <2>1. IsFirst(list, TopRow.time, i)
      BY <1>1 DEF Alone
    <2> QED
      BY <1>1, <1>4, <2>1
  <1> QED
    BY <1>5, <1>6

(* The patches: n new events, or another profile. *)
LEMMA PatchIsRendered ==
  ASSUME FeedInv, Switch \/ \E n \in 1..2 : Update(n)
  PROVE  \E list \in Seq(Row) : Rendered(list)
  <1>1. CASE Switch
    <2>1. <<>> \in Seq(Row)
      OBVIOUS
    <2> QED
      BY <1>1, <2>1 DEF Switch
  <1>2. ASSUME NEW n \in 1..2, Update(n) PROVE \E list \in Seq(Row) : Rendered(list)
    <2>1. PICK times \in [1..n -> Times] : Rendered(Prepended(n, times))
      BY <1>2 DEF Update
    <2>2. Prepended(n, times) \in Seq(Row)
      BY PrependedIs DEF FeedInv
    <2> QED
      BY <2>1, <2>2
  <1> QED
    BY <1>1, <1>2

LEMMA FeedStarts == FeedInit => FeedInv
  <1> SUFFICES ASSUME FeedInit PROVE FeedInv
    OBVIOUS
  <1>1. PICK n \in 0..MaxRows : \E times \in [1..n -> Times] : rows = Numbered(n, n, times)
    BY DEF FeedInit
  <1>2. PICK times \in [1..n -> Times] : rows = Numbered(n, n, times)
    BY <1>1
  <1>3. n \in Nat
    BY FeedAssumption
  <1>4. rows \in [1..n -> Row]
    BY <1>2, <1>3 DEF Numbered, Row
  <1>5. rows \in Seq(Row)
    BY <1>3, <1>4
  <1>6. 0 \in 0..Lowest(rows)
    BY <1>5, LowestIs
  <1> QED
    BY <1>5, <1>6 DEF FeedInit, FeedInv, Paused, NoAnchor

LEMMA FeedKeeps == FeedInv /\ [FeedNext]_feedVars => FeedInv'
  <1> SUFFICES ASSUME FeedInv, [FeedNext]_feedVars PROVE FeedInv'
    OBVIOUS
  <1>1. /\ rows \in Seq(Row)
        /\ scrollTop \in 0..Lowest(rows)
        /\ follow \in [auto : BOOLEAN, scrolled : BOOLEAN]
        /\ anchor \in [time : Nat, offset : Nat, saved : Nat]
        /\ follow.auto /\ still => scrollTop = 0
        /\ ~ follow.auto /\ rows # <<>> /\ still =>
             anchor = [time |-> TopRow.time, offset |-> scrollTop, saved |-> scrollTop]
    BY DEF FeedInv, Paused
  <1>2. scrollTop \in Nat
    BY <1>1
  <1>3. CASE Told
    <2>1. rows' = rows /\ scrollTop' = scrollTop /\ anchor' = anchor /\ still' = still
      BY <1>3 DEF Told
    <2>2. CASE scrollTop > 0
      <3>1. follow' = [auto |-> FALSE, scrolled |-> TRUE]
        BY <1>3, <2>2 DEF Told
      <3>2. still => ~ follow.auto
        BY <1>1, <1>2, <2>2
      <3> QED
        BY <1>1, <2>1, <3>1, <3>2 DEF FeedInv, Paused, TopRow
    <2>3. CASE ~ (scrollTop > 0)
      <3>1. scrollTop = 0
        BY <1>2, <2>3
      <3>2. follow' = (IF follow.scrolled THEN [follow EXCEPT !.auto = TRUE] ELSE follow)
        BY <1>3, <2>3 DEF Told
      <3>3. /\ follow' \in [auto : BOOLEAN, scrolled : BOOLEAN]
            /\ ~ follow'.auto => ~ follow.auto
        BY <1>1, <3>2
      <3> QED
        BY <1>1, <2>1, <3>1, <3>3 DEF FeedInv, Paused, TopRow
    <2> QED
      BY <2>2, <2>3
  <1>4. ASSUME NEW y \in 0..Lowest(rows), Scroll(y) PROVE FeedInv'
    <2>1. /\ rows' = rows /\ scrollTop' = y /\ follow' = follow /\ anchor' = anchor
          /\ still' = FALSE
      BY <1>4 DEF Scroll
    <2> QED
      BY <1>1, <2>1 DEF FeedInv, Paused
  <1>5. CASE Switch \/ \E n \in 1..2 : Update(n)
    <2>1. PICK list \in Seq(Row) : Rendered(list)
      BY <1>5, PatchIsRendered
    <2> QED
      BY <2>1, RenderedKeeps
  <1>6. CASE UNCHANGED feedVars
    BY <1>1, <1>6 DEF FeedInv, Paused, TopRow, feedVars
  <1> QED
    BY <1>3, <1>4, <1>5, <1>6 DEF FeedNext

(* A reader of older events who rests stays at the first row of the time he *)
(* reads (updated() of the ActivityFeed hook in assets/js/app.js), and on   *)
(* his row if none above it has its time, for any times in any order, any   *)
(* limit of the list and any window, unless the row falls off the list.     *)
THEOREM RestingReaderIsLeft == FeedSpec => RestingReaderStays
  <1>1. FeedInv /\ [FeedNext]_feedVars
          => [rows' # rows /\ Paused /\ still => MomentStays /\ (Alone => Stays)]_feedVars
    <2> SUFFICES ASSUME FeedInv, FeedNext, rows' # rows, Paused, still
                 PROVE  MomentStays /\ (Alone => Stays)
      BY DEF feedVars
    <2>1. PICK list \in Seq(Row) : Rendered(list)
      BY PatchIsRendered DEF FeedNext, Told, Scroll
    <2> QED
      BY <2>1, RenderedStays
  <1> QED
    BY <1>1, FeedStarts, FeedKeeps, PTL DEF FeedSpec, RestingReaderStays
=============================================================================
