-------------------------- MODULE AutoFitSurfaceView --------------------------
(***************************************************************************)
(* AutoFitSurfaceView.kt: the preview's view.  It takes the size its parent *)
(* gives it until setAspectRatio, and from then on a size it calculates     *)
(* from that first one; onLayout moves it back to the parent's middle.      *)
(* Everything runs on the main looper: setAspectRatio only requests a       *)
(* layout, the traversal that measures and lays out comes later.            *)
(*                                                                         *)
(* Ratios are exact fractions here and floats in the code, so a product     *)
(* next to a half may be rounded either way: Rounded gives both.            *)
(***************************************************************************)
EXTENDS Integers

CONSTANTS
    ParentSizes,  \* sizes the FrameLayout around the view may have
    CameraSizes,  \* sizes setAspectRatio is called with
    Resizes       \* whether the parent may change its size after the first ratio

Size(s) == s \in [w : Nat, h : Nat] /\ s.w > 0 /\ s.h > 0

(* A camera's sizes are landscape, as the sensor is. *)
ASSUME SurfaceViewSizes ==
    /\ \A s \in ParentSizes \cup CameraSizes : Size(s)
    /\ \A s \in CameraSizes : s.w >= s.h
    /\ Resizes \in BOOLEAN

Zero == [w |-> 0, h |-> 0]

VARIABLES
    sv,      \* fields of AutoFitSurfaceView; camera is the last ratio, Zero none
    frame,   \* where the last layout put the view: left, top and size
    parent,  \* the size of the parent
    wanted   \* a traversal is due

svars == <<sv, frame, parent, wanted>>

SurfaceViewInit ==
    /\ sv \in {[fill |-> f, camera |-> Zero, aspect |-> Zero, origin |-> Zero,
                needMove |-> FALSE] : f \in BOOLEAN}
    /\ frame = [l |-> 0, t |-> 0, w |-> 0, h |-> 0]
    /\ parent \in ParentSizes
    /\ wanted = TRUE

-----------------------------------------------------------------------------
Distance(a, b) == IF a > b THEN a - b ELSE b - a

(* The integers nearest to a / b. *)
Rounded(a, b) == {k \in (a \div b)..(a \div b + 1) : 2 * Distance(k * b, a) <= b}

(* Kotlin's division by two, which goes towards zero. *)
Half(x) == IF x >= 0 THEN x \div 2 ELSE -((-x) \div 2)

(* The picture as it stands in the view: a portrait view turns it. *)
Turned(camera, origin) ==
    IF origin.w > origin.h THEN camera ELSE [w |-> camera.h, h |-> camera.w]

(* Mutant of Wider: the comparison is turned round. *)
Narrower(a, b) == a.w * b.h < b.w * a.h

(* a has more width to its height than b. *)
Wider(a, b) == a.w * b.h > b.w * a.h

(* calcAspectSize: keep one side of the origin, scale the other. *)
AspectSizes(fill, camera, origin) ==
    LET a == Turned(camera, origin)
        keepHeight == IF fill THEN Wider(a, origin) ELSE Wider(origin, a)
        keepWidth == IF fill THEN Wider(origin, a) ELSE Wider(a, origin)
    IN  CASE keepHeight -> {[w |-> k, h |-> origin.h] : k \in Rounded(origin.h * a.w, a.h)}
          [] keepWidth -> {[w |-> origin.w, h |-> k] : k \in Rounded(origin.w * a.h, a.w)}
          [] OTHER -> {origin}

(* onMeasure and onLayout, one traversal; the parent puts its child at its  *)
(* top left corner.                                                         *)
Origin == IF sv.camera = Zero THEN parent ELSE sv.origin
Measured == IF sv.camera = Zero THEN parent ELSE sv.aspect

Placed ==
    LET exceedW == Measured.w - Origin.w
        exceedH == Measured.h - Origin.h
    IN  [l |-> IF sv.needMove THEN -Half(exceedW) ELSE 0,
         t |-> IF sv.needMove THEN -Half(exceedH) ELSE 0,
         w |-> Measured.w, h |-> Measured.h]

Traversal ==
    /\ wanted
    /\ frame' = Placed
    /\ sv' = [sv EXCEPT !.origin = Origin, !.needMove = FALSE]
    /\ wanted' = FALSE
    /\ UNCHANGED parent

(* Both controllers call it once the view has a surface, so after a layout. *)
SetAspectRatio(camera) ==
    /\ sv.origin # Zero
    /\ \E a \in AspectSizes(sv.fill, camera, sv.origin) :
         sv' = [sv EXCEPT !.camera = camera, !.aspect = a, !.needMove = TRUE]
    /\ wanted' = TRUE
    /\ UNCHANGED <<frame, parent>>

(* The window changes its size: its bars hide, later it may go multi-window. *)
Resize(s) ==
    /\ Resizes \/ sv.camera = Zero
    /\ s # parent
    /\ parent' = s
    /\ wanted' = TRUE
    /\ UNCHANGED <<sv, frame>>

SurfaceViewNext ==
    \/ Traversal
    \/ \E s \in CameraSizes : SetAspectRatio(s)
    \/ \E s \in ParentSizes : Resize(s)

SurfaceViewSpec == SurfaceViewInit /\ [][SurfaceViewNext]_svars

-----------------------------------------------------------------------------
Shown == ~wanted /\ sv.camera # Zero

(* The size the ratio was applied to is the parent's (onMeasure).  The code *)
(* breaks it: only a measurement before the first ratio is remembered.      *)
OriginIsParent == Shown => sv.origin = parent

Current == Shown /\ sv.origin = parent

(* The long side of the picture along the long side of the parent, and the  *)
(* proportions of the camera but for a pixel's rounding.                    *)
PictureUndistorted ==
    LET long == sv.camera.w
        short == sv.camera.h
    IN  IF parent.w > parent.h
        THEN 2 * Distance(frame.w * short, frame.h * long) <= long
        ELSE 2 * Distance(frame.h * short, frame.w * long) <= long

(* Once laid out in the parent it measured, the view has the proportions of *)
(* the last camera size given; one that fits lies inside that parent and    *)
(* touches two opposite sides of it, one that fills covers it               *)
(* (calcAspectSize); and whatever ratios came before, it stands in the      *)
(* middle to a pixel (onLayout).                                            *)
FrameFits ==
    Current =>
        /\ frame.w = parent.w \/ frame.h = parent.h
        /\ PictureUndistorted
        /\ IF sv.fill
           THEN /\ frame.l <= 0 /\ frame.l + frame.w >= parent.w
                /\ frame.t <= 0 /\ frame.t + frame.h >= parent.h
           ELSE /\ frame.l >= 0 /\ frame.l + frame.w <= parent.w
                /\ frame.t >= 0 /\ frame.t + frame.h <= parent.h
        /\ Distance(2 * frame.l + frame.w, parent.w) <= 1
        /\ Distance(2 * frame.t + frame.h, parent.h) <= 1
=============================================================================
