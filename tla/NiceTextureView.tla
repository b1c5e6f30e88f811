---------------------------- MODULE NiceTextureView ----------------------------
(***************************************************************************)
(* NiceTextureView.java: the view the video is drawn in.  adaptVideoSize    *)
(* and setRotation only request a layout; the traversal calls onMeasure     *)
(* with what the parent allows, which changes when MVideoView moves its     *)
(* container to full screen and back.                                       *)
(***************************************************************************)
EXTENDS Integers

CONSTANTS
    VideoSizes,  \* sizes the player reports
    Specs        \* what a parent may ask of one side: [mode, size]

Modes == {"UNSPECIFIED", "AT_MOST", "EXACTLY"}

ASSUME TextureViewSizes ==
    /\ \A s \in VideoSizes : s.w \in Nat \ {0} /\ s.h \in Nat \ {0}
    /\ \A s \in Specs : s.mode \in Modes /\ s.size \in Nat \ {0}

NoVideo == [w |-> 0, h |-> 0]

VARIABLES
    tv,       \* videoWidth and videoHeight, and whether rotation is 90 or 270
    video,    \* the size the player reported last
    asks,     \* the parent's measure specs
    measured, \* the measured size
    due       \* a traversal is due

tvars == <<tv, video, asks, measured, due>>

TextureViewInit ==
    /\ tv = [size |-> NoVideo, across |-> FALSE]
    /\ video = NoVideo
    /\ asks \in [w : Specs, h : Specs]
    /\ measured = NoVideo
    /\ due = TRUE

-----------------------------------------------------------------------------
Exact(spec) == spec.mode = "EXACTLY"
TooLong(side, spec) == spec.mode = "AT_MOST" /\ side > spec.size

DefaultSize(side, spec) == IF spec.mode = "UNSPECIFIED" THEN side ELSE spec.size

WithHeight(s, h) == [w |-> (h * s.w) \div s.h, h |-> h]
WithWidth(s, w) == [w |-> w, h |-> (w * s.h) \div s.w]

(* Cut a size that is too tall, keeping the proportions of s. *)
CutHeight(s, m, spec) == IF TooLong(m.h, spec) THEN WithHeight(s, spec.size) ELSE m

(* Cut a size that is too wide. *)
CutWidth(s, m, spec) == IF TooLong(m.w, spec) THEN WithWidth(s, spec.size) ELSE m

(* A video of size s, compared with the space of the specs w and h. *)
Broader(s, w, h) == s.w * h.size > w.size * s.h

(* Mutant of Slimmer: turned round. *)
SlimmerTurned(s, w, h) == s.w * h.size > w.size * s.h

Slimmer(s, w, h) == s.w * h.size < w.size * s.h

(* Both sides are fixed: keep the one that bounds the picture. *)
FitExactly(s, w, h) ==
    CASE Slimmer(s, w, h) -> WithHeight(s, h.size)
      [] Broader(s, w, h) -> WithWidth(s, w.size)
      [] OTHER -> [w |-> w.size, h |-> h.size]

(* onMeasure for a video of size s under the specs w and h. *)
FitVideo(s, w, h) ==
    CASE s = NoVideo -> [w |-> DefaultSize(0, w), h |-> DefaultSize(0, h)]
      [] s # NoVideo /\ Exact(w) /\ Exact(h) -> FitExactly(s, w, h)
      [] s # NoVideo /\ Exact(w) /\ ~Exact(h) -> CutHeight(s, WithWidth(s, w.size), h)
      [] s # NoVideo /\ ~Exact(w) /\ Exact(h) -> CutWidth(s, WithHeight(s, h.size), w)
      [] OTHER -> CutWidth(s, CutHeight(s, s, h), w)

(* A view on its side swaps the specs. *)
OnMeasure ==
    IF tv.across THEN FitVideo(tv.size, asks.h, asks.w)
                 ELSE FitVideo(tv.size, asks.w, asks.h)

TextureTraversal ==
    /\ due
    /\ measured' = OnMeasure
    /\ due' = FALSE
    /\ UNCHANGED <<tv, video, asks>>

(* onVideoSizeChanged: adaptVideoSize takes a size both sides of which are  *)
(* new.                                                                     *)
AdaptVideoSize(s) ==
    /\ video' = s
    /\ IF s.w # tv.size.w /\ s.h # tv.size.h
       THEN tv' = [tv EXCEPT !.size = s] /\ due' = TRUE
       ELSE UNCHANGED <<tv, due>>
    /\ UNCHANGED <<asks, measured>>

SetRotation ==
    /\ tv' = [tv EXCEPT !.across = ~@]
    /\ due' = TRUE
    /\ UNCHANGED <<video, asks, measured>>

(* MVideoView moves the container to another parent. *)
Reparent ==
    /\ asks' \in [w : Specs, h : Specs]
    /\ due' = TRUE
    /\ UNCHANGED <<tv, video, measured>>

TextureViewNext ==
    \/ TextureTraversal
    \/ \E s \in VideoSizes : AdaptVideoSize(s)
    \/ SetRotation
    \/ Reparent

TextureViewSpec == TextureViewInit /\ [][TextureViewNext]_tvars

-----------------------------------------------------------------------------
Drawn == ~due /\ tv.size # NoVideo

Allowed == IF tv.across THEN [w |-> asks.h, h |-> asks.w] ELSE asks

Undistorted(m, s) ==
    LET diff == m.w * s.h - m.h * s.w
        most == IF s.w > s.h THEN s.w ELSE s.h
    IN  -most < diff /\ diff < most

(* The measured view keeps within what the parent allows on both sides,     *)
(* reaches the limit of one unless it has the video's own size, and has the *)
(* proportions of the video it was told of but for a truncated pixel;       *)
(* through every move to another parent, turn and change of video           *)
(* (onMeasure, adaptVideoSize).                                             *)
TextureFits ==
    Drawn =>
        /\ \A side \in {"w", "h"} :
             Allowed[side].mode # "UNSPECIFIED" => measured[side] <= Allowed[side].size
        /\ \/ measured = tv.size
           \/ \E side \in {"w", "h"} : measured[side] = Allowed[side].size
        /\ Undistorted(measured, tv.size)

(* The measured view has the proportions of the video being played: the     *)
(* class comment says it adapts to the width and the height of the video.   *)
(* The code breaks it: a video that shares one side with the last one is    *)
(* ignored.                                                                 *)
TextureShowsVideo == Drawn => Undistorted(measured, video)
=============================================================================
