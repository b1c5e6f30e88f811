------------------------------- MODULE MCViews -------------------------------
(* The two views that fit a picture into the space they get, side by side on *)
(* the main looper, and values for them.                                     *)
EXTENDS AutoFitSurfaceView, NiceTextureView

S(width, height) == [w |-> width, h |-> height]

Parents == {S(9, 12), S(8, 8), S(13, 7)}
Cameras == {S(4, 3), S(16, 9), S(5, 5), S(11, 7)}
Videos == {S(4, 3), S(16, 9), S(4, 9), S(3, 16), S(5, 5)}
FewVideos == {S(4, 3), S(4, 9)}
Asked == [mode : Modes, size : {8, 13}]
AskedExactly == [mode : {"EXACTLY"}, size : {8, 13}]

VARIABLE which \* the view whose activity is in front

vars == <<svars, tvars, which>>

Init ==
    /\ SurfaceViewInit
    /\ TextureViewInit
    /\ which \in {"camera", "player"}

Next ==
    \/ which = "camera" /\ SurfaceViewNext /\ UNCHANGED <<tvars, which>>
    \/ which = "player" /\ TextureViewNext /\ UNCHANGED <<svars, which>>

Spec == Init /\ [][Next]_vars
=============================================================================
