---------------------------- MODULE CameraContract ----------------------------
(***************************************************************************)
(* What the interface CameraController.kt promises the activity, whatever   *)
(* the implementation: openCamera opens the camera it names, isOpening and  *)
(* isOpen tell how far that is, a started preview shows the open camera,    *)
(* closeCamera gives the camera back and stops the preview.                 *)
(***************************************************************************)
CONSTANTS Cameras

VARIABLES
    phase,    \* "closed", "opening" (isOpening) or "open" (isOpen)
    camera,   \* the camera asked for last
    held,     \* the cameras this process holds at the camera service
    showing   \* the cameras whose frames are displayed

cvars == <<phase, camera, held, showing>>

TypeOK ==
    /\ phase \in {"closed", "opening", "open"}
    /\ camera \in Cameras
    /\ held \subseteq Cameras
    /\ showing \subseteq held

Init ==
    /\ phase = "closed"
    /\ camera \in Cameras
    /\ held = {}
    /\ showing = {}

(* openCamera(k) of a closed controller *)
Open(k) ==
    /\ phase = "closed"
    /\ phase' = "opening"
    /\ camera' = k
    /\ UNCHANGED <<held, showing>>

(* the service grants the camera *)
Grant ==
    /\ phase = "opening"
    /\ held = {}
    /\ held' = {camera}
    /\ UNCHANGED <<phase, camera, showing>>

(* the controller learns of it *)
Opened ==
    /\ phase = "opening"
    /\ held = {camera}
    /\ phase' = "open"
    /\ UNCHANGED <<camera, held, showing>>

Show ==
    /\ phase = "open"
    /\ showing' = held
    /\ UNCHANGED <<phase, camera, held>>

(* closeCamera *)
Close ==
    /\ phase' = "closed"
    /\ held' = {}
    /\ showing' = {}
    /\ UNCHANGED camera

(* closeCamera, then openCamera(k), in one call of the activity *)
Switch(k) ==
    /\ phase' = "opening"
    /\ camera' = k
    /\ held' = {}
    /\ showing' = {}

Next ==
    \/ Grant \/ Opened \/ Show \/ Close
    \/ \E k \in Cameras : Open(k) \/ Switch(k)

Spec == Init /\ [][Next]_cvars
=============================================================================
