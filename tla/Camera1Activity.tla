--------------------------- MODULE Camera1Activity ---------------------------
(***************************************************************************)
(* CameraActivity.kt up to Android M, on Camera1Controller.  The executor   *)
(* of the controller runs while the main thread is inside a handler, so     *)
(* the handlers are cut where they look at what the executor writes.        *)
(***************************************************************************)
EXTENDS Camera1Controller

CONSTANTS
    FirstCamera,   \* CameraInfo.BACK_CAMERA, the initial mCameraId
    Habits         \* what the user and the device may do besides the patient

ASSUME FirstCameraAssumption == FirstCamera \in Cameras
ASSUME HabitsAssumption ==
    Habits \subseteq {"stopWhileBusy", "switchWhileBusy", "fastOpen"}

VARIABLES
    life, created, current, mCameraId,
    main           \* where the main thread is in closeCamera; openCamera; startPreview

avars == <<life, created, current, mCameraId, main>>
vars == <<cvars, avars>>

(* "free": at the looper; "release": inside closeCamera; "open", "preview": *)
(* before openCamera, startPreview of the handler; then: its other work.    *)
MainState == [pc : {"free", "release", "open", "preview"}, then : {"stop", "switch"}]

TypeOK ==
    /\ ctrl \in [Controllers -> ControllerState]
    /\ exec \in [Controllers -> ExecState]
    /\ unseen \in [Controllers -> SUBSET Writes]
    /\ posted \in Seq(Controllers)
    /\ listeners \in [Controllers -> Nat]
    /\ toNotify \subseteq Controllers
    /\ surface \in BOOLEAN
    /\ opens \in 0..MaxOpens
    /\ asked \in [Opens -> Cameras]
    /\ camera \in [Opens -> {"none", "open", "released"}]
    /\ previewing \subseteq Opens
    /\ crashed \in BOOLEAN
    /\ life \in {"none", "created", "resumed", "paused", "stopped"}
    /\ created \in 0..MaxControllers
    /\ current \in 0..created
    /\ life # "none" => current \in Controllers
    /\ mCameraId \in Cameras
    /\ main \in MainState

Init ==
    /\ ControllerInit(FirstCamera)
    /\ life = "none"
    /\ created = 0
    /\ current = None
    /\ mCameraId = FirstCamera
    /\ main = [pc |-> "free", then |-> "stop"]

MainFree == ~crashed /\ main.pc = "free" /\ toNotify = {}

Settled ==
    /\ MainFree
    /\ posted = <<>>
    /\ \A c \in Controllers :
         exec[c].pc = "idle" /\ exec[c].tasks = <<>> /\ unseen[c] = {}

-----------------------------------------------------------------------------
InitCamera ==
    LET c == created + 1 IN
      /\ created < MaxControllers
      /\ created' = c
      /\ current' = c
      /\ OpenCamera(c, NewController, mCameraId)
      /\ main' = [main EXCEPT !.pc = "preview"]

OnCreate ==
    /\ MainFree
    /\ life = "none"
    /\ life' = "created"
    /\ InitCamera
    /\ UNCHANGED <<unseen, posted, listeners, toNotify, surface, camera, previewing,
                   crashed, mCameraId>>

(* Mutant of OnResume: isOpening is not looked at. *)
OnResumeIgnoresOpening ==
    /\ MainFree
    /\ life \in {"created", "paused", "stopped"}
    /\ life' = "resumed"
    /\ IF ~ctrl[current].isOpen
         THEN InitCamera
         ELSE UNCHANGED <<created, current, ctrl, exec, opens, asked, main>>
    /\ UNCHANGED <<unseen, posted, listeners, toNotify, surface, camera, previewing,
                   crashed, mCameraId>>

OnResume ==
    /\ MainFree
    /\ life \in {"created", "paused", "stopped"}
    /\ life' = "resumed"
    /\ IF ~ctrl[current].isOpen /\ ~ctrl[current].isOpening
         THEN InitCamera
         ELSE UNCHANGED <<created, current, ctrl, exec, opens, asked, main>>
    /\ UNCHANGED <<unseen, posted, listeners, toNotify, surface, camera, previewing,
                   crashed, mCameraId>>

OnPause ==
    /\ MainFree
    /\ life = "resumed"
    /\ life' = "paused"
    /\ UNCHANGED <<cvars, created, current, mCameraId, main>>

(* closeCamera up to the release, or not at all. *)
CloseCamera(then) ==
    \/ /\ BeginClose(current)
       /\ main' = [pc |-> "release", then |-> then]
    \/ /\ ~MayClose(current)
       /\ main' = [pc |-> IF then = "stop" THEN "free" ELSE "open", then |-> then]
       /\ UNCHANGED <<ctrl, listeners, crashed>>

OnStop ==
    /\ MainFree
    /\ life = "paused"
    /\ Settled \/ "stopWhileBusy" \in Habits
    /\ life' = "stopped"
    /\ CloseCamera("stop")
    /\ surface' = FALSE
    /\ UNCHANGED <<exec, unseen, posted, toNotify, opens, asked, camera, previewing,
                   created, current, mCameraId>>

ClickSwitch ==
    /\ MainFree
    /\ life = "resumed"
    /\ surface
    /\ opens < MaxOpens
    /\ Settled \/ "switchWhileBusy" \in Habits
    /\ CloseCamera("switch")
    /\ UNCHANGED <<exec, unseen, posted, toNotify, surface, opens, asked, camera,
                   previewing, life, created, current, mCameraId>>

Release ==
    /\ ~crashed
    /\ main.pc = "release"
    /\ EndClose(current)
    /\ main' = [main EXCEPT !.pc = IF main.then = "stop" THEN "free" ELSE "open"]
    /\ UNCHANGED <<exec, unseen, posted, listeners, toNotify, surface, opens, asked,
                   life, created, current, mCameraId>>

(* Mutant of SwitchOpens: the camera is opened before mCameraId is turned. *)
SwitchOpensOld ==
    /\ ~crashed
    /\ main.pc = "open"
    /\ mCameraId' \in Cameras \ {mCameraId}
    /\ OpenCamera(current, ctrl[current], mCameraId)
    /\ main' = [main EXCEPT !.pc = "preview"]
    /\ UNCHANGED <<unseen, posted, listeners, toNotify, surface, camera, previewing,
                   crashed, life, created, current>>

SwitchOpens ==
    /\ ~crashed
    /\ main.pc = "open"
    /\ \E k \in Cameras \ {mCameraId} :
         /\ mCameraId' = k
         /\ OpenCamera(current, ctrl[current], k)
    /\ main' = [main EXCEPT !.pc = "preview"]
    /\ UNCHANGED <<unseen, posted, listeners, toNotify, surface, camera, previewing,
                   crashed, life, created, current>>

Preview ==
    /\ ~crashed
    /\ main.pc = "preview"
    /\ StartPreview(current)
    /\ main' = [main EXCEPT !.pc = "free"]
    /\ UNCHANGED <<unseen, posted, toNotify, surface, opens, asked, camera, previewing,
                   crashed, life, created, current, mCameraId>>

-----------------------------------------------------------------------------
(* The surface of a resumed activity appears, or changes its size: the      *)
(* listeners registered by then are called.                                 *)
SurfaceAppears ==
    /\ MainFree
    /\ life = "resumed"
    /\ ~surface
    /\ surface' = TRUE
    /\ toNotify' = {c \in Controllers : listeners[c] > 0}
    /\ UNCHANGED <<ctrl, exec, unseen, posted, listeners, opens, asked, camera,
                   previewing, crashed, avars>>

(* Camera.open takes longer than the main thread needs to reach             *)
(* startPreview, in the patient environment.                                *)
ServiceOpens(c) ==
    /\ CameraOpens(c)
    /\ "fastOpen" \in Habits \/ main.pc # "preview"

System ==
    \/ Release \/ SwitchOpens \/ Preview
    \/ MainFree /\ RunPosted /\ UNCHANGED avars
    \/ \E c \in Controllers :
         (Executor(c) \/ ServiceOpens(c) \/ SurfaceChanged(c)) /\ UNCHANGED avars

User == OnCreate \/ OnResume \/ OnPause \/ OnStop \/ ClickSwitch

Next == System \/ SurfaceAppears \/ User

Fairness == WF_vars(System) /\ WF_vars(SurfaceAppears)

Spec == Init /\ [][Next]_vars
FairSpec == Spec /\ Fairness

-----------------------------------------------------------------------------
(* Every environment. *)

(* Wherever the executor and the main thread cross, the field mCamera (and  *)
(* the executor's copy still to be seen) names a Camera object that this    *)
(* controller opened and nobody released: setCameraSize, outside any try,   *)
(* never talks to a released camera.                                        *)
FieldNotReleased ==
    \A c \in Controllers :
      /\ ctrl[c].mCamera # None => camera[ctrl[c].mCamera] = "open"
      /\ CameraField(c) # None => camera[CameraField(c)] = "open"
      /\ \A d \in Controllers \ {c} :
           ctrl[c].mCamera # None => ctrl[c].mCamera # ctrl[d].mCamera

(* Without failures isOpening is backed by an open that will be reported.   *)
OpeningHasTask ==
    \A c \in Controllers :
      ctrl[c].isOpening =>
        \/ exec[c].pc # "idle"
        \/ "isOpening" \in unseen[c]
        \/ \E i \in DOMAIN exec[c].tasks : exec[c].tasks[i].kind = "open"

-----------------------------------------------------------------------------
(* The patient environment. *)

Held == {o \in Opens : camera[o] = "open"}

(* A stopped activity has given its camera back, however the executor and   *)
(* the main thread shared the open (onStop, closeCamera).                   *)
StoppedReleases == life = "stopped" /\ main.pc = "free" => Held = {}

(* When all is done the chosen camera is displayed and the controller says  *)
(* so, with exactly one listener on the surface.                            *)
SettledShowsChoice ==
    (Settled /\ life \in {"resumed", "paused"} /\ surface) =>
      /\ ctrl[current].isOpen /\ ~ctrl[current].isOpening
      /\ previewing = {ctrl[current].mCamera}
      /\ asked[ctrl[current].mCamera] = mCameraId
      /\ \A c \in Controllers : listeners[c] = IF c = current THEN 1 ELSE 0

ChoiceIsShown ==
    \A k \in Cameras :
      (life = "resumed" /\ mCameraId = k) ~>
        \/ life # "resumed"
        \/ mCameraId # k
        \/ \E o \in previewing : asked[o] = k

(* The interface's contract; a camera inside closeCamera counts as returned. *)
Contract == INSTANCE CameraContract WITH
    phase <- IF current = None THEN "closed"
             ELSE IF ctrl[current].isOpening THEN "opening"
             ELSE IF ctrl[current].isOpen THEN "open" ELSE "closed",
    camera <- mCameraId,
    held <- IF main.pc = "release" THEN {} ELSE {asked[o] : o \in Held},
    showing <- IF main.pc = "release" THEN {} ELSE {asked[o] : o \in previewing}

ImplementsContract == Contract!Spec

-----------------------------------------------------------------------------
(* What CameraController.kt says of the interface and this code breaks. *)

(* closeCamera (line 28) closes the camera. *)
CloseReleases == life = "stopped" /\ Settled => Held = {}

(* closeCamera (line 28) closes the camera; it does not end the process. *)
CloseSurvives == ~crashed

(* startPreview (line 18) opens the preview. *)
PreviewStarts ==
    (Settled /\ life = "resumed" /\ surface /\ ctrl[current].isOpen) => previewing # {}

(* isOpening (line 38) tells whether the camera is being opened. *)
OpeningIsTrue == Settled /\ life # "none" => ~ctrl[current].isOpening

(* isOpen (line 33) tells whether the camera is open. *)
OpenIsTrue == Settled /\ life # "none" => (ctrl[current].isOpen => ctrl[current].mCamera # None)
=============================================================================
