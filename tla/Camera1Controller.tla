-------------------------- MODULE Camera1Controller --------------------------
(***************************************************************************)
(* Camera1Controller.kt: the controller CameraActivity uses up to Android   *)
(* M.  Camera.open and startPreview's wait run as tasks of a single-thread  *)
(* executor of the controller; everything else runs on the main thread.     *)
(* The fields are neither volatile nor guarded: what the executor writes    *)
(* reaches the main thread at any time before the executor posts something  *)
(* to it or calls the camera service.  A Camera object has the number of    *)
(* the call of openCamera that obtained it.  takePicture has no caller and  *)
(* is left out, as are the listeners for errors and frames, never set.      *)
(***************************************************************************)
EXTENDS Naturals, Sequences

CONSTANTS
    MaxControllers,  \* bound: controllers the activity may create
    MaxOpens,        \* bound: calls of openCamera
    Cameras,         \* camera ids (CameraInfo)
    Faults           \* the failures a run allows

ASSUME BoundsAssumption == MaxControllers \in Nat /\ MaxOpens \in Nat
ASSUME FaultsAssumption == Faults \subseteq {"openFails", "reorder"}

Controllers == 1..MaxControllers
Opens == 1..MaxOpens
None == 0

VARIABLES
    ctrl,       \* the fields of every controller, as the main thread sees them
    exec,       \* the executor of every controller: its queue and its thread
    unseen,     \* writes of each executor the main thread does not see yet
    posted,     \* main looper: controllers whose startPreview runnable is posted
    listeners,  \* SurfaceListeners of each controller registered on the holder
    toNotify,   \* controllers whose listeners surfaceChanged has yet to call
    surface,    \* the surface of svCamera is valid
    opens,      \* calls of openCamera so far
    asked,      \* the camera id of every call
    camera,     \* camera service: the Camera object of every call
    previewing, \* camera service: Camera objects with a running preview
    crashed

cvars == <<ctrl, exec, unseen, posted, listeners, toNotify, surface, opens, asked,
           camera, previewing, crashed>>

ControllerState == [isOpen : BOOLEAN, isOpening : BOOLEAN, mClose : BOOLEAN,
                    mCamera : Opens \cup {None}, mSurfaceView : BOOLEAN,
                    mListener : BOOLEAN]

Task == [kind : {"open", "preview"}, id : Opens \cup {None}]

(* pc: where the thread is in openCamera's task; got: the result of         *)
(* Camera.open, None when it failed.                                        *)
ExecState == [tasks : Seq(Task), pc : {"idle", "opening", "opened", "stored"},
              id : Opens \cup {None}, got : Opens \cup {None}]

Writes == {"mCamera", "isOpen", "isOpening"}

NewController == [isOpen |-> FALSE, isOpening |-> FALSE, mClose |-> FALSE,
                  mCamera |-> None, mSurfaceView |-> FALSE, mListener |-> FALSE]

ControllerInit(k) ==
    /\ ctrl = [c \in Controllers |-> NewController]
    /\ exec = [c \in Controllers |->
                 [tasks |-> <<>>, pc |-> "idle", id |-> None, got |-> None]]
    /\ unseen = [c \in Controllers |-> {}]
    /\ posted = <<>>
    /\ listeners = [c \in Controllers |-> 0]
    /\ toNotify = {}
    /\ surface = FALSE
    /\ opens = 0
    /\ asked = [o \in Opens |-> k]
    /\ camera = [o \in Opens |-> "none"]
    /\ previewing = {}
    /\ crashed = FALSE

-----------------------------------------------------------------------------
(* Main thread. *)

Submit(c, task) == exec' = [exec EXCEPT ![c].tasks = Append(@, task)]

(* Mutant of OpenCamera: the task is submitted a second time. *)
OpenCameraTwice(c, s, k) ==
    /\ opens < MaxOpens
    /\ opens' = opens + 2
    /\ asked' = [asked EXCEPT ![opens + 1] = k]
    /\ ctrl' = [ctrl EXCEPT ![c] = [s EXCEPT !.isOpening = TRUE]]
    /\ exec' = [exec EXCEPT ![c].tasks =
                  @ \o <<[kind |-> "open", id |-> opens + 1],
                         [kind |-> "open", id |-> opens + 2]>>]

(* openCamera on the fields s of controller c. *)
OpenCamera(c, s, k) ==
    /\ opens < MaxOpens
    /\ opens' = opens + 1
    /\ asked' = [asked EXCEPT ![opens + 1] = k]
    /\ ctrl' = [ctrl EXCEPT ![c] = [s EXCEPT !.isOpening = TRUE]]
    /\ Submit(c, [kind |-> "open", id |-> opens + 1])

(* setSurfaceListener registers a new SurfaceListener. *)
WithListener(s) == [s EXCEPT !.mSurfaceView = TRUE, !.mListener = TRUE]

AddListener(c) == listeners' = [listeners EXCEPT ![c] = @ + 1]

(* startPreview: with a camera in the field only the listener is set;       *)
(* without, a task waits behind the open.                                   *)
StartPreview(c) ==
    IF ctrl[c].mCamera # None
      THEN /\ ctrl' = [ctrl EXCEPT ![c] = WithListener(@)]
           /\ AddListener(c)
           /\ UNCHANGED exec
      ELSE /\ Submit(c, [kind |-> "preview", id |-> None])
           /\ UNCHANGED <<ctrl, listeners>>

(* closeCamera looks at the fields, removes the listener it knows and       *)
(* lowers the flags ...                                                     *)
MayClose(c) == ctrl[c].mCamera # None /\ ~ctrl[c].mClose

BeginClose(c) ==
    /\ MayClose(c)
    /\ IF ctrl[c].mSurfaceView
         THEN /\ ctrl' = [ctrl EXCEPT ![c].mListener = FALSE, ![c].mClose = TRUE,
                                      ![c].isOpen = FALSE]
              /\ listeners' = [listeners EXCEPT ![c] =
                                 IF ctrl[c].mListener THEN @ - 1 ELSE @]
              /\ UNCHANGED crashed
         ELSE /\ crashed' = TRUE
              /\ UNCHANGED <<ctrl, listeners>>

(* Mutant of EndClose: release is not called. *)
EndCloseKeepsCamera(c) ==
    /\ ctrl' = [ctrl EXCEPT ![c].mCamera = None, ![c].mSurfaceView = FALSE]
    /\ UNCHANGED <<camera, previewing, crashed>>

(* Mutant of EndClose: the field still names the released camera. *)
EndCloseKeepsField(c) ==
    /\ camera' = [o \in Opens |-> IF o = ctrl[c].mCamera THEN "released" ELSE camera[o]]
    /\ previewing' = previewing \ {ctrl[c].mCamera}
    /\ ctrl' = [ctrl EXCEPT ![c].mSurfaceView = FALSE]
    /\ UNCHANGED crashed

(* ... and stops and releases the camera the field names by then, which a   *)
(* failed open on the executor may have nulled.                             *)
EndClose(c) ==
    IF ctrl[c].mCamera # None
      THEN /\ camera' = [camera EXCEPT ![ctrl[c].mCamera] = "released"]
           /\ previewing' = previewing \ {ctrl[c].mCamera}
           /\ ctrl' = [ctrl EXCEPT ![c].mCamera = None, ![c].mSurfaceView = FALSE]
           /\ UNCHANGED crashed
      ELSE /\ crashed' = TRUE
           /\ UNCHANGED <<camera, previewing, ctrl>>

(* SurfaceListener.startPreview, on the fields s of its controller: without *)
(* a camera nothing; adjustView casts the window manager of a null view; a  *)
(* surface that is gone makes setPreviewDisplay throw before the preview    *)
(* starts, with the old one stopped.                                        *)
ShowPreview(s) ==
    /\ previewing' = IF s.mCamera = None \/ ~s.mSurfaceView THEN previewing
                     ELSE IF surface THEN previewing \cup {s.mCamera}
                     ELSE previewing \ {s.mCamera}
    /\ crashed' = (s.mCamera # None /\ ~s.mSurfaceView)

(* Mutant of RunPosted: the runnable registers the listener only. *)
RunPostedOnlyListens ==
    /\ posted # <<>>
    /\ ctrl' = [ctrl EXCEPT ![Head(posted)] = WithListener(@)]
    /\ AddListener(Head(posted))
    /\ posted' = Tail(posted)
    /\ UNCHANGED <<exec, unseen, toNotify, surface, opens, asked, camera,
                   previewing, crashed>>

(* The runnable startPreview's task posted. *)
RunPosted ==
    /\ posted # <<>>
    /\ LET c == Head(posted) IN
         /\ ctrl' = [ctrl EXCEPT ![c] = WithListener(@)]
         /\ AddListener(c)
         /\ ShowPreview(WithListener(ctrl[c]))
    /\ posted' = Tail(posted)
    /\ UNCHANGED <<exec, unseen, toNotify, surface, opens, asked, camera>>

(* SurfaceListener.surfaceChanged of the next controller's listeners. *)
SurfaceChanged(c) ==
    /\ ~crashed
    /\ c \in toNotify
    /\ toNotify' = toNotify \ {c}
    /\ ShowPreview(ctrl[c])
    /\ UNCHANGED <<ctrl, exec, unseen, posted, listeners, surface, opens, asked, camera>>

-----------------------------------------------------------------------------
(* Executor thread. *)

Idle(c) == ~crashed /\ exec[c].pc = "idle" /\ exec[c].tasks # <<>>

(* The field as the executor sees it: its own write, or the main thread's. *)
CameraField(c) == IF "mCamera" \in unseen[c] THEN exec[c].got ELSE ctrl[c].mCamera

TakeOpen(c) ==
    /\ Idle(c)
    /\ Head(exec[c].tasks).kind = "open"
    /\ ctrl' = [ctrl EXCEPT ![c].mClose = FALSE]
    /\ exec' = [exec EXCEPT ![c].tasks = Tail(@), ![c].pc = "opening",
                            ![c].id = Head(exec[c].tasks).id]
    /\ UNCHANGED <<unseen, posted, listeners, toNotify, surface, opens, asked,
                   camera, previewing, crashed>>

Busy(k) == \E o \in Opens : asked[o] = k /\ camera[o] = "open"

(* Camera.open returns: a camera is granted to one Camera object at a time. *)
(* The call into the service publishes what earlier tasks wrote.            *)
CameraOpens(c) ==
    /\ ~crashed
    /\ exec[c].pc = "opening"
    /\ unseen[c] = {}
    /\ ~Busy(asked[exec[c].id])
    /\ camera' = [camera EXCEPT ![exec[c].id] = "open"]
    /\ exec' = [exec EXCEPT ![c].pc = "opened", ![c].got = exec[c].id]
    /\ UNCHANGED <<ctrl, unseen, posted, listeners, toNotify, surface, opens, asked,
                   previewing, crashed>>

(* Camera.open throws, which openCameraReal catches. *)
CameraOpenThrows(c) ==
    /\ ~crashed
    /\ exec[c].pc = "opening"
    /\ unseen[c] = {}
    /\ Busy(asked[exec[c].id]) \/ "openFails" \in Faults
    /\ exec' = [exec EXCEPT ![c].pc = "opened", ![c].got = None]
    /\ UNCHANGED <<ctrl, unseen, posted, listeners, toNotify, surface, opens, asked,
                   camera, previewing, crashed>>

(* mCamera = c *)
StoreCamera(c) ==
    /\ ~crashed
    /\ exec[c].pc = "opened"
    /\ exec' = [exec EXCEPT ![c].pc = "stored"]
    /\ unseen' = [unseen EXCEPT ![c] = @ \cup {"mCamera"}]
    /\ UNCHANGED <<ctrl, posted, listeners, toNotify, surface, opens, asked,
                   camera, previewing, crashed>>

(* Mutant of SetFlags: isOpening is not cleared. *)
SetFlagsStillOpening(c) ==
    /\ ~crashed
    /\ exec[c].pc = "stored"
    /\ exec' = [exec EXCEPT ![c].pc = "idle", ![c].id = None]
    /\ unseen' = IF CameraField(c) # None
                   THEN [unseen EXCEPT ![c] = @ \cup {"isOpen"}]
                   ELSE unseen
    /\ UNCHANGED <<ctrl, posted, listeners, toNotify, surface, opens, asked,
                   camera, previewing, crashed>>

(* mCamera != null: the flags are set; otherwise the task ends as it is.    *)
SetFlags(c) ==
    /\ ~crashed
    /\ exec[c].pc = "stored"
    /\ exec' = [exec EXCEPT ![c].pc = "idle", ![c].id = None]
    /\ unseen' = IF CameraField(c) # None
                   THEN [unseen EXCEPT ![c] = @ \cup {"isOpen", "isOpening"}]
                   ELSE unseen
    /\ UNCHANGED <<ctrl, posted, listeners, toNotify, surface, opens, asked,
                   camera, previewing, crashed>>

(* The main thread sees one more write of the executor: in program order    *)
(* (mCamera, isOpen, isOpening), or in any order where the platform         *)
(* reorders plain writes.                                                   *)
InOrder(w, ws) == CASE w = "mCamera"   -> TRUE
                    [] w = "isOpen"    -> "mCamera" \notin ws
                    [] w = "isOpening" -> "mCamera" \notin ws /\ "isOpen" \notin ws

Reveal(c) ==
    /\ ~crashed
    /\ \E w \in unseen[c] :
         /\ InOrder(w, unseen[c]) \/ "reorder" \in Faults
         /\ unseen' = [unseen EXCEPT ![c] = @ \ {w}]
         /\ ctrl' = [ctrl EXCEPT ![c] =
              CASE w = "mCamera"   -> [@ EXCEPT !.mCamera = exec[c].got]
                [] w = "isOpen"    -> [@ EXCEPT !.isOpen = TRUE]
                [] w = "isOpening" -> [@ EXCEPT !.isOpening = FALSE]]
    /\ UNCHANGED <<exec, posted, listeners, toNotify, surface, opens, asked,
                   camera, previewing, crashed>>

(* The task of startPreview: it throws into its Future without a camera,    *)
(* and posts otherwise, which publishes all the executor wrote.             *)
TakePreview(c) ==
    /\ Idle(c)
    /\ Head(exec[c].tasks).kind = "preview"
    /\ exec' = [exec EXCEPT ![c].tasks = Tail(@)]
    /\ IF CameraField(c) = None
         THEN UNCHANGED posted
         ELSE unseen[c] = {} /\ posted' = Append(posted, c)
    /\ UNCHANGED <<ctrl, unseen, listeners, toNotify, surface, opens, asked,
                   camera, previewing, crashed>>

Executor(c) ==
    \/ TakeOpen(c) \/ CameraOpenThrows(c) \/ StoreCamera(c) \/ SetFlags(c)
    \/ Reveal(c) \/ TakePreview(c)
=============================================================================
