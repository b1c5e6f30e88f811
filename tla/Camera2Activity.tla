--------------------------- MODULE Camera2Activity ---------------------------
(***************************************************************************)
(* CameraActivity.kt above Android M: the lifecycle callbacks and the       *)
(* switch button drive the controllers of Camera2Controller.  The framework *)
(* calls the lifecycle in order; the surface of svCamera comes after        *)
(* onResume and is gone when onStop has run.                                *)
(***************************************************************************)
EXTENDS Camera2Controller

CONSTANTS
    FirstCamera,   \* CameraInfo.BACK_CAMERA, the initial mCameraId
    Habits         \* what the user and the device may do besides the patient

AllHabits == {"stopWhileBusy", "switchWhileBusy", "coldStart", "deviceFirst"}

ASSUME FirstCameraAssumption == FirstCamera \in Cameras
ASSUME HabitsAssumption == Habits \subseteq AllHabits

VARIABLES
    life,        \* how far the lifecycle of the activity is
    created,     \* controllers created so far
    current,     \* mCameraController
    mCameraId

avars == <<life, created, current, mCameraId>>
vars == <<cvars, avars>>

Lives == {"none", "created", "resumed", "paused", "stopped"}

(* The types of all variables.  Once the activity exists it has a           *)
(* controller.                                                              *)
TypeOK ==
    /\ ControllerOK
    /\ JobOK
    /\ ServiceOK
    /\ life \in Lives
    /\ created \in 0..MaxControllers
    /\ current \in 0..created
    /\ life # "none" => current \in Controllers
    /\ mCameraId \in Cameras

Init ==
    /\ ControllerInit(FirstCamera)
    /\ life = "none"
    /\ created = 0
    /\ current = None
    /\ mCameraId = FirstCamera

(* No open, session or surface job of the current controller is under way.  *)
Settled == \A j \in Jobs : job[j].pc \in {"idle", "done"}

-----------------------------------------------------------------------------
(* initCamera: a new controller opens mCameraId and starts the preview. *)
InitCamera ==
    LET c == created + 1 IN
      /\ created < MaxControllers
      /\ created' = c
      /\ current' = c
      /\ ctrl' = [ctrl EXCEPT ![c] = Opening(NewController(mCameraId), mCameraId)]
      /\ Launch(c, "open", mCameraId)
      /\ StartPreview(c)

OnCreate ==
    /\ MainFree
    /\ life = "none"
    /\ life' = "created"
    /\ InitCamera
    /\ UNCHANGED <<toNotify, surface, serviceVars, crashed, mCameraId>>

(* Mutant of OnResume: isOpening is not looked at. *)
OnResumeIgnoresOpening ==
    /\ MainFree
    /\ life \in {"created", "paused", "stopped"}
    /\ life' = "resumed"
    /\ IF ~ctrl[current].isOpen
         THEN InitCamera
         ELSE UNCHANGED <<created, current, ctrl, callbacks, nextJob, job, mainQueue>>
    /\ UNCHANGED <<toNotify, surface, serviceVars, crashed, mCameraId>>

(* onResume: a controller that is neither open nor opening is replaced.  A  *)
(* user of the habit coldStart does not come back to an activity whose      *)
(* device was first: its callback would outlive it (ClosedStaysQuiet).      *)
OnResume ==
    /\ MainFree
    /\ life \in {"created", "paused", "stopped"}
    /\ "coldStart" \in Habits /\ life = "stopped" => ~ctrl[current].needCreateCaptureSession
    /\ life' = "resumed"
    /\ IF ~ctrl[current].isOpen /\ ~ctrl[current].isOpening
         THEN InitCamera
         ELSE UNCHANGED <<created, current, ctrl, callbacks, nextJob, job, mainQueue>>
    /\ UNCHANGED <<toNotify, surface, serviceVars, crashed, mCameraId>>

OnPause ==
    /\ MainFree
    /\ life = "resumed"
    /\ life' = "paused"
    /\ UNCHANGED <<cvars, created, current, mCameraId>>

(* onStop closes the camera; the view loses its surface. *)
OnStop ==
    /\ MainFree
    /\ life = "paused"
    /\ Settled \/ "stopWhileBusy" \in Habits
    /\ life' = "stopped"
    /\ ctrl' = [ctrl EXCEPT ![current] = Closed(ctrl[current])]
    /\ CloseDevice(ctrl[current].mCameraDevice)
    /\ surface' = FALSE
    /\ UNCHANGED <<callbacks, toNotify, nextJob, job, mainQueue, session, crashed,
                   created, current, mCameraId>>

(* The switch button: close, turn to another camera, open it, start the     *)
(* preview, in one handler.                                                 *)
ClickSwitch ==
    /\ MainFree
    /\ life = "resumed"
    /\ surface
    /\ Settled \/ "switchWhileBusy" \in Habits
    /\ \E k \in Cameras \ {mCameraId} :
         /\ mCameraId' = k
         /\ ctrl' = [ctrl EXCEPT ![current] = Opening(Closed(ctrl[current]), k)]
         /\ Launch(current, "open", k)
    /\ CloseDevice(ctrl[current].mCameraDevice)
    /\ StartPreview(current)
    /\ UNCHANGED <<toNotify, surface, session, crashed, life, created, current>>

(* The view of a resumed activity gets its surface and starts to call the   *)
(* callbacks registered on its holder.                                      *)
SurfaceAppears ==
    /\ MainFree
    /\ life = "resumed"
    /\ ~surface
    /\ surface' = TRUE
    /\ toNotify' = callbacks
    /\ UNCHANGED <<ctrl, callbacks, nextJob, job, mainQueue, serviceVars, crashed, avars>>

-----------------------------------------------------------------------------
(* The patient environment's device answers after the surface is there, but *)
(* perhaps for the first controller of a process that is still starting.    *)
DeviceAnswers(j) ==
    /\ OnOpened(j)
    /\ \/ "deviceFirst" \in Habits
       \/ "coldStart" \in Habits /\ created = 1
       \/ ctrl[job[j].owner].surfaceCreated

System ==
    \/ SurfaceCreated /\ UNCHANGED avars
    \/ \E j \in Jobs :
         /\ MainJob(j) \/ DeviceAnswers(j) \/ OnConfigured(j) \/ OnConfigureFailed(j)
         /\ UNCHANGED avars

Failure ==
    /\ \E j \in Jobs : OnOpenError(j) \/ OnDisconnected(j) \/ OnLateError(j)
    /\ UNCHANGED avars

User == OnCreate \/ OnResume \/ OnPause \/ OnStop \/ ClickSwitch

Next == System \/ Failure \/ SurfaceAppears \/ User

(* The loopers and the camera service keep running, and a visible view gets *)
(* its surface; nothing obliges the user.                                   *)
Fairness ==
    /\ WF_vars(System)
    /\ WF_vars(SurfaceAppears)

Spec == Init /\ [][Next]_vars
FairSpec == Spec /\ Fairness

-----------------------------------------------------------------------------
(* Properties of every environment: impatient users, a device that answers  *)
(* before the surface exists, every failure of the service.                 *)

DeviceOf(c) == ctrl[c].mCameraDevice

InFlight(j) == job[j].kind = "open" /\ job[j].pc \in {"launched", "opening", "opened"}

(* However opens, closes, evictions and errors interleave, a controller     *)
(* that reports isOpen (read by onResume) has a device, and the device in   *)
(* its field was granted to a coroutine of this very controller, to no      *)
(* other, and was not closed: no use after close through the field.         *)
DeviceOwned ==
    \A c \in Controllers :
      /\ ctrl[c].isOpen => DeviceOf(c) # None
      /\ DeviceOf(c) # None =>
           /\ job[DeviceOf(c)].kind = "open"
           /\ job[DeviceOf(c)].owner = c
           /\ device[DeviceOf(c)] \in {"open", "lost"}

(* A device whose coroutine was resumed with it is never forgotten: it      *)
(* leaves the field mCameraDevice only by being closed (not so when the     *)
(* user switches again before the last open is through).                    *)
NoDeviceDropped ==
    [][\A c \in Controllers :
         DeviceOf(c) \notin {None, DeviceOf(c)'} => device'[DeviceOf(c)] = "closed"]_vars

(* isOpening, for which onResume waits, is backed by the controller's last  *)
(* request: it will be answered, also when earlier ones were evicted, or    *)
(* the service let it down: it threw or failed, or it was disconnected      *)
(* where no later request of the camera had evicted it.                     *)
WillReport(j) == InFlight(j) /\ (job[j].pc = "opening" => device[j] = "connecting")

LetDown(j) ==
    \/ job[j].pc \in {"done", "openFailed"} /\ device[j] \in {"none", "lost"}
    \/ /\ job[j].pc = "opening" /\ device[j] = "lost"
       /\ \A k \in Jobs : job[k].cam = job[j].cam /\ device[k] # "none" => k <= j

OpensOf(c) == {j \in Jobs : job[j].kind = "open" /\ job[j].owner = c}

OpeningHasRequest ==
    \A c \in Controllers :
      ctrl[c].isOpening =>
        \E j \in OpensOf(c) :
          /\ \A k \in OpensOf(c) : k <= j
          /\ job[j].cam = ctrl[c].cameraId
          /\ WillReport(j) \/ LetDown(j)

-----------------------------------------------------------------------------
(* Properties of the patient environment, where opens settle before the     *)
(* user goes on and nothing fails.                                          *)

HeldDevices == {d \in Jobs : device[d] \in {"connecting", "open", "lost"}}

(* The process never holds two devices, not even across the controllers a   *)
(* restarted activity leaves behind.                                        *)
OneDevice == \A d, e \in HeldDevices : d = e

(* A stopped activity holds no device and shows nothing: onStop closed the  *)
(* device of whichever controller had one.                                  *)
StoppedReleases == life = "stopped" => HeldDevices = {} /\ streaming = {}

(* Switching cameras never configures a session with a reader of a size     *)
(* left over from the other camera.                                         *)
ReaderFits ==
    \A j \in Jobs :
      job[j].pc = "configuring" => job[j].size \in Supported(job[job[j].on].cam)

(* No sequence of lifecycle callbacks ends in an uncaught exception. *)
NeverCrashes == ~crashed

(* The camera chosen on a resumed activity is eventually displayed, unless  *)
(* the user leaves or chooses again.                                        *)
ChoiceIsShown ==
    \A k \in Cameras :
      (life = "resumed" /\ mCameraId = k) ~>
        \/ life # "resumed"
        \/ mCameraId # k
        \/ \E d \in streaming : job[d].cam = k

(* What the activity sees of its current controller, as the interface       *)
(* CameraController describes it.                                           *)
Contract == INSTANCE CameraContract WITH
    phase <- IF current = None THEN "closed"
             ELSE IF ctrl[current].isOpening THEN "opening"
             ELSE IF ctrl[current].isOpen THEN "open" ELSE "closed",
    camera <- mCameraId,
    held <- {job[d].cam : d \in {e \in Jobs : device[e] = "open"}},
    showing <- {job[d].cam : d \in streaming}

ImplementsContract == Contract!Spec

-----------------------------------------------------------------------------
(* What CameraController.kt says of the interface and this code breaks. *)

(* closeCamera (line 28: close the camera and stop the preview): once the   *)
(* activity is stopped no device is open.                                   *)
CloseReleases == life = "stopped" => \A d \in Jobs : device[d] # "open"

(* isOpening (line 38: whether the camera is being opened): false when no   *)
(* request is under way.                                                    *)
OpeningIsTrue == Settled /\ life # "none" => ~ctrl[current].isOpening

(* closeCamera stops the preview for good: the surface of a later           *)
(* controller does not wake a closed one.                                   *)
ClosedStaysQuiet ==
    \A j \in Jobs :
      job[j].kind = "surface" /\ job[j].pc # "idle" => job[j].owner = current

(* isOpen (line 33: whether the camera is open): true when the controller   *)
(* has an open device and nothing is under way.                             *)
OpenIsTrue ==
    (Settled /\ life # "none" /\ DeviceOf(current) # None) =>
      (device[DeviceOf(current)] = "open" => ctrl[current].isOpen)

(* openCamera(id) (line 13: open the camera of the given id): when all is   *)
(* settled the device of the controller is the one asked for last.          *)
OpensGivenId ==
    (Settled /\ life = "resumed" /\ DeviceOf(current) # None) =>
      job[DeviceOf(current)].cam = mCameraId
=============================================================================
