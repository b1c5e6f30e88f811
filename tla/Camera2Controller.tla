-------------------------- MODULE Camera2Controller --------------------------
(***************************************************************************)
(* Camera2Controller.kt: the controller CameraActivity uses above Android   *)
(* M.  openCamera and the surfaceCreated callback launch coroutines on      *)
(* Dispatchers.Main; a coroutine runs on the main looper until it suspends  *)
(* and is posted to the looper again when the camera service (through       *)
(* mCameraHandler) or the view answers.  The lifecycle of the activity that *)
(* owns the controllers is in Camera2Activity.                              *)
(*                                                                         *)
(* A coroutine is a job; the job that opens a device gives the device its   *)
(* name, the job that creates a session gives the session its name.         *)
(* A size (width, height) is one number: readParams only accepts a size     *)
(* larger in both dimensions, so the sizes it compares are ordered.         *)
(***************************************************************************)
EXTENDS Naturals, Sequences

CONSTANTS
    MaxControllers,  \* bound: controllers the activity may create
    MaxJobs,         \* bound: coroutines that may be launched
    Cameras,         \* camera ids (CameraInfo)
    DefaultSize,     \* CameraParam.width x CameraParam.height
    OutputSizes,     \* YUV_420_888 sizes of each camera
    Faults           \* the failures of the camera service a run allows

AllFaults == {"openThrows", "openError", "disconnect", "lateError", "configFails"}

ASSUME BoundsAssumption == MaxControllers \in Nat /\ MaxJobs \in Nat
ASSUME SizesAssumption ==
    /\ DefaultSize \in Nat
    /\ OutputSizes \in [Cameras -> SUBSET Nat]
ASSUME FaultsAssumption == Faults \subseteq AllFaults

Controllers == 1..MaxControllers
Jobs == 1..MaxJobs
None == 0           \* null: no controller, no device, no session

VARIABLES
    ctrl,       \* the fields of every controller
    callbacks,  \* SurfaceHolder.Callbacks registered on svCamera, by controller
    toNotify,   \* callbacks the surfaceCreated dispatch under way has yet to call
    surface,    \* svCamera.holder.surface is valid
    nextJob,    \* coroutines launched so far
    job,        \* every coroutine
    mainQueue,  \* main looper: jobs whose continuation or view runnable is posted
    device,     \* camera service: the device of every open request
    session,    \* camera service: latest capture session of each device
    streaming,  \* camera service: devices with a repeating request
    crashed     \* an exception reached a thread's top level

controllerVars == <<ctrl, callbacks>>
serviceVars == <<device, session, streaming>>
cvars == <<ctrl, callbacks, toNotify, surface, nextJob, job, mainQueue,
           device, session, streaming, crashed>>

Sizes == {DefaultSize} \cup UNION {OutputSizes[k] : k \in Cameras}

ControllerState ==
    [isOpen : BOOLEAN, isOpening : BOOLEAN, cameraId : Cameras,
     width : Sizes, reader : Sizes \cup {None},
     mCameraDevice : Jobs \cup {None}, mCaptureSession : Jobs \cup {None},
     surfaceCreated : BOOLEAN, needCreateCaptureSession : BOOLEAN]

Pcs == {"idle", "launched", "opening", "opened", "openFailed", "ratio", "ratioSet",
        "configuring", "configured", "configFailed", "done"}

JobState == [kind : {"open", "surface"}, owner : Controllers \cup {None},
             cam : Cameras, pc : Pcs,
             on : Jobs \cup {None},         \* the device of the session it creates
             size : Sizes \cup {None}]      \* the size of that session's reader

DeviceStates == {"none", "connecting", "open", "lost", "closed"}

(* A camera supports the default size and its own output sizes; a stream    *)
(* of another size makes the session's configuration fail.                  *)
Supported(k) == {DefaultSize} \cup OutputSizes[k]

NewController(k) ==
    [isOpen |-> FALSE, isOpening |-> FALSE, cameraId |-> k,
     width |-> DefaultSize, reader |-> None,
     mCameraDevice |-> None, mCaptureSession |-> None,
     surfaceCreated |-> FALSE, needCreateCaptureSession |-> FALSE]

IdleJob(k) == [kind |-> "open", owner |-> None, cam |-> k, pc |-> "idle",
               on |-> None, size |-> None]

ControllerInit(k) ==
    /\ ctrl = [c \in Controllers |-> NewController(k)]
    /\ callbacks = <<>>
    /\ toNotify = <<>>
    /\ surface = FALSE
    /\ nextJob = 0
    /\ job = [j \in Jobs |-> IdleJob(k)]
    /\ mainQueue = <<>>
    /\ device = [j \in Jobs |-> "none"]
    /\ session = [j \in Jobs |-> None]
    /\ streaming = {}
    /\ crashed = FALSE

-----------------------------------------------------------------------------
(* The types of the controllers' part of the state: a coroutine is past     *)
(* "idle" once launched, belongs to a controller, and names the device of   *)
(* the session it waits for; the looper only holds launched coroutines.     *)
ControllerOK ==
    /\ ctrl \in [Controllers -> ControllerState]
    /\ callbacks \in Seq(Controllers)
    /\ toNotify \in Seq(Controllers)

JobOK ==
    /\ nextJob \in 0..MaxJobs
    /\ job \in [Jobs -> JobState]
    /\ \A j \in Jobs : job[j].pc # "idle" <=> j <= nextJob
    /\ \A j \in Jobs : job[j].pc # "idle" => job[j].owner \in Controllers
    /\ \A j \in Jobs : job[j].pc \in {"configuring", "configured"} => job[j].on \in Jobs
    /\ mainQueue \in Seq(1..nextJob)

ServiceOK ==
    /\ surface \in BOOLEAN
    /\ device \in [Jobs -> DeviceStates]
    /\ session \in [Jobs -> Jobs \cup {None}]
    /\ streaming \subseteq Jobs
    /\ crashed \in BOOLEAN

-----------------------------------------------------------------------------
(* What the activity calls.  Each operator maps the fields of a controller  *)
(* to its new fields; the caller is one handler on the main thread.         *)

(* Mutants of Closed: closeCamera forgets to reset one field. *)
ClosedKeepsDevice(s) == [s EXCEPT !.width = DefaultSize, !.isOpen = FALSE,
                                  !.mCaptureSession = None]
ClosedKeepsWidth(s) == [s EXCEPT !.isOpen = FALSE,
                                 !.mCaptureSession = None, !.mCameraDevice = None]
ClosedKeepsOpen(s) == [s EXCEPT !.width = DefaultSize,
                                !.mCaptureSession = None, !.mCameraDevice = None]

(* closeCamera: coroutines in flight and isOpening are left alone. *)
Closed(s) == [s EXCEPT !.width = DefaultSize, !.isOpen = FALSE,
                       !.mCaptureSession = None, !.mCameraDevice = None]

(* Mutant of CloseDevice: the call is missing. *)
CloseDeviceNever(d) == d \in Jobs \cup {None} /\ UNCHANGED <<device, streaming>>

(* mCameraDevice?.close() *)
CloseDevice(d) ==
    /\ device' = [e \in Jobs |-> IF e = d THEN "closed" ELSE device[e]]
    /\ streaming' = streaming \ {d}

(* openCamera: the fields it sets before it launches its coroutine. *)
Opening(s, k) == [s EXCEPT !.cameraId = k, !.isOpening = TRUE]

(* Mutant of Launch: the coroutine is posted twice. *)
LaunchTwice(c, kind, k) ==
    /\ nextJob < MaxJobs
    /\ nextJob' = nextJob + 1
    /\ job' = [job EXCEPT ![nextJob + 1] =
                 [kind |-> kind, owner |-> c, cam |-> k, pc |-> "launched",
                  on |-> None, size |-> None]]
    /\ mainQueue' = mainQueue \o <<nextJob + 1, nextJob + 2>>

(* coroutineScope.launch: the coroutine is posted to the main looper. *)
Launch(c, kind, k) ==
    /\ nextJob < MaxJobs
    /\ nextJob' = nextJob + 1
    /\ job' = [job EXCEPT ![nextJob + 1] =
                 [kind |-> kind, owner |-> c, cam |-> k, pc |-> "launched",
                  on |-> None, size |-> None]]
    /\ mainQueue' = Append(mainQueue, nextJob + 1)

(* startPreview registers one more callback; nothing ever removes one. *)
StartPreview(c) == callbacks' = Append(callbacks, c)

-----------------------------------------------------------------------------
(* The main thread runs one message at a time: no other message runs while  *)
(* SurfaceView is calling its callbacks, none after a crash.                *)
MainFree == ~crashed /\ toNotify = <<>>

(* The looper takes job j's message off the queue. *)
Dispatch(j) ==
    /\ MainFree
    /\ mainQueue # <<>>
    /\ j = Head(mainQueue)

Goto(j, pc) == job' = [job EXCEPT ![j].pc = pc]

(* An exception in the body of job j: openCamera's coroutine catches it and  *)
(* clears isOpen only, the one surfaceCreated launches has no handler.      *)
Fail(j) ==
    /\ Goto(j, "done")
    /\ IF job[j].kind = "open"
         THEN /\ ctrl' = [ctrl EXCEPT ![job[j].owner].isOpen = FALSE]
              /\ UNCHANGED crashed
         ELSE /\ crashed' = TRUE
              /\ UNCHANGED ctrl

(* readParams: the largest size, no smaller than the width left by an       *)
(* earlier call.  It asks for the field cameraId, not for the id the        *)
(* coroutine was launched with.                                             *)
LargestSize(s, w) ==
    /\ w \in OutputSizes[s.cameraId] \cup {s.width}
    /\ \A v \in OutputSizes[s.cameraId] \cup {s.width} : v <= w

(* openCamera's coroutine up to its suspension: readParams,                 *)
(* configureImageReader, CameraManager.openCamera.  The service accepts the *)
(* request and evicts the client that holds the same camera.                *)
StartOpen(j) ==
    /\ Dispatch(j)
    /\ job[j].pc = "launched"
    /\ job[j].kind = "open"
    /\ \E w \in Sizes :
         /\ LargestSize(ctrl[job[j].owner], w)
         /\ ctrl' = [ctrl EXCEPT ![job[j].owner].width = w, ![job[j].owner].reader = w]
    /\ Goto(j, "opening")
    /\ device' = [d \in Jobs |->
                    IF d = j THEN "connecting"
                    ELSE IF device[d] \in {"connecting", "open"} /\ job[d].cam = job[j].cam
                      THEN "lost" ELSE device[d]]
    /\ streaming' = {d \in streaming : job[d].cam # job[j].cam}
    /\ mainQueue' = Tail(mainQueue)
    /\ UNCHANGED <<callbacks, toNotify, surface, nextJob, session, crashed>>

(* readParams throws: the service is not available. *)
ReadParamsThrows(j) ==
    /\ "openThrows" \in Faults
    /\ Dispatch(j)
    /\ job[j].pc = "launched"
    /\ job[j].kind = "open"
    /\ Fail(j)
    /\ mainQueue' = Tail(mainQueue)
    /\ UNCHANGED <<callbacks, toNotify, surface, nextJob, serviceVars>>

(* openCamera throws, or the permission is missing. *)
OpenThrows(j) ==
    /\ "openThrows" \in Faults
    /\ Dispatch(j)
    /\ job[j].pc = "launched"
    /\ job[j].kind = "open"
    /\ \E w \in Sizes :
         /\ LargestSize(ctrl[job[j].owner], w)
         /\ ctrl' = [ctrl EXCEPT ![job[j].owner].width = w, ![job[j].owner].reader = w,
                                 ![job[j].owner].isOpen = FALSE]
    /\ Goto(j, "done")
    /\ mainQueue' = Tail(mainQueue)
    /\ UNCHANGED <<callbacks, toNotify, surface, nextJob, serviceVars, crashed>>

(* Mutants of ResumeOpened: isOpening is not cleared; the session is always *)
(* asked of the next surfaceCreated.                                        *)
ResumeOpenedStillOpening(j) ==
    /\ Dispatch(j)
    /\ job[j].pc = "opened"
    /\ ctrl' = [ctrl EXCEPT ![job[j].owner].mCameraDevice = j,
                            ![job[j].owner].isOpen = TRUE]
    /\ Goto(j, "ratio")
    /\ mainQueue' = Append(Tail(mainQueue), j)
    /\ UNCHANGED <<callbacks, toNotify, surface, nextJob, serviceVars, crashed>>

ResumeOpenedAlwaysNeeds(j) ==
    /\ Dispatch(j)
    /\ job[j].pc = "opened"
    /\ ctrl' = [ctrl EXCEPT ![job[j].owner].mCameraDevice = j,
                            ![job[j].owner].isOpening = FALSE,
                            ![job[j].owner].isOpen = TRUE,
                            ![job[j].owner].needCreateCaptureSession = TRUE]
    /\ Goto(j, "ratio")
    /\ mainQueue' = Append(Tail(mainQueue), j)
    /\ UNCHANGED <<callbacks, toNotify, surface, nextJob, serviceVars, crashed>>

(* The continuation of a successful open. *)
ResumeOpened(j) ==
    /\ Dispatch(j)
    /\ job[j].pc = "opened"
    /\ LET c == job[j].owner IN
         IF ctrl[c].surfaceCreated
         THEN /\ ctrl' = [ctrl EXCEPT ![c].mCameraDevice = j, ![c].isOpening = FALSE,
                                      ![c].isOpen = TRUE]
              /\ Goto(j, "ratio")
              /\ mainQueue' = Append(Tail(mainQueue), j)
         ELSE /\ ctrl' = [ctrl EXCEPT ![c].mCameraDevice = j, ![c].isOpening = FALSE,
                                      ![c].isOpen = TRUE,
                                      ![c].needCreateCaptureSession = TRUE]
              /\ Goto(j, "done")
              /\ mainQueue' = Tail(mainQueue)
    /\ UNCHANGED <<callbacks, toNotify, surface, nextJob, serviceVars, crashed>>

(* The continuation of a failed open or of a failed configuration. *)
ResumeFailed(j) ==
    /\ Dispatch(j)
    /\ job[j].pc \in {"openFailed", "configFailed"}
    /\ Fail(j)
    /\ mainQueue' = Tail(mainQueue)
    /\ UNCHANGED <<callbacks, toNotify, surface, nextJob, serviceVars>>

(* The coroutine of surfaceCreated: setSurfaceRatio posts to the view. *)
StartSurface(j) ==
    /\ Dispatch(j)
    /\ job[j].pc = "launched"
    /\ job[j].kind = "surface"
    /\ Goto(j, "ratio")
    /\ mainQueue' = Append(Tail(mainQueue), j)
    /\ UNCHANGED <<ctrl, callbacks, toNotify, surface, nextJob, serviceVars, crashed>>

(* The view runs the runnable of setSurfaceRatio, which resumes the         *)
(* continuation: it is posted behind what the looper holds by now.          *)
RatioPosted(j) ==
    /\ Dispatch(j)
    /\ job[j].pc = "ratio"
    /\ Goto(j, "ratioSet")
    /\ mainQueue' = Append(Tail(mainQueue), j)
    /\ UNCHANGED <<ctrl, callbacks, toNotify, surface, nextJob, serviceVars, crashed>>

(* The call of createCaptureSession returns: the device of the field at     *)
(* this moment, the reader of the field at this moment.                     *)
CanConfigure(c) ==
    /\ surface
    /\ ctrl[c].mCameraDevice # None
    /\ device[ctrl[c].mCameraDevice] = "open"

CreateSession(j) ==
    /\ Dispatch(j)
    /\ job[j].pc = "ratioSet"
    /\ CanConfigure(job[j].owner)
    /\ LET d == ctrl[job[j].owner].mCameraDevice IN
         /\ job' = [job EXCEPT ![j].pc = "configuring", ![j].on = d,
                               ![j].size = ctrl[job[j].owner].reader]
         /\ session' = [session EXCEPT ![d] = j]
         /\ streaming' = streaming \ {d}
    /\ mainQueue' = Tail(mainQueue)
    /\ UNCHANGED <<ctrl, callbacks, toNotify, surface, nextJob, device, crashed>>

(* mCameraDevice!! is null, the surface is abandoned, or the device is gone. *)
CreateSessionThrows(j) ==
    /\ Dispatch(j)
    /\ job[j].pc = "ratioSet"
    /\ ~CanConfigure(job[j].owner)
    /\ Fail(j)
    /\ mainQueue' = Tail(mainQueue)
    /\ UNCHANGED <<callbacks, toNotify, surface, nextJob, serviceVars>>

(* The continuation of onConfigured: the session is stored and asked for    *)
(* the preview; the request throws on a session that was replaced or whose  *)
(* device was closed or lost.                                               *)
SessionUsable(j) == device[job[j].on] = "open" /\ session[job[j].on] = j

ResumeConfigured(j) ==
    /\ Dispatch(j)
    /\ job[j].pc = "configured"
    /\ SessionUsable(j)
    /\ ctrl' = [ctrl EXCEPT ![job[j].owner].mCaptureSession = j]
    /\ streaming' = streaming \cup {job[j].on}
    /\ Goto(j, "done")
    /\ mainQueue' = Tail(mainQueue)
    /\ UNCHANGED <<callbacks, toNotify, surface, nextJob, device, session, crashed>>

RepeatingThrows(j) ==
    /\ Dispatch(j)
    /\ job[j].pc = "configured"
    /\ ~SessionUsable(j)
    /\ Goto(j, "done")
    /\ IF job[j].kind = "open"
         THEN /\ ctrl' = [ctrl EXCEPT ![job[j].owner].mCaptureSession = j,
                                      ![job[j].owner].isOpen = FALSE]
              /\ UNCHANGED crashed
         ELSE /\ ctrl' = [ctrl EXCEPT ![job[j].owner].mCaptureSession = j]
              /\ crashed' = TRUE
    /\ mainQueue' = Tail(mainQueue)
    /\ UNCHANGED <<callbacks, toNotify, surface, nextJob, serviceVars>>

MainJob(j) ==
    \/ StartOpen(j) \/ ReadParamsThrows(j) \/ OpenThrows(j)
    \/ ResumeOpened(j) \/ ResumeFailed(j)
    \/ StartSurface(j) \/ RatioPosted(j)
    \/ CreateSession(j) \/ CreateSessionThrows(j)
    \/ ResumeConfigured(j) \/ RepeatingThrows(j)

-----------------------------------------------------------------------------
(* Mutant of SurfaceCreated: needCreateCaptureSession is not looked at. *)
SurfaceCreatedOnlyNotes ==
    /\ ~crashed
    /\ toNotify # <<>>
    /\ ctrl' = [ctrl EXCEPT ![Head(toNotify)].surfaceCreated = TRUE]
    /\ toNotify' = Tail(toNotify)
    /\ UNCHANGED <<callbacks, surface, nextJob, job, mainQueue, serviceVars, crashed>>

(* SurfaceHolder.Callback.surfaceCreated of the next registered callback.   *)
SurfaceCreated ==
    /\ ~crashed
    /\ toNotify # <<>>
    /\ LET c == Head(toNotify) IN
         /\ ctrl' = [ctrl EXCEPT ![c].surfaceCreated = TRUE]
         /\ IF ctrl[c].needCreateCaptureSession
              THEN Launch(c, "surface", ctrl[c].cameraId)
              ELSE UNCHANGED <<nextJob, job, mainQueue>>
    /\ toNotify' = Tail(toNotify)
    /\ UNCHANGED <<callbacks, surface, serviceVars, crashed>>

-----------------------------------------------------------------------------
(* The camera service, on CameraThread (mCameraHandler).                    *)

Answer(j, pc) ==
    /\ ~crashed
    /\ Goto(j, pc)
    /\ mainQueue' = Append(mainQueue, j)
    /\ UNCHANGED <<ctrl, callbacks, toNotify, surface, nextJob, session, streaming, crashed>>

(* StateCallback.onOpened *)
OnOpened(j) ==
    /\ job[j].pc = "opening"
    /\ device[j] = "connecting"
    /\ device' = [device EXCEPT ![j] = "open"]
    /\ Answer(j, "opened")

(* StateCallback.onError instead of onOpened *)
OnOpenError(j) ==
    /\ "openError" \in Faults
    /\ job[j].pc = "opening"
    /\ device[j] = "connecting"
    /\ device' = [device EXCEPT ![j] = "lost"]
    /\ Answer(j, "openFailed")

(* StateCallback.onDisconnected: logged; a pending continuation stays so. *)
OnDisconnected(j) ==
    /\ "disconnect" \in Faults
    /\ ~crashed
    /\ device[j] \in {"connecting", "open"}
    /\ device' = [device EXCEPT ![j] = "lost"]
    /\ streaming' = streaming \ {j}
    /\ UNCHANGED <<ctrl, callbacks, toNotify, surface, nextJob, job, mainQueue,
                   session, crashed>>

(* StateCallback.onError after onOpened: the continuation is resumed a      *)
(* second time, which throws on the handler thread.                         *)
OnLateError(j) ==
    /\ "lateError" \in Faults
    /\ ~crashed
    /\ device[j] = "open"
    /\ device' = [device EXCEPT ![j] = "lost"]
    /\ streaming' = streaming \ {j}
    /\ crashed' = TRUE
    /\ UNCHANGED <<ctrl, callbacks, toNotify, surface, nextJob, job, mainQueue, session>>

(* CameraCaptureSession.StateCallback; posted when the session was made, so *)
(* it is delivered even when the device was closed since.                   *)
OnConfigured(j) ==
    /\ job[j].pc = "configuring"
    /\ job[j].size \in Supported(job[job[j].on].cam)
    /\ Answer(j, "configured")
    /\ UNCHANGED device

OnConfigureFailed(j) ==
    /\ job[j].pc = "configuring"
    /\ \/ "configFails" \in Faults
       \/ job[j].size \notin Supported(job[job[j].on].cam)
    /\ Answer(j, "configFailed")
    /\ UNCHANGED device
=============================================================================
