---------------------------- MODULE Camera2_proofs ----------------------------
(***************************************************************************)
(* Theorems of Camera2Activity, for every number of controllers and         *)
(* coroutines, every set of cameras, every habit and every fault.           *)
(***************************************************************************)
EXTENDS Camera2Activity, SequenceTheorems, TLAPS

(* What the looper hands out is a launched coroutine with an owner, and the *)
(* queue it leaves is well formed, also with the coroutine posted again.    *)
LEMMA DispatchType ==
  ASSUME TypeOK, NEW j \in Jobs, Dispatch(j)
  PROVE  /\ j \in 1..nextJob
         /\ job[j].pc # "idle"
         /\ job[j].owner \in Controllers
         /\ Tail(mainQueue) \in Seq(1..nextJob)
         /\ Append(Tail(mainQueue), j) \in Seq(1..nextJob)
<1>1. mainQueue \in Seq(1..nextJob) /\ mainQueue # <<>> /\ j = Head(mainQueue)
  BY DEF TypeOK, JobOK, Dispatch
<1>2. j \in 1..nextJob /\ Tail(mainQueue) \in Seq(1..nextJob)
  BY <1>1, HeadTailProperties
<1>3. Append(Tail(mainQueue), j) \in Seq(1..nextJob)
  BY <1>2, AppendProperties
<1>4. job[j].pc # "idle" /\ job[j].owner \in Controllers
  BY <1>2 DEF TypeOK, JobOK
<1>. QED  BY <1>2, <1>3, <1>4

(* A coroutine may go to any point but "idle" without disturbing JobOK, as  *)
(* long as it does not begin to wait for a session.                         *)
LEMMA GotoType ==
  ASSUME TypeOK, NEW j \in Jobs, job[j].pc # "idle",
         NEW pc \in Pcs \ {"idle", "configuring", "configured"}, Goto(j, pc),
         UNCHANGED nextJob, mainQueue' \in Seq(1..nextJob)
  PROVE  JobOK'
<1>1. /\ job \in [Jobs -> JobState]
      /\ job' = [job EXCEPT ![j].pc = pc]
  BY DEF TypeOK, JobOK, Goto
<1>2. job' \in [Jobs -> JobState]
  BY <1>1 DEF JobState
<1>3. \A i \in Jobs : /\ job'[i].pc = IF i = j THEN pc ELSE job[i].pc
                      /\ job'[i].owner = job[i].owner
                      /\ job'[i].on = job[i].on
  BY <1>1 DEF JobState
<1>. QED  BY <1>2, <1>3 DEF TypeOK, JobOK

(* Launching a coroutine keeps JobOK: the new one was idle until now. *)
LEMMA LaunchType ==
  ASSUME TypeOK, NEW c \in Controllers, NEW kind \in {"open", "surface"},
         NEW k \in Cameras, Launch(c, kind, k)
  PROVE  JobOK'
<1> DEFINE n == nextJob + 1
           new == [kind |-> kind, owner |-> c, cam |-> k, pc |-> "launched",
                   on |-> None, size |-> None]
<1>1. nextJob \in Nat /\ n \in Jobs /\ nextJob' = n
  BY BoundsAssumption DEF TypeOK, JobOK, Launch, Jobs
<1>2. job' = [job EXCEPT ![n] = new] /\ mainQueue' = Append(mainQueue, n)
  BY DEF Launch
<1>3. new \in JobState
  BY DEF JobState, Pcs
<1>4. job' \in [Jobs -> JobState]
  BY <1>1, <1>2, <1>3 DEF TypeOK, JobOK
<1>5. \A i \in Jobs : job'[i] = IF i = n THEN new ELSE job[i]
  BY <1>1, <1>2 DEF TypeOK, JobOK
<1>6. mainQueue \in Seq(1..nextJob) /\ 1..nextJob \subseteq 1..n /\ n \in 1..n
  BY <1>1 DEF TypeOK, JobOK
<1>7. mainQueue' \in Seq(1..nextJob')
  BY <1>1, <1>2, <1>6, SeqMonotonic, AppendProperties
<1>8. \A i \in Jobs : job'[i].pc # "idle" <=> i <= nextJob'
  BY <1>1, <1>5 DEF TypeOK, JobOK, Jobs
<1>9. \A i \in Jobs : job'[i].pc # "idle" => job'[i].owner \in Controllers
  BY <1>5 DEF TypeOK, JobOK
<1>10. \A i \in Jobs : job'[i].pc \in {"configuring", "configured"} => job'[i].on \in Jobs
  BY <1>5 DEF TypeOK, JobOK
<1>11. nextJob' \in 0..MaxJobs
  BY <1>1 DEF Jobs
<1>. QED  BY <1>4, <1>7, <1>8, <1>9, <1>10, <1>11 DEF JobOK

(* A failing coroutine is done and changes one field of its owner. *)
LEMMA FailType ==
  ASSUME TypeOK, NEW j \in Jobs, job[j].pc # "idle", job[j].owner \in Controllers,
         Fail(j), UNCHANGED <<nextJob, callbacks, toNotify>>,
         mainQueue' \in Seq(1..nextJob)
  PROVE  JobOK' /\ ControllerOK' /\ crashed' \in BOOLEAN
<1>1. JobOK'
  BY GotoType DEF Fail, Pcs
<1>2. ctrl' \in [Controllers -> ControllerState]
  <2>1. ctrl[job[j].owner] \in ControllerState
    BY DEF TypeOK, ControllerOK
  <2>2. [ctrl[job[j].owner] EXCEPT !.isOpen = FALSE] \in ControllerState
    BY <2>1 DEF ControllerState
  <2>. QED  BY <2>2 DEF Fail, TypeOK, ControllerOK
<1>3. crashed' \in BOOLEAN
  BY DEF Fail, TypeOK, ServiceOK
<1>. QED  BY <1>1, <1>2, <1>3 DEF TypeOK, ControllerOK

-----------------------------------------------------------------------------
(* Type correctness, action by action: first the coroutines, on the looper. *)
LEMMA MainJobType ==
  ASSUME TypeOK, NEW j \in Jobs, MainJob(j)
  PROVE  ControllerOK' /\ JobOK' /\ ServiceOK'
<1> DEFINE c == job[j].owner
           L == job[j].pc # "idle" /\ c \in Controllers /\ ctrl[c] \in ControllerState
           Q == /\ Tail(mainQueue) \in Seq(1..nextJob)
                /\ Append(Tail(mainQueue), j) \in Seq(1..nextJob)
<1>1. Dispatch(j)
  BY DEF MainJob, StartOpen, ReadParamsThrows, OpenThrows, ResumeOpened, ResumeFailed,
         StartSurface, RatioPosted, CreateSession, CreateSessionThrows,
         ResumeConfigured, RepeatingThrows
<1>2. L /\ Q
  BY <1>1, DispatchType DEF TypeOK, ControllerOK
<1> HIDE DEF L, Q
<1>3. CASE StartOpen(j)
  <2>1. JobOK'
    BY <1>2, <1>3, GotoType DEF StartOpen, L, Q, Pcs
  <2>2. ControllerOK'
    <3>1. PICK w \in Sizes : ctrl' = [ctrl EXCEPT ![c].width = w, ![c].reader = w]
      BY <1>3 DEF StartOpen
    <3>2. [ctrl[c] EXCEPT !.width = w, !.reader = w] \in ControllerState
      BY <1>2, <3>1 DEF L, ControllerState
    <3>3. ctrl' = [ctrl EXCEPT ![c] = [ctrl[c] EXCEPT !.width = w, !.reader = w]]
      BY <3>1
    <3>4. ctrl' \in [Controllers -> ControllerState]
      BY <3>2, <3>3 DEF TypeOK, ControllerOK
    <3>. QED  BY <1>3, <3>4 DEF StartOpen, TypeOK, ControllerOK
  <2>3. ServiceOK'
    BY <1>3 DEF StartOpen, TypeOK, ServiceOK, DeviceStates
  <2>. QED  BY <2>1, <2>2, <2>3
<1>4. CASE ReadParamsThrows(j)
  BY <1>2, <1>4, FailType
     DEF ReadParamsThrows, L, Q, TypeOK, ServiceOK, serviceVars
<1>5. CASE OpenThrows(j)
  <2>1. JobOK'
    BY <1>2, <1>5, GotoType DEF OpenThrows, L, Q, Pcs
  <2>2. ControllerOK'
    <3>1. PICK w \in Sizes : ctrl' = [ctrl EXCEPT ![c].width = w, ![c].reader = w,
                                                  ![c].isOpen = FALSE]
      BY <1>5 DEF OpenThrows
    <3>2. [ctrl[c] EXCEPT !.width = w, !.reader = w, !.isOpen = FALSE] \in ControllerState
      BY <1>2, <3>1 DEF L, ControllerState
    <3>3. ctrl' = [ctrl EXCEPT ![c] =
                     [ctrl[c] EXCEPT !.width = w, !.reader = w, !.isOpen = FALSE]]
      BY <3>1
    <3>4. ctrl' \in [Controllers -> ControllerState]
      BY <3>2, <3>3 DEF TypeOK, ControllerOK
    <3>. QED  BY <1>5, <3>4 DEF OpenThrows, TypeOK, ControllerOK
  <2>. QED  BY <1>5, <2>1, <2>2 DEF OpenThrows, TypeOK, ServiceOK, serviceVars
<1>6. CASE ResumeOpened(j)
  <2>1. JobOK'
    BY <1>2, <1>6, GotoType DEF ResumeOpened, L, Q, Pcs
  <2>2. ctrl' \in [Controllers -> ControllerState]
    <3> DEFINE s == [ctrl[c] EXCEPT !.mCameraDevice = j, !.isOpening = FALSE,
                                    !.isOpen = TRUE]
               t == [ctrl[c] EXCEPT !.mCameraDevice = j, !.isOpening = FALSE,
                                    !.isOpen = TRUE, !.needCreateCaptureSession = TRUE]
    <3>1. s \in ControllerState /\ t \in ControllerState
      BY <1>2 DEF L, ControllerState
    <3>2. ctrl' = [ctrl EXCEPT ![c] = s] \/ ctrl' = [ctrl EXCEPT ![c] = t]
      BY <1>6 DEF ResumeOpened
    <3>. QED  BY <3>1, <3>2 DEF TypeOK, ControllerOK
  <2>. QED  BY <1>6, <2>1, <2>2 DEF ResumeOpened, TypeOK, ControllerOK, ServiceOK, serviceVars
<1>7. CASE ResumeFailed(j)
  BY <1>2, <1>7, FailType
     DEF ResumeFailed, L, Q, TypeOK, ServiceOK, serviceVars
<1>8. CASE StartSurface(j)
  <2>1. JobOK'
    BY <1>2, <1>8, GotoType DEF StartSurface, L, Q, Pcs
  <2>. QED  BY <1>8, <2>1 DEF StartSurface, TypeOK, ControllerOK, ServiceOK, serviceVars
<1>9. CASE RatioPosted(j)
  <2>1. JobOK'
    BY <1>2, <1>9, GotoType DEF RatioPosted, L, Q, Pcs
  <2>. QED  BY <1>9, <2>1 DEF RatioPosted, TypeOK, ControllerOK, ServiceOK, serviceVars
<1>10. CASE CreateSession(j)
  <2> DEFINE d == ctrl[c].mCameraDevice
             w == [job[j] EXCEPT !.pc = "configuring", !.on = d, !.size = ctrl[c].reader]
  <2>1. d \in Jobs /\ job[j] \in JobState
    BY <1>2, <1>10
       DEF CreateSession, CanConfigure, L, ControllerState, TypeOK, JobOK
  <2>2. w \in JobState
    BY <1>2, <2>1 DEF L, JobState, ControllerState, Pcs
  <2>3. job' = [job EXCEPT ![j] = w]
    BY <1>10 DEF CreateSession
  <2>4. \A i \in Jobs : job'[i] = IF i = j THEN w ELSE job[i]
    BY <2>3 DEF TypeOK, JobOK
  <2>5. w.pc = "configuring" /\ w.on \in Jobs /\ w.owner = c
    BY <2>1 DEF JobState
  <2>6. JobOK'
    <3>1. job' \in [Jobs -> JobState]
      BY <2>2, <2>3 DEF TypeOK, JobOK
    <3>. QED  BY <1>2, <1>10, <2>4, <2>5, <3>1 DEF CreateSession, L, Q, TypeOK, JobOK
  <2>7. ServiceOK'
    BY <1>10, <2>1 DEF CreateSession, TypeOK, ServiceOK
  <2>. QED  BY <1>10, <2>6, <2>7 DEF CreateSession, TypeOK, ControllerOK
<1>11. CASE CreateSessionThrows(j)
  BY <1>2, <1>11, FailType
     DEF CreateSessionThrows, L, Q, TypeOK, ServiceOK, serviceVars
<1>12. CASE ResumeConfigured(j)
  <2>1. JobOK'
    BY <1>2, <1>12, GotoType DEF ResumeConfigured, L, Q, Pcs
  <2>2. [ctrl[c] EXCEPT !.mCaptureSession = j] \in ControllerState
    BY <1>2 DEF L, ControllerState
  <2>3. ctrl' \in [Controllers -> ControllerState]
    BY <1>12, <2>2 DEF ResumeConfigured, TypeOK, ControllerOK
  <2>4. job[j].on \in Jobs
    BY <1>12 DEF ResumeConfigured, TypeOK, JobOK
  <2>. QED
    BY <1>12, <2>1, <2>3, <2>4 DEF ResumeConfigured, TypeOK, ControllerOK, ServiceOK
<1>13. CASE RepeatingThrows(j)
  <2>1. JobOK'
    BY <1>2, <1>13, GotoType DEF RepeatingThrows, L, Q, Pcs
  <2>2. ctrl' \in [Controllers -> ControllerState]
    <3> DEFINE s == [ctrl[c] EXCEPT !.mCaptureSession = j, !.isOpen = FALSE]
               t == [ctrl[c] EXCEPT !.mCaptureSession = j]
    <3>1. s \in ControllerState /\ t \in ControllerState
      BY <1>2 DEF L, ControllerState
    <3>2. ctrl' = [ctrl EXCEPT ![c] = s] \/ ctrl' = [ctrl EXCEPT ![c] = t]
      BY <1>13 DEF RepeatingThrows
    <3>. QED  BY <3>1, <3>2 DEF TypeOK, ControllerOK
  <2>. QED
    BY <1>13, <2>1, <2>2 DEF RepeatingThrows, TypeOK, ControllerOK, ServiceOK, serviceVars
<1>. QED
  BY <1>3, <1>4, <1>5, <1>6, <1>7, <1>8, <1>9, <1>10, <1>11, <1>12, <1>13 DEF MainJob

(* An answer of the camera service posts the coroutine that waits for it. *)
LEMMA AnswerType ==
  ASSUME TypeOK, NEW j \in Jobs, job[j].pc # "idle",
         NEW pc \in Pcs \ {"idle", "configuring"}, Answer(j, pc),
         pc = "configured" => job[j].on \in Jobs
  PROVE  ControllerOK' /\ JobOK'
<1>1. j \in 1..nextJob
  BY DEF TypeOK, JobOK, Jobs
<1>2. mainQueue' \in Seq(1..nextJob)
  BY <1>1, AppendProperties DEF Answer, TypeOK, JobOK
<1>3. /\ job \in [Jobs -> JobState]
      /\ job' = [job EXCEPT ![j].pc = pc]
  BY DEF TypeOK, JobOK, Answer, Goto
<1>4. job' \in [Jobs -> JobState]
  BY <1>3 DEF JobState
<1>5. \A i \in Jobs : /\ job'[i].pc = IF i = j THEN pc ELSE job[i].pc
                      /\ job'[i].owner = job[i].owner
                      /\ job'[i].on = job[i].on
  BY <1>3 DEF JobState
<1>6. nextJob' = nextJob /\ ControllerOK'
  BY DEF Answer, TypeOK, ControllerOK
<1>. QED  BY <1>2, <1>4, <1>5, <1>6 DEF TypeOK, JobOK

(* The callbacks of the camera service.                                    *)
LEMMA ServiceType ==
  ASSUME TypeOK, NEW j \in Jobs,
         \/ OnOpened(j) \/ OnConfigured(j) \/ OnConfigureFailed(j)
         \/ OnOpenError(j) \/ OnDisconnected(j) \/ OnLateError(j)
  PROVE  ControllerOK' /\ JobOK' /\ ServiceOK'
<1>1. CASE OnOpened(j)
  BY <1>1, AnswerType DEF OnOpened, Answer, Pcs, TypeOK, ServiceOK, DeviceStates
<1>2. CASE OnConfigured(j)
  <2>1. job[j].on \in Jobs
    BY <1>2 DEF OnConfigured, TypeOK, JobOK
  <2>. QED  BY <1>2, <2>1, AnswerType DEF OnConfigured, Answer, Pcs, TypeOK, ServiceOK
<1>3. CASE OnConfigureFailed(j)
  BY <1>3, AnswerType DEF OnConfigureFailed, Answer, Pcs, TypeOK, ServiceOK
<1>4. CASE OnOpenError(j)
  BY <1>4, AnswerType DEF OnOpenError, Answer, Pcs, TypeOK, ServiceOK, DeviceStates
<1>5. CASE OnDisconnected(j)
  BY <1>5 DEF OnDisconnected, TypeOK, ControllerOK, JobOK, ServiceOK, DeviceStates
<1>6. CASE OnLateError(j)
  BY <1>6 DEF OnLateError, TypeOK, ControllerOK, JobOK, ServiceOK, DeviceStates
<1>. QED  BY <1>1, <1>2, <1>3, <1>4, <1>5, <1>6

(* The surface wakes the callbacks that wait for it.                       *)
LEMMA SurfaceCreatedType ==
  ASSUME TypeOK, SurfaceCreated
  PROVE  ControllerOK' /\ JobOK' /\ ServiceOK'
<1> DEFINE c == Head(toNotify)
           s == [ctrl[c] EXCEPT !.surfaceCreated = TRUE]
<1>1. c \in Controllers /\ toNotify' \in Seq(Controllers)
  BY HeadTailProperties DEF SurfaceCreated, TypeOK, ControllerOK
<1>2. ctrl[c] \in ControllerState /\ s \in ControllerState /\ ctrl[c].cameraId \in Cameras
  BY <1>1 DEF TypeOK, ControllerOK, ControllerState
<1>3. ctrl' = [ctrl EXCEPT ![c] = s]
  BY DEF SurfaceCreated
<1>4. ControllerOK'
  BY <1>1, <1>2, <1>3 DEF SurfaceCreated, TypeOK, ControllerOK
<1>5. JobOK'
  BY <1>1, <1>2, LaunchType DEF SurfaceCreated, TypeOK, JobOK
<1>6. ServiceOK'
  BY DEF SurfaceCreated, serviceVars, TypeOK, ServiceOK
<1>. QED  BY <1>4, <1>5, <1>6

-----------------------------------------------------------------------------
(* The activity's side. *)
LEMMA InitCameraType ==
  ASSUME TypeOK, InitCamera, UNCHANGED toNotify
  PROVE  /\ ControllerOK' /\ JobOK'
         /\ created' \in 0..MaxControllers
         /\ current' \in 0..created' /\ current' \in Controllers
<1> DEFINE c == created + 1
           s == Opening(NewController(mCameraId), mCameraId)
<1>1. c \in Controllers /\ c \in 0..MaxControllers /\ created' = c /\ current' = c
  BY BoundsAssumption DEF InitCamera, TypeOK, Controllers
<1>2. s \in ControllerState
  BY DEF TypeOK, Opening, NewController, ControllerState, Sizes
<1>3. ctrl' \in [Controllers -> ControllerState]
  BY <1>1, <1>2 DEF InitCamera, TypeOK, ControllerOK
<1>4. callbacks' \in Seq(Controllers)
  BY <1>1, AppendProperties DEF InitCamera, StartPreview, TypeOK, ControllerOK
<1>5. JobOK'
  BY <1>1, LaunchType DEF InitCamera, TypeOK
<1>. QED  BY <1>1, <1>3, <1>4, <1>5 DEF TypeOK, ControllerOK

(* close() of a device, or of none.                                        *)
LEMMA CloseDeviceType ==
  ASSUME TypeOK, NEW d, CloseDevice(d)
  PROVE  /\ device' \in [Jobs -> DeviceStates]
         /\ streaming' \subseteq Jobs
BY DEF CloseDevice, TypeOK, ServiceOK, DeviceStates

(* A controller that has closed what it had.                               *)
LEMMA ClosedType ==
  ASSUME NEW s \in ControllerState
  PROVE  Closed(s) \in ControllerState
BY DEF Closed, ControllerState, Sizes

(* onStop with closeCamera.                                                *)
LEMMA OnStopType ==
  ASSUME TypeOK, OnStop
  PROVE  TypeOK'
<1>1. current \in Controllers
  BY DEF OnStop, TypeOK
<1>2. Closed(ctrl[current]) \in ControllerState
  BY <1>1, ClosedType DEF TypeOK, ControllerOK
<1>3. ControllerOK'
  BY <1>1, <1>2 DEF OnStop, TypeOK, ControllerOK
<1>4. JobOK'
  BY DEF OnStop, TypeOK, JobOK
<1>5. ServiceOK'
  BY CloseDeviceType DEF OnStop, TypeOK, ServiceOK
<1>. QED  BY <1>1, <1>3, <1>4, <1>5 DEF OnStop, TypeOK, Lives

(* The switch: closeCamera, then a new controller.                         *)
LEMMA ClickSwitchType ==
  ASSUME TypeOK, ClickSwitch
  PROVE  TypeOK'
<1>1. current \in Controllers
  BY DEF ClickSwitch, TypeOK
<1>2. PICK k \in Cameras :
         /\ mCameraId' = k
         /\ ctrl' = [ctrl EXCEPT ![current] = Opening(Closed(ctrl[current]), k)]
         /\ Launch(current, "open", k)
  BY DEF ClickSwitch
<1>3. Closed(ctrl[current]) \in ControllerState
  BY <1>1, ClosedType DEF TypeOK, ControllerOK
<1>4. Opening(Closed(ctrl[current]), k) \in ControllerState
  BY <1>3 DEF Opening, ControllerState
<1>5. ctrl' \in [Controllers -> ControllerState]
  BY <1>1, <1>2, <1>4 DEF TypeOK, ControllerOK
<1>6. callbacks' \in Seq(Controllers)
  BY <1>1, AppendProperties DEF ClickSwitch, StartPreview, TypeOK, ControllerOK
<1>7. JobOK'
  BY <1>1, <1>2, LaunchType
<1>8. ServiceOK'
  BY CloseDeviceType DEF ClickSwitch, TypeOK, ServiceOK
<1>. QED
  BY <1>1, <1>2, <1>5, <1>6, <1>7, <1>8 DEF ClickSwitch, TypeOK, ControllerOK

(* Every step keeps the types.                                             *)
LEMMA TypeStep == TypeOK /\ [Next]_vars => TypeOK'
<1> SUFFICES ASSUME TypeOK, [Next]_vars
             PROVE  TypeOK'
  OBVIOUS
<1>1. CASE System
  <2>1. ControllerOK' /\ JobOK' /\ ServiceOK' /\ UNCHANGED avars
    BY <1>1, MainJobType, ServiceType, SurfaceCreatedType DEF System, DeviceAnswers
  <2>. QED  BY <2>1 DEF avars, TypeOK
<1>2. CASE Failure
  <2>1. ControllerOK' /\ JobOK' /\ ServiceOK' /\ UNCHANGED avars
    BY <1>2, ServiceType DEF Failure
  <2>. QED  BY <2>1 DEF avars, TypeOK
<1>3. CASE SurfaceAppears
  BY <1>3 DEF SurfaceAppears, avars, serviceVars, TypeOK, ControllerOK, JobOK, ServiceOK
<1>4. CASE OnCreate
  <2>1. InitCamera /\ UNCHANGED toNotify
    BY <1>4 DEF OnCreate
  <2>2. ServiceOK' /\ life' \in Lives /\ mCameraId' \in Cameras
    BY <1>4 DEF OnCreate, serviceVars, TypeOK, ServiceOK, Lives
  <2>. QED  BY <2>1, <2>2, InitCameraType DEF TypeOK
<1>5. CASE OnResume
  <2>1. ServiceOK' /\ life' \in Lives /\ mCameraId' \in Cameras /\ UNCHANGED toNotify
    BY <1>5 DEF OnResume, serviceVars, TypeOK, ServiceOK, Lives
  <2>2. CASE InitCamera
    BY <2>1, <2>2, InitCameraType DEF TypeOK
  <2>3. CASE UNCHANGED <<created, current, ctrl, callbacks, nextJob, job, mainQueue>>
    <3>1. current \in Controllers
      BY <1>5 DEF OnResume, TypeOK
    <3>. QED  BY <2>1, <2>3, <3>1 DEF TypeOK, ControllerOK, JobOK
  <2>. QED  BY <1>5, <2>2, <2>3 DEF OnResume
<1>6. CASE OnPause
  BY <1>6 DEF OnPause, cvars, TypeOK, ControllerOK, JobOK, ServiceOK, Lives
<1>7. CASE OnStop
  BY <1>7, OnStopType
<1>8. CASE ClickSwitch
  BY <1>8, ClickSwitchType
<1>9. CASE UNCHANGED vars
  BY <1>9 DEF vars, cvars, avars, TypeOK, ControllerOK, JobOK, ServiceOK
<1>. QED
  BY <1>1, <1>2, <1>3, <1>4, <1>5, <1>6, <1>7, <1>8, <1>9 DEF Next, User

(* The process starts well typed.                                          *)
LEMMA TypeInit == Init => TypeOK
<1> SUFFICES ASSUME Init PROVE TypeOK
  OBVIOUS
<1>1. FirstCamera \in Cameras
  BY FirstCameraAssumption
<1>2. ControllerOK
  BY <1>1 DEF Init, ControllerInit, ControllerOK, NewController, ControllerState, Sizes
<1>3. JobOK
  BY <1>1, BoundsAssumption
     DEF Init, ControllerInit, JobOK, IdleJob, JobState, Pcs, Jobs
<1>4. ServiceOK
  BY DEF Init, ControllerInit, ServiceOK, DeviceStates
<1>. QED
  BY <1>1, <1>2, <1>3, <1>4, BoundsAssumption DEF Init, TypeOK, Lives, None

(* Every reachable state of the activity, its controllers, the looper and   *)
(* the camera service is well typed: the looper only runs coroutines that   *)
(* were launched, and an activity that exists has a controller.             *)
THEOREM TypeCorrect == Spec => []TypeOK
<1>1. Init => TypeOK
  BY TypeInit
<1>2. TypeOK /\ [Next]_vars => TypeOK'
  BY TypeStep
<1>. QED  BY <1>1, <1>2, PTL DEF Spec

-----------------------------------------------------------------------------
(* Ownership of devices.  DeviceOwned is not inductive: it has to know that *)
(* a device in a field was already handed to its coroutine (Delivered), so  *)
(* that no coroutine delivers it a second time, and that the device a       *)
(* resumed coroutine brings was granted (Granted).                          *)
Late == {"ratio", "ratioSet", "configuring", "configured", "configFailed", "done"}

Delivered ==
  \A c \in Controllers : DeviceOf(c) # None => job[DeviceOf(c)].pc \in Late

Granted ==
  \A j \in Jobs :
    /\ job[j].pc \in {"opening", "opened", "openFailed"} => job[j].kind = "open"
    /\ job[j].pc = "opened" => device[j] \in {"open", "lost"}

DeviceInv == TypeOK /\ DeviceOwned /\ Delivered /\ Granted

(* Steps that leave the device fields alone, open nothing, lose no delivered *)
(* coroutine and close no device keep devices owned.                        *)
LEMMA DeviceFrame ==
  ASSUME DeviceInv,
         \A c \in Controllers : /\ DeviceOf(c)' = DeviceOf(c)
                                /\ ctrl'[c].isOpen => ctrl[c].isOpen,
         \A j \in Jobs : job[j].pc \in Late =>
                           /\ job'[j].pc \in Late
                           /\ job'[j].kind = job[j].kind
                           /\ job'[j].owner = job[j].owner,
         \A j \in Jobs : job[j].pc \in Late /\ device[j] \in {"open", "lost"} =>
                           device'[j] \in {"open", "lost"}
  PROVE  DeviceOwned' /\ Delivered'
<1>1. \A c \in Controllers : DeviceOf(c) # None => DeviceOf(c) \in Jobs
  BY DEF DeviceInv, TypeOK, ControllerOK, ControllerState, DeviceOf
<1>2. Delivered'
  BY <1>1 DEF DeviceInv, Delivered
<1>3. DeviceOwned'
  BY <1>1 DEF DeviceInv, Delivered, DeviceOwned
<1>. QED  BY <1>2, <1>3

(* What a launch does to the other coroutines: nothing. *)
LEMMA LaunchFrame ==
  ASSUME TypeOK, NEW c, NEW kind, NEW k, Launch(c, kind, k)
  PROVE  /\ \A j \in Jobs : job[j].pc # "idle" => job'[j] = job[j]
         /\ \A j \in Jobs : job'[j] = job[j] \/
                            (job'[j].pc = "launched" /\ job'[j].kind = kind
                             /\ job'[j].owner = c /\ job[j].pc = "idle")
<1>1. nextJob + 1 \in Jobs /\ job[nextJob + 1].pc = "idle"
  BY BoundsAssumption DEF Launch, TypeOK, JobOK, Jobs
<1>. QED  BY <1>1 DEF Launch, TypeOK, JobOK

(* A coroutine on the looper moves alone. *)
LEMMA MainJobFrame ==
  ASSUME TypeOK, NEW j \in Jobs, MainJob(j)
  PROVE  /\ \A i \in Jobs : i # j => job'[i] = job[i]
         /\ job'[j].kind = job[j].kind /\ job'[j].owner = job[j].owner
<1>1. job \in [Jobs -> JobState] /\ job[j] \in JobState
  BY DEF TypeOK, JobOK
<1>2. CASE CreateSession(j)
  BY <1>1, <1>2 DEF CreateSession, JobState
<1>3. CASE ~CreateSession(j)
  <2>1. PICK pc : Goto(j, pc)
    BY <1>3 DEF MainJob, StartOpen, ReadParamsThrows, OpenThrows, ResumeOpened,
                ResumeFailed, StartSurface, RatioPosted, CreateSessionThrows,
                ResumeConfigured, RepeatingThrows, Fail
  <2>. QED  BY <1>1, <2>1 DEF Goto, JobState
<1>. QED  BY <1>2, <1>3

(* Where a coroutine goes, and which fields of its controller it may touch  *)
(* when it is not the continuation of a successful open.                    *)
LEMMA MainJobFields ==
  ASSUME TypeOK, NEW j \in Jobs, MainJob(j), ~ResumeOpened(j)
  PROVE  /\ IF StartOpen(j)
              THEN job[j].pc = "launched" /\ job[j].kind = "open" /\ job'[j].pc = "opening"
              ELSE job'[j].pc \in Late /\ UNCHANGED device
         /\ \A i \in Controllers : /\ DeviceOf(i)' = DeviceOf(i)
                                   /\ ctrl'[i].isOpen => ctrl[i].isOpen
<1> DEFINE c == job[j].owner
<1> USE DEF DeviceOf
<1>1. ctrl \in [Controllers -> ControllerState] /\ job \in [Jobs -> JobState]
  BY DEF TypeOK, ControllerOK, JobOK
<1>2. CASE StartOpen(j)
  <2>1. job'[j].pc = "opening" /\ job[j].kind = "open" /\ job[j].pc = "launched"
    BY <1>1, <1>2 DEF StartOpen, Goto, JobState
  <2>2. PICK w \in Sizes : ctrl' = [ctrl EXCEPT ![c].width = w, ![c].reader = w]
    BY <1>2 DEF StartOpen
  <2>3. \A i \in Controllers : /\ DeviceOf(i)' = DeviceOf(i)
                               /\ ctrl'[i].isOpen => ctrl[i].isOpen
    BY <1>1, <2>2 DEF ControllerState
  <2>. QED  BY <1>2, <2>1, <2>3
<1>3. CASE ~StartOpen(j)
  <2>1. CASE ReadParamsThrows(j) \/ ResumeFailed(j) \/ CreateSessionThrows(j)
    <3>1. Fail(j) /\ UNCHANGED device
      BY <2>1 DEF ReadParamsThrows, ResumeFailed, CreateSessionThrows, serviceVars
    <3>. QED  BY <1>1, <1>3, <3>1 DEF Fail, Goto, JobState, ControllerState, Late
  <2>2. CASE OpenThrows(j)
    BY <1>1, <1>3, <2>2 DEF OpenThrows, Goto, JobState, ControllerState, Late, serviceVars
  <2>3. CASE StartSurface(j) \/ RatioPosted(j)
    BY <1>1, <1>3, <2>3 DEF StartSurface, RatioPosted, Goto, JobState, Late, serviceVars
  <2>4. CASE CreateSession(j)
    BY <1>1, <1>3, <2>4 DEF CreateSession, JobState, Late
  <2>5. CASE ResumeConfigured(j)
    BY <1>1, <1>3, <2>5 DEF ResumeConfigured, Goto, JobState, ControllerState, Late
  <2>6. CASE RepeatingThrows(j)
    BY <1>1, <1>3, <2>6
       DEF RepeatingThrows, Goto, JobState, ControllerState, Late, serviceVars
  <2>. QED  BY <1>3, <2>1, <2>2, <2>3, <2>4, <2>5, <2>6 DEF MainJob
<1>. QED  BY <1>2, <1>3

(* The continuation of a successful open: it alone fills a field. *)
LEMMA ResumeOpenedFields ==
  ASSUME TypeOK, NEW j \in Jobs, ResumeOpened(j)
  PROVE  /\ job[j].pc = "opened" /\ job'[j].pc \in Late
         /\ UNCHANGED device
         /\ ctrl'[job[j].owner].mCameraDevice = j
         /\ \A i \in Controllers : i # job[j].owner => ctrl'[i] = ctrl[i]
<1>1. job[j].owner \in Controllers
  BY DispatchType DEF ResumeOpened
<1>2. /\ ctrl'[job[j].owner].mCameraDevice = j
      /\ \A i \in Controllers : i # job[j].owner => ctrl'[i] = ctrl[i]
  BY <1>1 DEF ResumeOpened, TypeOK, ControllerOK, ControllerState
<1>3. job[j].pc = "opened" /\ job'[j].pc \in Late
  BY DEF ResumeOpened, Goto, Late, TypeOK, JobOK, JobState
<1>. QED  BY <1>2, <1>3 DEF ResumeOpened, serviceVars

(* Of the pieces on the main looper one puts a device into a field: the    *)
(* one it was granted.                                                     *)
LEMMA DeviceMainJob ==
  ASSUME DeviceInv, NEW j \in Jobs, MainJob(j)
  PROVE  DeviceOwned' /\ Delivered' /\ Granted'
<1> DEFINE c == job[j].owner
<1>1. TypeOK
  BY DEF DeviceInv
<1>2. \A i \in Controllers : DeviceOf(i) # None => DeviceOf(i) \in Jobs
  BY <1>1 DEF TypeOK, ControllerOK, ControllerState, DeviceOf
<1>3. /\ \A i \in Jobs : i # j => job'[i] = job[i]
      /\ job'[j].kind = job[j].kind /\ job'[j].owner = c
  BY <1>1, MainJobFrame
<1>4. CASE StartOpen(j)
  <2>1. /\ job'[j].pc = "opening" /\ job[j].kind = "open" /\ job[j].pc = "launched"
        /\ \A i \in Controllers : /\ DeviceOf(i)' = DeviceOf(i)
                                  /\ ctrl'[i].isOpen => ctrl[i].isOpen
    <3>1. ~ResumeOpened(j)
      BY <1>4 DEF StartOpen, ResumeOpened
    <3>. QED  BY <1>1, <1>4, <3>1, MainJobFields
  <2>2. \A i \in Jobs : i # j /\ device[i] \in {"open", "lost"} =>
                          device'[i] \in {"open", "lost"}
    BY <1>4 DEF StartOpen
  <2>3. Granted'
    BY <1>3, <2>1, <2>2 DEF DeviceInv, Granted
  <2>. QED  BY <1>3, <2>1, <2>2, <2>3, DeviceFrame DEF Late
<1>5. CASE ResumeOpened(j)
  <2>1. /\ job[j].pc = "opened" /\ job'[j].pc \in Late
        /\ ctrl'[c].mCameraDevice = j /\ device' = device
        /\ \A i \in Controllers : i # c => ctrl'[i] = ctrl[i]
    BY <1>1, <1>5, ResumeOpenedFields
  <2>2. job[j].kind = "open" /\ device[j] \in {"open", "lost"}
    BY <2>1 DEF DeviceInv, Granted
  <2>3. \A i \in Controllers : DeviceOf(i) # None => DeviceOf(i) # j
    BY <2>1 DEF DeviceInv, Delivered, Late
  <2>4. Granted'
    BY <1>3, <2>1, <2>2 DEF DeviceInv, Granted, Late
  <2>5. Delivered'
    BY <1>2, <1>3, <2>1, <2>3 DEF DeviceInv, Delivered, DeviceOf
  <2>6. j # None
    BY DEF Jobs, None
  <2>7. DeviceOwned'
    BY <1>2, <1>3, <2>1, <2>2, <2>3, <2>6 DEF DeviceInv, DeviceOwned, DeviceOf
  <2>. QED  BY <2>4, <2>5, <2>7
<1>6. CASE ~StartOpen(j) /\ ~ResumeOpened(j)
  <2>1. /\ device' = device /\ job'[j].pc \in Late
        /\ \A i \in Controllers : /\ DeviceOf(i)' = DeviceOf(i)
                                  /\ ctrl'[i].isOpen => ctrl[i].isOpen
    BY <1>1, <1>6, MainJobFields
  <2>2. Granted'
    BY <1>3, <2>1 DEF DeviceInv, Granted, Late
  <2>. QED  BY <1>3, <2>1, <2>2, DeviceFrame
<1>. QED  BY <1>4, <1>5, <1>6

(* The callbacks of the service: a device is granted once.                 *)
LEMMA DeviceService ==
  ASSUME DeviceInv, NEW j \in Jobs,
         \/ OnOpened(j) \/ OnConfigured(j) \/ OnConfigureFailed(j)
         \/ OnOpenError(j) \/ OnDisconnected(j) \/ OnLateError(j)
  PROVE  DeviceOwned' /\ Delivered' /\ Granted'
<1>1. /\ job \in [Jobs -> JobState] /\ device \in [Jobs -> DeviceStates]
      /\ ctrl' = ctrl
  BY DEF DeviceInv, TypeOK, JobOK, ServiceOK, OnOpened, OnConfigured, OnConfigureFailed,
         OnOpenError, OnDisconnected, OnLateError, Answer
<1>2. \A i \in Jobs : /\ job'[i].kind = job[i].kind /\ job'[i].owner = job[i].owner
                      /\ i # j => job'[i] = job[i]
  <2>1. CASE UNCHANGED job
    BY <2>1
  <2>2. CASE \E pc : Goto(j, pc)
    BY <1>1, <2>2 DEF Goto, JobState
  <2>. QED  BY <2>1, <2>2 DEF OnOpened, OnConfigured, OnConfigureFailed,
                              OnOpenError, OnDisconnected, OnLateError, Answer
<1>3. \A i \in Jobs : device[i] \in {"open", "lost"} => device'[i] \in {"open", "lost"}
  BY <1>1 DEF OnOpened, OnConfigured, OnConfigureFailed,
              OnOpenError, OnDisconnected, OnLateError
<1>4. /\ job[j].pc \in Late => job'[j].pc \in Late
      /\ job'[j].pc \in {"opening", "opened", "openFailed"} =>
           job[j].pc \in {"opening", "opened", "openFailed"}
      /\ job'[j].pc = "opened" => job[j].pc = "opened" \/ device'[j] = "open"
  <2>1. CASE OnOpened(j) \/ OnOpenError(j)
    BY <1>1, <2>1 DEF OnOpened, OnOpenError, Answer, Goto, JobState, Late
  <2>2. CASE OnConfigured(j) \/ OnConfigureFailed(j)
    BY <1>1, <2>2 DEF OnConfigured, OnConfigureFailed, Answer, Goto, JobState, Late
  <2>3. CASE OnDisconnected(j) \/ OnLateError(j)
    BY <2>3 DEF OnDisconnected, OnLateError
  <2>. QED  BY <2>1, <2>2, <2>3
<1>5. Granted'
  BY <1>2, <1>3, <1>4 DEF DeviceInv, Granted
<1>. QED  BY <1>1, <1>2, <1>3, <1>4, <1>5, DeviceFrame DEF DeviceOf

(* closeCamera takes the closed device out of the only field that names it. *)
LEMMA DeviceClose ==
  ASSUME DeviceInv, NEW s, NEW c \in Controllers,
         s.mCameraDevice = None, s.isOpen = FALSE,
         ctrl' = [ctrl EXCEPT ![c] = s], CloseDevice(DeviceOf(c)),
         \A j \in Jobs : job[j].pc # "idle" => job'[j] = job[j],
         \A j \in Jobs : job'[j] = job[j] \/ job'[j].pc = "launched"
  PROVE  DeviceOwned' /\ Delivered' /\ Granted'
<1> USE DEF DeviceOf
<1>1. /\ job \in [Jobs -> JobState] /\ device \in [Jobs -> DeviceStates]
      /\ ctrl \in [Controllers -> ControllerState]
  BY DEF DeviceInv, TypeOK, ControllerOK, JobOK, ServiceOK
<1>2. /\ DeviceOf(c)' = None /\ ~ctrl'[c].isOpen
      /\ \A i \in Controllers : i # c => ctrl'[i] = ctrl[i]
  BY <1>1
<1>3. \A i \in Controllers : DeviceOf(i) # None =>
        /\ DeviceOf(i) \in Jobs /\ job[DeviceOf(i)].pc \in Late
        /\ job[DeviceOf(i)].owner = i /\ job[DeviceOf(i)].kind = "open"
        /\ device[DeviceOf(i)] \in {"open", "lost"}
  BY <1>1 DEF DeviceInv, DeviceOwned, Delivered, ControllerState
<1>4. \A j \in Jobs : j # DeviceOf(c) => device'[j] = device[j]
  BY <1>1 DEF CloseDevice
<1>5. \A i \in Controllers : i # c /\ DeviceOf(i) # None =>
        /\ DeviceOf(i) # DeviceOf(c)
        /\ job'[DeviceOf(i)] = job[DeviceOf(i)]
  BY <1>3 DEF Late
<1>6. DeviceOwned'
  BY <1>2, <1>3, <1>4, <1>5 DEF DeviceInv, DeviceOwned
<1>7. Delivered'
  BY <1>2, <1>3, <1>5 DEF Delivered
<1>8. \A j \in Jobs : job[j].pc = "opened" => j # DeviceOf(c)
  BY <1>3 DEF Late, Jobs, None
<1>9. Granted'
  BY <1>4, <1>8 DEF DeviceInv, Granted
<1>. QED  BY <1>6, <1>7, <1>9

(* A new controller has no device.                                         *)
LEMMA DeviceInitCamera ==
  ASSUME DeviceInv, InitCamera, UNCHANGED device
  PROVE  DeviceOwned' /\ Delivered' /\ Granted'
<1> DEFINE c == created + 1
<1> USE DEF DeviceOf
<1>1. TypeOK /\ Launch(c, "open", mCameraId)
  BY DEF DeviceInv, InitCamera
<1>2. /\ \A j \in Jobs : job[j].pc # "idle" => job'[j] = job[j]
      /\ \A j \in Jobs : job'[j] = job[j] \/ job'[j].pc = "launched"
  BY <1>1, LaunchFrame
<1>3. \A i \in Controllers :
        \/ ctrl'[i] = ctrl[i]
        \/ DeviceOf(i)' = None /\ ~ctrl'[i].isOpen
  BY <1>1 DEF InitCamera, TypeOK, ControllerOK, Opening, NewController
<1>4. \A i \in Controllers : DeviceOf(i) # None =>
        DeviceOf(i) \in Jobs /\ job[DeviceOf(i)].pc \in Late
  BY <1>1 DEF DeviceInv, Delivered, TypeOK, ControllerOK, ControllerState
<1>5. DeviceOwned'
  BY <1>2, <1>3, <1>4 DEF DeviceInv, DeviceOwned, Late
<1>6. Delivered'
  BY <1>2, <1>3, <1>4 DEF Delivered, Late
<1>7. Granted'
  BY <1>2 DEF DeviceInv, Granted
<1>. QED  BY <1>5, <1>6, <1>7

(* No step gives a device a second owner.                                  *)
LEMMA DeviceStep == DeviceInv /\ [Next]_vars => DeviceInv'
<1> SUFFICES ASSUME DeviceInv, [Next]_vars
             PROVE  DeviceInv'
  OBVIOUS
<1>1. TypeOK /\ TypeOK'
  BY TypeStep DEF DeviceInv
<1> DEFINE Goal == DeviceOwned' /\ Delivered' /\ Granted'
<1>2. CASE \E j \in Jobs : \/ MainJob(j) \/ OnOpened(j) \/ OnConfigured(j)
                           \/ OnConfigureFailed(j) \/ OnOpenError(j)
                           \/ OnDisconnected(j) \/ OnLateError(j)
  <2>. Goal
    BY <1>2, DeviceMainJob, DeviceService
  <2>. QED  BY <1>1 DEF DeviceInv
<1>3. CASE SurfaceCreated
  <2> DEFINE c == Head(toNotify)
  <2>1. c \in Controllers
    BY <1>1, <1>3, HeadTailProperties DEF SurfaceCreated, TypeOK, ControllerOK
  <2>2. /\ \A j \in Jobs : job[j].pc # "idle" => job'[j] = job[j]
        /\ \A j \in Jobs : job'[j] = job[j] \/ job'[j].pc = "launched"
    BY <1>1, <1>3, LaunchFrame DEF SurfaceCreated
  <2>3. \A i \in Controllers : /\ DeviceOf(i)' = DeviceOf(i)
                               /\ ctrl'[i].isOpen = ctrl[i].isOpen
    BY <1>1, <1>3, <2>1 DEF SurfaceCreated, TypeOK, ControllerOK, ControllerState, DeviceOf
  <2>4. device' = device
    BY <1>3 DEF SurfaceCreated, serviceVars
  <2>5. Granted'
    BY <2>2, <2>4 DEF DeviceInv, Granted
  <2>. QED  BY <1>1, <2>2, <2>3, <2>4, <2>5, DeviceFrame DEF DeviceInv, Late
<1>4. CASE InitCamera /\ UNCHANGED device
  BY <1>1, <1>4, DeviceInitCamera DEF DeviceInv
<1>5. CASE OnStop
  <2>1. current \in Controllers /\ Closed(ctrl[current]) \in ControllerState
    BY <1>1, <1>5, ClosedType DEF OnStop, TypeOK, ControllerOK
  <2>2. /\ Closed(ctrl[current]).mCameraDevice = None
        /\ Closed(ctrl[current]).isOpen = FALSE
    BY <1>1, <2>1 DEF Closed, ControllerState, TypeOK, ControllerOK
  <2>3. Goal
    BY <1>5, <2>1, <2>2, DeviceClose DEF OnStop, DeviceOf
  <2>. QED  BY <1>1, <2>3 DEF DeviceInv
<1>6. CASE ClickSwitch
  <2>1. current \in Controllers /\ Closed(ctrl[current]) \in ControllerState
    BY <1>1, <1>6, ClosedType DEF ClickSwitch, TypeOK, ControllerOK
  <2>2. PICK k \in Cameras :
          /\ ctrl' = [ctrl EXCEPT ![current] = Opening(Closed(ctrl[current]), k)]
          /\ Launch(current, "open", k)
    BY <1>6 DEF ClickSwitch
  <2>3. /\ Opening(Closed(ctrl[current]), k).mCameraDevice = None
        /\ Opening(Closed(ctrl[current]), k).isOpen = FALSE
    BY <1>1, <2>1 DEF Opening, Closed, ControllerState, TypeOK, ControllerOK
  <2>4. /\ \A j \in Jobs : job[j].pc # "idle" => job'[j] = job[j]
        /\ \A j \in Jobs : job'[j] = job[j] \/ job'[j].pc = "launched"
    BY <1>1, <2>2, LaunchFrame
  <2>5. Goal
    BY <1>6, <2>1, <2>2, <2>3, <2>4, DeviceClose DEF ClickSwitch, DeviceOf
  <2>. QED  BY <1>1, <2>5 DEF DeviceInv
<1>7. CASE UNCHANGED <<ctrl, job, device>>
  BY <1>1, <1>7 DEF DeviceInv, DeviceOwned, Delivered, Granted, DeviceOf
<1>. QED
  BY <1>2, <1>3, <1>4, <1>5, <1>6, <1>7
     DEF Next, System, DeviceAnswers, Failure, SurfaceAppears, User, OnCreate, OnResume,
         OnPause, vars, cvars, serviceVars

(* The process starts without devices.                                     *)
LEMMA DeviceInit == Init => DeviceInv
<1> SUFFICES ASSUME Init PROVE DeviceInv
  OBVIOUS
<1>1. TypeOK
  BY TypeInit
<1>. QED
  BY <1>1 DEF Init, ControllerInit, NewController, IdleJob, DeviceInv, DeviceOwned,
              Delivered, Granted, DeviceOf

(* Whatever the user does, however the service fails and whenever its       *)
(* answers come: isOpen promises a device, no two controllers share one,    *)
(* and a field never names a closed device.                                 *)
THEOREM DevicesOwned == Spec => []DeviceOwned
<1>1. Init => DeviceInv
  BY DeviceInit
<1>2. DeviceInv /\ [Next]_vars => DeviceInv'
  BY DeviceStep
<1>3. DeviceInv => DeviceOwned
  BY DEF DeviceInv
<1>. QED  BY <1>1, <1>2, <1>3, PTL DEF Spec

-----------------------------------------------------------------------------
(* Without switches while an open is under way no device is forgotten.  The *)
(* invariant: an open under way is the only one of its controller, whose    *)
(* field is still empty; a controller not created yet has no coroutine and  *)
(* no callback.                                                             *)
Sole ==
  \A j \in Jobs : InFlight(j) =>
    /\ DeviceOf(job[j].owner) = None
    /\ \A i \in Jobs : InFlight(i) /\ job[i].owner = job[j].owner => i = j

OwnersCreated ==
  /\ \A j \in Jobs : job[j].pc # "idle" => job[j].owner <= created
  /\ callbacks \in Seq(1..created)
  /\ toNotify \in Seq(1..created)

SoleInv == DeviceInv /\ Sole /\ OwnersCreated

(* Steps that put no open under way and fill no field keep it sole. *)
LEMMA SoleFrame ==
  ASSUME Sole,
         \A j \in Jobs : InFlight(j)' => InFlight(j) /\ job'[j].owner = job[j].owner
                                         /\ DeviceOf(job[j].owner)' \in
                                              {None, DeviceOf(job[j].owner)}
  PROVE  Sole'
BY DEF Sole

(* A piece on the main looper starts no open, and takes no device out of a *)
(* field that has one.                                                     *)
LEMMA SoleMainJob ==
  ASSUME SoleInv, NEW j \in Jobs, MainJob(j), UNCHANGED created
  PROVE  /\ Sole' /\ OwnersCreated'
         /\ \A c \in Controllers : DeviceOf(c) # None => DeviceOf(c)' = DeviceOf(c)
<1>1. TypeOK /\ Sole /\ Granted
  BY DEF SoleInv, DeviceInv
<1>2. /\ \A i \in Jobs : i # j => job'[i] = job[i]
      /\ job'[j].kind = job[j].kind /\ job'[j].owner = job[j].owner
  BY <1>1, MainJobFrame
<1>3. Dispatch(j) /\ UNCHANGED <<callbacks, toNotify>>
  BY DEF MainJob, StartOpen, ReadParamsThrows, OpenThrows, ResumeOpened, ResumeFailed,
         StartSurface, RatioPosted, CreateSession, CreateSessionThrows,
         ResumeConfigured, RepeatingThrows, Fail
<1>4. job[j].pc # "idle" /\ job[j].owner \in Controllers
  BY <1>1, <1>3, DispatchType
<1>5. OwnersCreated'
  BY <1>2, <1>3, <1>4 DEF SoleInv, OwnersCreated
<1>6. \A i \in Jobs : InFlight(i) => job[i].owner \in Controllers
  BY <1>1 DEF InFlight, TypeOK, JobOK
<1>7. CASE ResumeOpened(j)
  <2>1. /\ job[j].pc = "opened" /\ job'[j].pc \in Late
        /\ ctrl'[job[j].owner].mCameraDevice = j
        /\ \A i \in Controllers : i # job[j].owner => ctrl'[i] = ctrl[i]
    BY <1>1, <1>7, ResumeOpenedFields
  <2>2. InFlight(j) /\ ~InFlight(j)'
    BY <1>1, <2>1 DEF InFlight, Granted, Late
  <2>3. \A i \in Jobs : InFlight(i)' => /\ i # j /\ InFlight(i)
                                        /\ job[i].owner # job[j].owner
    BY <1>1, <1>2, <2>2 DEF InFlight, Sole
  <2>4. Sole'
    BY <1>1, <1>2, <1>6, <2>1, <2>3, SoleFrame DEF DeviceOf
  <2>5. DeviceOf(job[j].owner) = None
    BY <1>1, <2>2 DEF Sole
  <2>. QED  BY <1>5, <2>1, <2>4, <2>5 DEF DeviceOf
<1>8. CASE ~ResumeOpened(j)
  <2>1. \A i \in Controllers : DeviceOf(i)' = DeviceOf(i)
    BY <1>1, <1>8, MainJobFields
  <2>2. InFlight(j)' => InFlight(j)
    BY <1>1, <1>2, <1>8, MainJobFields DEF InFlight, Late
  <2>3. Sole'
    BY <1>1, <1>2, <1>6, <2>1, <2>2, SoleFrame DEF InFlight
  <2>. QED  BY <1>5, <2>1, <2>3
<1>. QED  BY <1>7, <1>8

(* So do the callbacks of the service.                                     *)
LEMMA SoleService ==
  ASSUME SoleInv, NEW j \in Jobs, UNCHANGED created,
         \/ OnOpened(j) \/ OnConfigured(j) \/ OnConfigureFailed(j)
         \/ OnOpenError(j) \/ OnDisconnected(j) \/ OnLateError(j)
  PROVE  Sole' /\ OwnersCreated' /\ UNCHANGED ctrl
<1>1. TypeOK /\ Sole /\ OwnersCreated
  BY DEF SoleInv, DeviceInv
<1>2. UNCHANGED <<ctrl, callbacks, toNotify>> /\ job[j].pc \in Pcs
  BY <1>1 DEF OnOpened, OnConfigured, OnConfigureFailed, OnOpenError, OnDisconnected,
              OnLateError, Answer, TypeOK, JobOK, JobState
<1>3. CASE OnDisconnected(j) \/ OnLateError(j)
  <2>1. UNCHANGED job
    BY <1>3 DEF OnDisconnected, OnLateError
  <2>. QED  BY <1>1, <1>2, <2>1 DEF Sole, OwnersCreated, InFlight, DeviceOf
<1>4. CASE OnOpened(j) \/ OnConfigured(j) \/ OnConfigureFailed(j) \/ OnOpenError(j)
  <2>1. PICK pc : Goto(j, pc) /\ pc # "idle" /\ job[j].pc # "idle"
                  /\ (pc = "opened" => job[j].pc = "opening")
                  /\ pc \notin {"launched", "opening"}
    BY <1>4 DEF OnOpened, OnConfigured, OnConfigureFailed, OnOpenError, Answer
  <2>2. \A i \in Jobs : /\ job'[i].kind = job[i].kind /\ job'[i].owner = job[i].owner
                        /\ job'[i].pc = IF i = j THEN pc ELSE job[i].pc
    BY <1>1, <2>1 DEF Goto, TypeOK, JobOK, JobState
  <2>3. \A i \in Jobs : InFlight(i)' => InFlight(i)
    BY <2>1, <2>2 DEF InFlight
  <2>4. Sole'
    BY <1>1, <1>2, <2>2, <2>3, SoleFrame DEF DeviceOf
  <2>. QED  BY <1>1, <1>2, <2>1, <2>2, <2>4 DEF OwnersCreated
<1>. QED  BY <1>3, <1>4

(* A new open of a controller that has none under way, with an empty field. *)
LEMMA SoleLaunch ==
  ASSUME SoleInv, NEW c \in Controllers, NEW k, Launch(c, "open", k),
         NEW s, s.mCameraDevice = None, ctrl' = [ctrl EXCEPT ![c] = s],
         \A j \in Jobs : InFlight(j) => job[j].owner # c
  PROVE  Sole'
<1>1. TypeOK /\ Sole
  BY DEF SoleInv, DeviceInv
<1>2. nextJob + 1 \in Jobs /\ job \in [Jobs -> JobState]
      /\ ctrl \in [Controllers -> ControllerState]
  BY <1>1, BoundsAssumption DEF Launch, TypeOK, ControllerOK, JobOK, Jobs
<1>3. \A j \in Jobs :
        IF j = nextJob + 1 THEN job'[j].owner = c ELSE job'[j] = job[j]
  BY <1>2 DEF Launch
<1>4. ctrl'[c].mCameraDevice = None /\ \A i \in Controllers : i # c => ctrl'[i] = ctrl[i]
  BY <1>2
<1>5. \A j \in Jobs : InFlight(j)' =>
        IF j = nextJob + 1 THEN job'[j].owner = c
        ELSE InFlight(j) /\ job'[j] = job[j] /\ job[j].owner # c
                         /\ job[j].owner \in Controllers
  BY <1>1, <1>3 DEF InFlight, TypeOK, JobOK
<1>. QED  BY <1>1, <1>4, <1>5 DEF Sole, DeviceOf

(* A new controller begins with one open under way and an empty field.     *)
LEMMA SoleInitCamera ==
  ASSUME SoleInv, InitCamera, UNCHANGED toNotify
  PROVE  /\ Sole' /\ OwnersCreated'
         /\ \A c \in Controllers : DeviceOf(c) # None => ctrl'[c] = ctrl[c]
<1> DEFINE n == created + 1
           s == Opening(NewController(mCameraId), mCameraId)
<1>1. TypeOK /\ OwnersCreated /\ DeviceOwned /\ Delivered
  BY DEF SoleInv, DeviceInv
<1>2. created \in Nat /\ n \in Controllers /\ created' = n
      /\ Launch(n, "open", mCameraId) /\ ctrl' = [ctrl EXCEPT ![n] = s]
  BY <1>1, BoundsAssumption DEF InitCamera, TypeOK, Controllers
<1>3. \A j \in Jobs : job[j].pc # "idle" => job[j].owner # n
  BY <1>1, <1>2 DEF OwnersCreated, TypeOK, JobOK, Controllers
<1>4. s.mCameraDevice = None
  BY DEF Opening, NewController
<1>5. Sole'
  BY <1>2, <1>3, <1>4, SoleLaunch DEF InFlight
<1>6. \A j \in Jobs : job'[j] = job[j] \/ job'[j].owner = n
  BY <1>1, <1>2, LaunchFrame
<1>7. \A j \in Jobs : job'[j].pc # "idle" => job'[j].owner <= created'
  <2>1. \A j \in Jobs : job[j].pc # "idle" => job[j].owner <= n
    BY <1>1, <1>2 DEF OwnersCreated, TypeOK, JobOK, Controllers
  <2>. QED  BY <1>2, <1>6, <2>1
<1>8. callbacks' \in Seq(1..n) /\ toNotify' \in Seq(1..n)
  <2>1. callbacks \in Seq(1..n) /\ toNotify \in Seq(1..n) /\ n \in 1..n
    <3>1. 1..created \subseteq 1..n /\ n \in 1..n
      BY <1>2
    <3>2. Seq(1..created) \subseteq Seq(1..n)
      BY <3>1, SeqMonotonic
    <3>. QED  BY <1>1, <3>1, <3>2 DEF OwnersCreated
  <2>. QED  BY <2>1, AppendProperties DEF InitCamera, StartPreview
<1>9. DeviceOf(n) = None
  <2>1. SUFFICES ASSUME DeviceOf(n) # None PROVE FALSE
    OBVIOUS
  <2>2. DeviceOf(n) \in Jobs
    BY <1>1, <1>2, <2>1 DEF TypeOK, ControllerOK, ControllerState, DeviceOf
  <2>3. job[DeviceOf(n)].owner = n /\ job[DeviceOf(n)].pc # "idle"
    BY <1>1, <1>2, <2>1 DEF DeviceOwned, Delivered, Late
  <2>. QED  BY <1>3, <2>2, <2>3
<1>10. \A c \in Controllers : DeviceOf(c) # None => ctrl'[c] = ctrl[c]
  BY <1>1, <1>2, <1>9 DEF TypeOK, ControllerOK
<1>. QED  BY <1>2, <1>5, <1>7, <1>8, <1>10 DEF OwnersCreated

(* close() of a device that is there closes it.                            *)
LEMMA CloseDeviceClosed ==
  ASSUME TypeOK, NEW c \in Controllers, CloseDevice(DeviceOf(c))
  PROVE  DeviceOf(c) # None => device'[DeviceOf(c)] = "closed"
BY DEF CloseDevice, DeviceOf, TypeOK, ControllerOK, ControllerState

(* Without the habit to switch while a camera opens every step keeps the   *)
(* invariant, and a device leaves a field only when it is closed.          *)
LEMMA SoleStep ==
  ASSUME "switchWhileBusy" \notin Habits
  PROVE  SoleInv /\ [Next]_vars =>
           /\ SoleInv'
           /\ \A c \in Controllers :
                DeviceOf(c) \notin {None, DeviceOf(c)'} => device'[DeviceOf(c)] = "closed"
<1> DEFINE Kept == \A c \in Controllers : DeviceOf(c) # None =>
                     DeviceOf(c)' = DeviceOf(c) \/ device'[DeviceOf(c)] = "closed"
<1> SUFFICES ASSUME SoleInv, [Next]_vars
             PROVE  Sole' /\ OwnersCreated' /\ Kept
  BY DeviceStep DEF SoleInv
<1>1. TypeOK /\ Sole /\ OwnersCreated
  BY DEF SoleInv, DeviceInv
<1>2. CASE UNCHANGED created /\
           \E j \in Jobs : \/ MainJob(j) \/ OnOpened(j) \/ OnConfigured(j)
                           \/ OnConfigureFailed(j) \/ OnOpenError(j)
                           \/ OnDisconnected(j) \/ OnLateError(j)
  BY <1>2, SoleMainJob, SoleService DEF DeviceOf
<1>3. CASE SurfaceCreated /\ UNCHANGED created
  <2> DEFINE c == Head(toNotify)
  <2>1. c \in 1..created /\ c \in Controllers /\ toNotify' \in Seq(1..created)
    BY <1>1, <1>3, HeadTailProperties DEF SurfaceCreated, OwnersCreated, TypeOK, ControllerOK
  <2>2. \A i \in Controllers : DeviceOf(i)' = DeviceOf(i)
    BY <1>1, <1>3, <2>1 DEF SurfaceCreated, DeviceOf, TypeOK, ControllerOK, ControllerState
  <2>3. /\ \A j \in Jobs : job'[j] = job[j] \/
             (job'[j].kind = "surface" /\ job'[j].owner = c)
    BY <1>1, <1>3, LaunchFrame DEF SurfaceCreated
  <2>4. Sole'
    <3>1. \A j \in Jobs : InFlight(j)' => InFlight(j) /\ job'[j] = job[j]
                                          /\ job[j].owner \in Controllers
      BY <1>1, <2>3 DEF InFlight, TypeOK, JobOK
    <3>. QED  BY <1>1, <2>2, <3>1, SoleFrame DEF DeviceOf
  <2>5. OwnersCreated'
    <3>1. \A j \in Jobs : job'[j].pc # "idle" => job'[j].owner <= created
      BY <1>1, <2>1, <2>3 DEF OwnersCreated
    <3>. QED  BY <1>1, <1>3, <2>1, <3>1 DEF SurfaceCreated, OwnersCreated
  <2>. QED  BY <2>2, <2>4, <2>5
<1>4. CASE InitCamera /\ UNCHANGED toNotify
  BY <1>4, SoleInitCamera DEF DeviceOf
<1>5. CASE SurfaceAppears
  BY <1>1, <1>5 DEF SurfaceAppears, avars, Sole, OwnersCreated, InFlight, DeviceOf
<1>6. CASE OnStop
  <2>1. current \in Controllers /\ ctrl[current] \in ControllerState
    BY <1>1, <1>6 DEF OnStop, TypeOK, ControllerOK
  <2>2. Closed(ctrl[current]).mCameraDevice = None
    BY <2>1 DEF Closed, ControllerState
  <2>3. /\ ctrl'[current].mCameraDevice = None
        /\ \A i \in Controllers : i # current => ctrl'[i] = ctrl[i]
    BY <1>1, <1>6, <2>1, <2>2 DEF OnStop, TypeOK, ControllerOK
  <2>4. Sole'
    BY <1>1, <1>6, <2>3, SoleFrame DEF OnStop, InFlight, DeviceOf, TypeOK, JobOK
  <2>5. OwnersCreated'
    BY <1>1, <1>6 DEF OnStop, OwnersCreated
  <2>6. Kept
    BY <1>1, <1>6, <2>1, <2>3, CloseDeviceClosed DEF OnStop, DeviceOf
  <2>. QED  BY <2>4, <2>5, <2>6
<1>7. CASE ClickSwitch
  <2>1. current \in Controllers /\ current \in 1..created
        /\ Closed(ctrl[current]) \in ControllerState
    BY <1>1, <1>7, ClosedType, BoundsAssumption
       DEF ClickSwitch, TypeOK, ControllerOK, Controllers
  <2>2. PICK k \in Cameras :
          /\ ctrl' = [ctrl EXCEPT ![current] = Opening(Closed(ctrl[current]), k)]
          /\ Launch(current, "open", k)
    BY <1>7 DEF ClickSwitch
  <2> DEFINE s == Opening(Closed(ctrl[current]), k)
  <2>3. s.mCameraDevice = None
    BY <1>1, <2>1 DEF Opening, Closed, ControllerState, TypeOK, ControllerOK
  <2>4. \A j \in Jobs : ~InFlight(j)
    BY <1>7 DEF ClickSwitch, Settled, InFlight
  <2>5. Sole'
    BY <2>1, <2>2, <2>3, <2>4, SoleLaunch
  <2>6. OwnersCreated'
    <3>1. \A j \in Jobs : job'[j].pc # "idle" => job'[j].owner <= created
      BY <1>1, <2>1, <2>2, LaunchFrame DEF OwnersCreated
    <3>2. callbacks' \in Seq(1..created)
      BY <1>1, <1>7, <2>1, AppendProperties DEF ClickSwitch, StartPreview, OwnersCreated
    <3>. QED  BY <1>1, <1>7, <3>1, <3>2 DEF ClickSwitch, OwnersCreated
  <2>7. \A i \in Controllers : i # current => ctrl'[i] = ctrl[i]
    BY <1>1, <2>2 DEF TypeOK, ControllerOK
  <2>8. Kept
    BY <1>1, <1>7, <2>1, <2>7, CloseDeviceClosed DEF ClickSwitch, DeviceOf
  <2>. QED  BY <2>5, <2>6, <2>8
<1>8. CASE UNCHANGED <<ctrl, job, device, callbacks, toNotify, created>>
  BY <1>1, <1>8 DEF Sole, OwnersCreated, InFlight, DeviceOf
<1>. QED
  BY <1>2, <1>3, <1>4, <1>5, <1>6, <1>7, <1>8
     DEF Next, System, DeviceAnswers, Failure, User, OnCreate, OnResume, OnPause,
         vars, cvars, avars, serviceVars

(* The process starts without an open under way.                           *)
LEMMA SoleInitially == Init => SoleInv
<1> SUFFICES ASSUME Init PROVE SoleInv
  OBVIOUS
<1>1. DeviceInv
  BY DeviceInit
<1>. QED
  BY <1>1 DEF Init, ControllerInit, IdleJob, SoleInv, Sole, OwnersCreated, InFlight

(* If the user never switches while an open, session or surface coroutine   *)
(* is under way, a device delivered to a controller leaves the controller's *)
(* field only by closeCamera: none is overwritten and leaked, whatever the  *)
(* lifecycle does meanwhile and whatever the service answers.               *)
THEOREM NoDeviceLost ==
  ASSUME "switchWhileBusy" \notin Habits
  PROVE  Spec => NoDeviceDropped
<1>1. Init => SoleInv
  BY SoleInitially
<1>2. SoleInv /\ [Next]_vars =>
        /\ SoleInv'
        /\ \A c \in Controllers :
             DeviceOf(c) \notin {None, DeviceOf(c)'} => device'[DeviceOf(c)] = "closed"
  BY SoleStep
<1>. QED  BY <1>1, <1>2, PTL DEF Spec, NoDeviceDropped

-----------------------------------------------------------------------------
(* isOpening.  Only the current controller is ever opening, because         *)
(* onResume waits for isOpening, so its last request is the last of the     *)
(* process: no eviction can leave it without an answer.  That it has not    *)
(* been resumed with its device keeps closeCamera away from it.             *)
Request(j) == job[j].kind = "open" /\ job[j].pc # "idle"

Pending(j) ==
  \/ job[j].pc \in {"launched", "opened"}
  \/ job[j].pc = "opening" /\ device[j] \in {"connecting", "lost"}
  \/ job[j].pc \in {"done", "openFailed"} /\ device[j] \in {"none", "lost"}

BackedBy(j) ==
  /\ Request(j) /\ \A k \in Jobs : Request(k) => k <= j
  /\ job[j].owner = current
  /\ job[j].cam = ctrl[current].cameraId
  /\ Pending(j) /\ DeviceOf(current) # j

(* A device exists for requests only, once they were made.                 *)
Requested ==
  \A d \in Jobs : device[d] # "none" => Request(d) /\ job[d].pc # "launched"

(* A coroutine that was not launched belongs to nobody.                    *)
Unowned == \A j \in Jobs : job[j].pc = "idle" => job[j].owner = None

OpeningInv ==
  /\ Requested
  /\ Unowned
  /\ life = "none" => current = None
  /\ \A c \in Controllers :
       ctrl[c].isOpening => c = current /\ \E j \in Jobs : BackedBy(j)

(* Steps that make no request and answer the last one in order.             *)
LEMMA OpeningFrame ==
  ASSUME OpeningInv, Requested', UNCHANGED current, life' = "none" => life = "none",
         \A c \in Controllers : ctrl'[c].isOpening =>
           /\ ctrl[c].isOpening
           /\ ctrl'[c].cameraId = ctrl[c].cameraId
           /\ DeviceOf(c)' \in {None, DeviceOf(c)},
         \A j \in Jobs :
           IF job[j].pc # "idle"
           THEN /\ job'[j].pc # "idle" /\ job'[j].kind = job[j].kind
                /\ job'[j].owner = job[j].owner /\ job'[j].cam = job[j].cam
           ELSE ~Request(j)' /\ (job'[j].pc = "idle" => job'[j] = job[j]),
         \A j \in Jobs : BackedBy(j) /\ ctrl'[current].isOpening => Pending(j)'
  PROVE  OpeningInv'
<1>1. ASSUME NEW c \in Controllers, ctrl'[c].isOpening
      PROVE  c = current /\ \E j \in Jobs : BackedBy(j)'
  <2>1. c = current /\ \E j \in Jobs : BackedBy(j)
    BY <1>1 DEF OpeningInv
  <2>2. PICK j \in Jobs : BackedBy(j)
    BY <2>1
  <2>3. Pending(j)'
    BY <1>1, <2>1, <2>2
  <2>4. \A k \in Jobs : Request(k)' => Request(k)
    BY DEF Request
  <2>5. job[j].pc # "idle"
    BY <2>2 DEF BackedBy, Request
  <2>6. /\ Request(j)' /\ job'[j].owner = job[j].owner /\ job'[j].cam = job[j].cam
    BY <2>2, <2>5 DEF BackedBy, Request
  <2>7. /\ ctrl'[current].cameraId = ctrl[current].cameraId
        /\ DeviceOf(current)' \in {None, DeviceOf(current)}
    BY <1>1, <2>1
  <2>8. j # None
    BY DEF Jobs, None
  <2>9. DeviceOf(current)' # j
    BY <2>2, <2>7, <2>8 DEF BackedBy
  <2>10. BackedBy(j)'
    BY <2>2, <2>3, <2>4, <2>6, <2>7, <2>9 DEF BackedBy, DeviceOf
  <2>. QED  BY <2>1, <2>10
<1>2. Unowned'
  BY DEF OpeningInv, Unowned
<1>. QED  BY <1>1, <1>2 DEF OpeningInv

(* A piece on the main looper: the last request is made, resumed, or let    *)
(* down.                                                                    *)
LEMMA OpeningMainJob ==
  ASSUME DeviceInv, OpeningInv, NEW j \in Jobs, MainJob(j), UNCHANGED <<current, life>>
  PROVE  OpeningInv'
<1>0. /\ job \in [Jobs -> JobState] /\ ctrl \in [Controllers -> ControllerState]
      /\ device \in [Jobs -> DeviceStates] /\ job[j].pc # "idle"
      /\ job[j].owner \in Controllers /\ Requested
  <2>1. Dispatch(j)
    BY DEF MainJob, StartOpen, ReadParamsThrows, OpenThrows, ResumeOpened, ResumeFailed,
           StartSurface, RatioPosted, CreateSession, CreateSessionThrows,
           ResumeConfigured, RepeatingThrows
  <2>. QED
    BY <2>1, DispatchType DEF DeviceInv, TypeOK, JobOK, ControllerOK, ServiceOK, OpeningInv
<1>1. /\ \A i \in Jobs : i # j => job'[i] = job[i]
      /\ job'[j].kind = job[j].kind /\ job'[j].owner = job[j].owner
  BY MainJobFrame DEF DeviceInv
<1>2. job'[j].cam = job[j].cam /\ job'[j].pc # "idle"
  <2>1. job'[j].cam = job[j].cam
    <3>1. CASE CreateSession(j)
      BY <1>0, <3>1 DEF CreateSession, JobState
    <3>2. CASE ~CreateSession(j)
      <4>1. PICK pc : Goto(j, pc)
        BY <3>2 DEF MainJob, StartOpen, ReadParamsThrows, OpenThrows, ResumeOpened,
                    ResumeFailed, StartSurface, RatioPosted, CreateSessionThrows,
                    ResumeConfigured, RepeatingThrows, Fail
      <4>. QED  BY <1>0, <4>1 DEF Goto, JobState
    <3>. QED  BY <3>1, <3>2
  <2>2. job'[j].pc \in Late \cup {"opening"}
    BY MainJobFields, ResumeOpenedFields DEF DeviceInv
  <2>. QED  BY <2>1, <2>2 DEF Late
<1>3. \A i \in Jobs :
        IF job[i].pc # "idle"
        THEN /\ job'[i].pc # "idle" /\ job'[i].kind = job[i].kind
             /\ job'[i].owner = job[i].owner /\ job'[i].cam = job[i].cam
        ELSE ~Request(i)' /\ (job'[i].pc = "idle" => job'[i] = job[i])
  BY <1>0, <1>1, <1>2 DEF Request
<1>4. CASE StartOpen(j)
  <2>1. /\ job'[j].pc = "opening" /\ job[j].kind = "open" /\ job[j].pc = "launched"
    BY <1>0, <1>4 DEF StartOpen, Goto, JobState
  <2>2. \A d \in Jobs : IF d = j THEN device'[d] = "connecting"
                        ELSE device'[d] = device[d] \/
                             (device'[d] = "lost" /\ device[d] \in {"connecting", "open"})
    BY <1>4 DEF StartOpen
  <2>3. \A c \in Controllers : /\ ctrl'[c].isOpening = ctrl[c].isOpening
                               /\ ctrl'[c].cameraId = ctrl[c].cameraId
                               /\ DeviceOf(c)' = DeviceOf(c)
    <3>1. PICK w \in Sizes : ctrl' = [ctrl EXCEPT ![job[j].owner].width = w,
                                                  ![job[j].owner].reader = w]
      BY <1>4 DEF StartOpen
    <3>. QED  BY <1>0, <3>1 DEF ControllerState, DeviceOf
  <2>4. Requested'
    BY <1>0, <1>1, <1>2, <2>1, <2>2 DEF Requested, Request
  <2>5. \A i \in Jobs : Pending(i) => Pending(i)'
    BY <1>1, <2>1, <2>2 DEF Pending
  <2>. QED  BY <1>3, <2>3, <2>4, <2>5, OpeningFrame DEF BackedBy
<1>5. CASE ResumeOpened(j)
  <2>1. /\ job[j].pc = "opened" /\ job'[j].pc \in Late
        /\ UNCHANGED device
        /\ \A i \in Controllers : i # job[j].owner => ctrl'[i] = ctrl[i]
    BY <1>5, ResumeOpenedFields DEF DeviceInv
  <2>2. ~ctrl'[job[j].owner].isOpening
    BY <1>0, <1>5 DEF ResumeOpened, ControllerState
  <2>3. Requested'
    BY <1>0, <1>1, <2>1 DEF Requested, Request, Late
  <2>4. ASSUME NEW i \in Jobs, BackedBy(i), ctrl'[current].isOpening PROVE Pending(i)'
    <3>1. i # j
      BY <2>2, <2>4 DEF BackedBy
    <3>. QED  BY <1>1, <2>1, <2>4, <3>1 DEF BackedBy, Pending
  <2>5. \A c \in Controllers : ctrl'[c].isOpening => ctrl'[c] = ctrl[c]
    BY <2>1, <2>2
  <2>. QED  BY <1>3, <2>3, <2>4, <2>5, OpeningFrame DEF DeviceOf
<1>6. CASE ~StartOpen(j) /\ ~ResumeOpened(j)
  <2>1. UNCHANGED device /\ job'[j].pc \in Late
        /\ \A c \in Controllers : DeviceOf(c)' = DeviceOf(c)
    BY <1>6, MainJobFields DEF DeviceInv
  <2>2. Requested'
    BY <1>0, <1>1, <2>1 DEF Requested, Request, Late
  <2>3. \A c \in Controllers : /\ ctrl'[c].isOpening = ctrl[c].isOpening
                               /\ ctrl'[c].cameraId = ctrl[c].cameraId
    <3>1. CASE Fail(j)
      BY <1>0, <3>1 DEF Fail, ControllerState
    <3>2. CASE OpenThrows(j)
      BY <1>0, <3>2 DEF OpenThrows, ControllerState
    <3>3. CASE UNCHANGED ctrl
      BY <3>3
    <3>4. CASE ResumeConfigured(j) \/ RepeatingThrows(j)
      BY <1>0, <3>4 DEF ResumeConfigured, RepeatingThrows, ControllerState
    <3>. QED
      BY <1>6, <3>1, <3>2, <3>3, <3>4
         DEF MainJob, ReadParamsThrows, ResumeFailed, StartSurface, RatioPosted,
             CreateSession, CreateSessionThrows
  <2>4. Request(j) /\ Pending(j) => Pending(j)'
    <3>1. SUFFICES ASSUME Request(j), Pending(j) PROVE Pending(j)'
      OBVIOUS
    <3>2. ReadParamsThrows(j) \/ OpenThrows(j) \/ ResumeFailed(j)
      BY <1>6, <3>1
         DEF Request, Pending, MainJob, StartSurface, RatioPosted, CreateSession,
             CreateSessionThrows, ResumeConfigured, RepeatingThrows
    <3>3. job'[j].pc = "done"
      BY <1>0, <3>2 DEF ReadParamsThrows, OpenThrows, ResumeFailed, Fail, Goto, JobState
    <3>4. device[j] \in {"none", "lost"}
      BY <1>0, <3>1, <3>2 DEF Pending, ReadParamsThrows, OpenThrows, ResumeFailed, Requested
    <3>. QED  BY <2>1, <3>3, <3>4 DEF Pending
  <2>5. \A i \in Jobs : Request(i) /\ Pending(i) => Pending(i)'
    BY <1>1, <2>1, <2>4 DEF Pending
  <2>. QED  BY <1>3, <2>1, <2>2, <2>3, <2>5, OpeningFrame DEF BackedBy
<1>. QED  BY <1>4, <1>5, <1>6

(* The service answers, or lets the request down.                          *)
LEMMA OpeningService ==
  ASSUME DeviceInv, OpeningInv, NEW j \in Jobs, UNCHANGED <<current, life>>,
         \/ OnOpened(j) \/ OnConfigured(j) \/ OnConfigureFailed(j)
         \/ OnOpenError(j) \/ OnDisconnected(j) \/ OnLateError(j)
  PROVE  OpeningInv'
<1>0. /\ job \in [Jobs -> JobState] /\ device \in [Jobs -> DeviceStates]
      /\ Requested /\ ctrl' = ctrl
  BY DEF DeviceInv, TypeOK, JobOK, ServiceOK, OpeningInv, OnOpened, OnConfigured,
         OnConfigureFailed, OnOpenError, OnDisconnected, OnLateError, Answer
<1>1. CASE OnDisconnected(j) \/ OnLateError(j)
  <2>1. /\ UNCHANGED job /\ device[j] \in {"connecting", "open"} /\ device'[j] = "lost"
        /\ \A i \in Jobs : i # j => device'[i] = device[i]
    BY <1>0, <1>1 DEF OnDisconnected, OnLateError
  <2>2. Requested'
    BY <1>0, <2>1 DEF Requested, Request
  <2>3. \A i \in Jobs : Pending(i) => Pending(i)'
    BY <2>1 DEF Pending
  <2>. QED  BY <1>0, <2>1, <2>2, <2>3, OpeningFrame DEF BackedBy, Request, DeviceOf
<1>2. CASE OnOpened(j) \/ OnConfigured(j) \/ OnConfigureFailed(j) \/ OnOpenError(j)
  <2>1. PICK pc : Goto(j, pc) /\ pc \notin {"idle", "launched"}
                  /\ job[j].pc \in {"opening", "configuring"}
    BY <1>2 DEF OnOpened, OnConfigured, OnConfigureFailed, OnOpenError, Answer
  <2>2. \A i \in Jobs : /\ job'[i].kind = job[i].kind /\ job'[i].owner = job[i].owner
                        /\ job'[i].cam = job[i].cam
                        /\ job'[i].pc = IF i = j THEN pc ELSE job[i].pc
    BY <1>0, <2>1 DEF Goto, JobState
  <2>3. \A i \in Jobs : i # j => device'[i] = device[i]
    BY <1>0, <1>2 DEF OnOpened, OnConfigured, OnConfigureFailed, OnOpenError
  <2>4. device'[j] # "none" => device[j] # "none"
    BY <1>0, <1>2 DEF OnOpened, OnConfigured, OnConfigureFailed, OnOpenError
  <2>5. Requested'
    BY <1>0, <2>1, <2>2, <2>3, <2>4 DEF Requested, Request
  <2>6. Pending(j) => Pending(j)'
    <3>1. SUFFICES ASSUME Pending(j) PROVE Pending(j)'
      OBVIOUS
    <3>2. OnOpened(j) \/ OnOpenError(j)
      BY <1>2, <3>1 DEF Pending, OnConfigured, OnConfigureFailed
    <3>. QED
      BY <1>0, <3>2 DEF OnOpened, OnOpenError, Answer, Goto, JobState, Pending
  <2>7. \A i \in Jobs : Pending(i) => Pending(i)'
    BY <2>2, <2>3, <2>6 DEF Pending
  <2>8. \A i \in Jobs : i # j => job'[i] = job[i]
    BY <1>0, <2>1 DEF Goto
  <2>9. \A i \in Jobs :
          IF job[i].pc # "idle"
          THEN /\ job'[i].pc # "idle" /\ job'[i].kind = job[i].kind
               /\ job'[i].owner = job[i].owner /\ job'[i].cam = job[i].cam
          ELSE ~Request(i)' /\ (job'[i].pc = "idle" => job'[i] = job[i])
    BY <2>1, <2>2, <2>8 DEF Request
  <2>. QED  BY <1>0, <2>5, <2>7, <2>9, OpeningFrame DEF BackedBy, DeviceOf
<1>. QED  BY <1>1, <1>2

(* A new request of the controller that is current then backs isOpening.    *)
LEMMA OpeningLaunch ==
  ASSUME TypeOK, OpeningInv, NEW k, NEW c \in Controllers, Launch(c, "open", k), current' = c,
         ctrl'[c].cameraId = k, ctrl'[c].mCameraDevice = None,
         \A i \in Controllers : ctrl'[i].isOpening => i = c,
         life' # "none",
         \A d \in Jobs : device'[d] # "none" => device[d] # "none"
  PROVE  OpeningInv'
<1>0. job \in [Jobs -> JobState] /\ nextJob \in 0..MaxJobs /\ MaxJobs \in Nat
      /\ (\A i \in Jobs : job[i].pc # "idle" <=> i <= nextJob)
  BY BoundsAssumption DEF TypeOK, JobOK
<1>1. PICK j \in Jobs : j = nextJob + 1
  BY <1>0 DEF Launch, Jobs
<1>2. /\ job'[j] = [kind |-> "open", owner |-> c, cam |-> k, pc |-> "launched",
                    on |-> None, size |-> None]
      /\ \A i \in Jobs : i # j => job'[i] = job[i]
  BY <1>0, <1>1 DEF Launch
<1>3. ~Request(j)
  BY <1>0, <1>1 DEF Request
<1>4. Requested'
  <2>1. ASSUME NEW d \in Jobs, device'[d] # "none"
        PROVE  Request(d)' /\ job'[d].pc # "launched"
    <3>1. Request(d) /\ job[d].pc # "launched"
      BY <2>1 DEF OpeningInv, Requested
    <3>. QED  BY <1>2, <1>3, <3>1 DEF Request
  <2>. QED  BY <2>1 DEF Requested
<1>5. \A i \in Jobs : Request(i)' => i <= j
  <2>1. \A i \in Jobs : Request(i)' /\ i # j => i <= nextJob
    BY <1>0, <1>1, <1>2 DEF Request
  <2>2. \A i \in Jobs : i \in Nat
    BY <1>0 DEF Jobs
  <2>. QED  BY <1>0, <1>1, <2>1, <2>2
<1>6. j # None
  BY <1>0, <1>1 DEF None
<1>7. BackedBy(j)'
  <2>1. Request(j)' /\ Pending(j)'
    BY <1>2 DEF Request, Pending
  <2>2. job'[j].owner = current' /\ job'[j].cam = ctrl'[current'].cameraId
    BY <1>2
  <2>3. DeviceOf(current)' # j
    BY <1>6 DEF DeviceOf
  <2>. QED  BY <1>5, <2>1, <2>2, <2>3 DEF BackedBy
<1>8. Unowned'
  BY <1>2 DEF OpeningInv, Unowned
<1>. QED  BY <1>1, <1>4, <1>7, <1>8 DEF OpeningInv

(* Whatever happens isOpening is backed.                                   *)
LEMMA OpeningRequestStep == DeviceInv /\ OpeningInv /\ [Next]_vars => OpeningInv'
<1>. SUFFICES ASSUME DeviceInv, OpeningInv, [Next]_vars PROVE OpeningInv'
  OBVIOUS
<1>0. /\ TypeOK /\ job \in [Jobs -> JobState] /\ ctrl \in [Controllers -> ControllerState]
      /\ device \in [Jobs -> DeviceStates] /\ Requested
  BY DEF DeviceInv, TypeOK, JobOK, ControllerOK, ServiceOK, OpeningInv
<1>1. CASE UNCHANGED avars /\
           \E j \in Jobs : \/ MainJob(j) \/ OnOpened(j) \/ OnConfigured(j)
                           \/ OnConfigureFailed(j) \/ OnOpenError(j)
                           \/ OnDisconnected(j) \/ OnLateError(j)
  BY <1>1, OpeningMainJob, OpeningService DEF avars
<1>2. CASE SurfaceCreated /\ UNCHANGED avars
  <2>. DEFINE c == Head(toNotify)
  <2>1. c \in Controllers
    BY <1>0, <1>2, HeadTailProperties DEF SurfaceCreated, TypeOK, ControllerOK
  <2>2. \A i \in Controllers : /\ ctrl'[i].isOpening = ctrl[i].isOpening
                               /\ ctrl'[i].cameraId = ctrl[i].cameraId
                               /\ DeviceOf(i)' = DeviceOf(i)
    BY <1>0, <1>2, <2>1 DEF SurfaceCreated, ControllerState, DeviceOf
  <2>3. /\ \A i \in Jobs : job[i].pc # "idle" => job'[i] = job[i]
        /\ \A i \in Jobs : job'[i] = job[i] \/
             (job'[i].pc = "launched" /\ job'[i].kind = "surface" /\ job[i].pc = "idle")
    BY <1>0, <1>2, LaunchFrame DEF SurfaceCreated
  <2>4. UNCHANGED device
    BY <1>2 DEF SurfaceCreated, serviceVars
  <2>5. Requested'
    BY <1>0, <2>3, <2>4 DEF Requested, Request
  <2>6. \A i \in Jobs : BackedBy(i) => Pending(i)'
    BY <2>3, <2>4 DEF BackedBy, Request, Pending
  <2>7. UNCHANGED <<current, life>>
    BY <1>2 DEF avars
  <2>8. \A i \in Jobs :
          IF job[i].pc # "idle" THEN job'[i].pc # "idle" /\ job'[i] = job[i]
          ELSE ~Request(i)' /\ (job'[i].pc = "idle" => job'[i] = job[i])
    BY <2>3 DEF Request
  <2>. QED  BY <2>2, <2>5, <2>6, <2>7, <2>8, OpeningFrame
<1>3. CASE SurfaceAppears
  BY <1>3 DEF SurfaceAppears, avars, serviceVars, OpeningInv, Requested, Unowned, Request, BackedBy,
              Pending, DeviceOf
<1>4. CASE OnCreate \/ OnResume
  <2>1. CASE InitCamera
    <3>. DEFINE c == created + 1
                s == Opening(NewController(mCameraId), mCameraId)
    <3>1. /\ current' = c /\ c \in Controllers
          /\ Launch(c, "open", mCameraId) /\ ctrl' = [ctrl EXCEPT ![c] = s]
      BY <1>0, <2>1, BoundsAssumption DEF InitCamera, TypeOK, Controllers
    <3>2. s.cameraId = mCameraId /\ s.mCameraDevice = None
      BY DEF Opening, NewController
    <3>3. \A i \in Controllers : ~ctrl[i].isOpening
      <4>1. CASE OnCreate
        <5>1. current = None
          BY <4>1 DEF OnCreate, OpeningInv
        <5>. QED  BY <5>1 DEF OpeningInv, Controllers, None
      <4>2. CASE OnResume
        <5>1. current \in Controllers
          BY <1>0, <4>2 DEF OnResume, TypeOK
        <5>2. ~ctrl[current].isOpening
          <6>1. SUFFICES ASSUME ctrl[current].isOpening PROVE FALSE
            OBVIOUS
          <6>2. UNCHANGED nextJob
            BY <4>2, <6>1 DEF OnResume
          <6>. QED  BY <1>0, <3>1, <6>2 DEF Launch, TypeOK, JobOK
        <5>. QED  BY <5>2 DEF OpeningInv
      <4>. QED  BY <1>4, <4>1, <4>2
    <3>4. /\ ctrl'[c].cameraId = mCameraId /\ ctrl'[c].mCameraDevice = None
          /\ \A i \in Controllers : ctrl'[i].isOpening => i = c
      BY <1>0, <3>1, <3>2, <3>3
    <3>5. life' # "none" /\ UNCHANGED device
      BY <1>4 DEF OnCreate, OnResume, serviceVars
    <3>6. \A d \in Jobs : device'[d] # "none" => device[d] # "none"
      BY <3>5
    <3>7. TypeOK /\ OpeningInv /\ current' = c /\ c \in Controllers
          /\ Launch(c, "open", mCameraId)
      BY <1>0, <3>1
    <3>. HIDE DEF c
    <3>. QED  BY <3>4, <3>5, <3>6, <3>7, OpeningLaunch
  <2>2. CASE OnResume /\ ~InitCamera
    <3>1. UNCHANGED <<ctrl, job, device, current>> /\ life' # "none"
      BY <2>2 DEF OnResume, serviceVars
    <3>. QED  BY <3>1 DEF OpeningInv, Requested, Unowned, Request, BackedBy,
              Pending, DeviceOf
  <2>. QED  BY <1>4, <2>1, <2>2 DEF OnCreate
<1>5. CASE OnPause
  BY <1>5 DEF OnPause, cvars, OpeningInv, Requested, Unowned, Request, BackedBy,
              Pending, DeviceOf
<1>6. CASE OnStop
  <2>1. /\ current \in Controllers /\ ctrl[current] \in ControllerState
        /\ ctrl' = [ctrl EXCEPT ![current] = Closed(ctrl[current])]
        /\ CloseDevice(DeviceOf(current)) /\ UNCHANGED <<job, current>> /\ life' = "stopped"
    BY <1>0, <1>6 DEF OnStop, TypeOK, DeviceOf
  <2>2. \A i \in Controllers : /\ ctrl'[i].isOpening = ctrl[i].isOpening
                               /\ ctrl'[i].cameraId = ctrl[i].cameraId
                               /\ DeviceOf(i)' \in {None, DeviceOf(i)}
    BY <1>0, <2>1 DEF Closed, ControllerState, DeviceOf
  <2>3. \A d \in Jobs : device'[d] = IF d = DeviceOf(current) THEN "closed" ELSE device[d]
    BY <2>1 DEF CloseDevice
  <2>4. \A d \in Jobs : d = DeviceOf(current) => Request(d) /\ job[d].pc # "launched"
    BY <2>1 DEF DeviceInv, DeviceOwned, Delivered, Late, Request, Jobs, None
  <2>5. Requested'
    BY <1>0, <2>1, <2>3, <2>4 DEF Requested, Request
  <2>6. \A i \in Jobs : BackedBy(i) => Pending(i)'
    BY <2>1, <2>3 DEF BackedBy, Pending
  <2>7. \A i \in Jobs : IF job[i].pc # "idle" THEN job'[i].pc # "idle" /\ job'[i] = job[i]
                        ELSE ~Request(i)' /\ job'[i] = job[i]
    BY <2>1 DEF Request
  <2>. QED  BY <2>1, <2>2, <2>5, <2>6, <2>7, OpeningFrame
<1>7. CASE ClickSwitch
  <2>1. PICK k \in Cameras :
          /\ ctrl' = [ctrl EXCEPT ![current] = Opening(Closed(ctrl[current]), k)]
          /\ Launch(current, "open", k)
    BY <1>7 DEF ClickSwitch
  <2>2. /\ current \in Controllers /\ ctrl[current] \in ControllerState
        /\ CloseDevice(DeviceOf(current)) /\ UNCHANGED current /\ life' # "none"
    BY <1>0, <1>7 DEF ClickSwitch, TypeOK, DeviceOf
  <2>3. /\ ctrl'[current].cameraId = k /\ ctrl'[current].mCameraDevice = None
        /\ \A i \in Controllers : i # current => ctrl'[i] = ctrl[i]
    BY <1>0, <2>1, <2>2 DEF Opening, Closed, ControllerState
  <2>4. \A i \in Controllers : ctrl'[i].isOpening => i = current
    BY <2>3 DEF OpeningInv
  <2>5. \A d \in Jobs : device'[d] = IF d = DeviceOf(current) THEN "closed" ELSE device[d]
    BY <2>2 DEF CloseDevice
  <2>6. \A d \in Jobs : d = DeviceOf(current) => device[d] # "none"
    BY <2>2 DEF DeviceInv, DeviceOwned, Jobs, None
  <2>7. \A d \in Jobs : device'[d] # "none" => device[d] # "none"
    BY <2>5, <2>6
  <2>8. /\ TypeOK /\ OpeningInv /\ current' = current /\ current \in Controllers
        /\ Launch(current, "open", k) /\ life' # "none"
    BY <1>0, <2>1, <2>2
  <2>. QED  BY <2>3, <2>4, <2>7, <2>8, OpeningLaunch
<1>8. CASE UNCHANGED vars
  BY <1>8 DEF vars, cvars, avars, OpeningInv, Requested, Unowned, Request, BackedBy,
              Pending, DeviceOf
<1>. QED
  BY <1>1, <1>2, <1>3, <1>4, <1>5, <1>6, <1>7, <1>8
     DEF Next, System, DeviceAnswers, Failure, User

(* Whatever the user does, however the service fails and whenever its       *)
(* answers come: isOpening, for which onResume waits, is backed by the last *)
(* request of the controller, for the camera it is set to, and that one     *)
(* will be answered unless the service let it down (Camera2Controller's     *)
(* openCamera, onResume of CameraActivity).                                 *)
THEOREM OpeningIsBacked == Spec => []OpeningHasRequest
<1>1. Init => OpeningInv
  BY DEF Init, ControllerInit, NewController, IdleJob, OpeningInv, Requested, Unowned
<1>2. DeviceInv /\ [Next]_vars => DeviceInv'
  BY DeviceStep
<1>3. DeviceInv /\ OpeningInv /\ [Next]_vars => OpeningInv'
  BY OpeningRequestStep
<1>4. DeviceInv /\ OpeningInv => OpeningHasRequest
  <2>. SUFFICES ASSUME DeviceInv, OpeningInv, NEW c \in Controllers, ctrl[c].isOpening
                PROVE  \E j \in OpensOf(c) : /\ \A k \in OpensOf(c) : k <= j
                                             /\ job[j].cam = ctrl[c].cameraId
                                             /\ WillReport(j) \/ LetDown(j)
    BY DEF OpeningHasRequest
  <2>1. c = current /\ \E j \in Jobs : BackedBy(j)
    BY DEF OpeningInv
  <2>2. PICK j \in Jobs : BackedBy(j)
    BY <2>1
  <2>3. /\ job \in [Jobs -> JobState]
        /\ \A k \in Jobs : job[k].pc # "idle" => job[k].owner \in Controllers
    BY DEF DeviceInv, TypeOK, JobOK
  <2>4. j \in OpensOf(c) /\ job[j].cam = ctrl[c].cameraId
    BY <2>1, <2>2 DEF BackedBy, Request, OpensOf
  <2>5. \A k \in OpensOf(c) : Request(k)
    <3>1. \A k \in OpensOf(c) : job[k].pc # "idle"
      BY DEF OpensOf, OpeningInv, Unowned, Controllers, None
    <3>. QED  BY <3>1 DEF OpensOf, Request
  <2>6. WillReport(j) \/ LetDown(j)
    <3>1. \A k \in Jobs : device[k] # "none" => k <= j
      BY <2>2 DEF OpeningInv, Requested, BackedBy
    <3>. QED
      BY <2>2, <3>1 DEF BackedBy, Request, Pending, WillReport, LetDown, InFlight
  <2>. QED  BY <2>2, <2>4, <2>5, <2>6 DEF BackedBy, OpensOf
<1>. QED  BY <1>1, <1>2, <1>3, <1>4, DeviceInit, PTL DEF Spec

-----------------------------------------------------------------------------
(***************************************************************************)
(* Theorems of Camera2Activity about its patient environment, where opens   *)
(* settle before the user goes on and nothing fails: for every number of    *)
(* controllers and coroutines and every set of cameras and sizes.           *)
(***************************************************************************)
PatientEnvironment == Habits \subseteq {"coldStart"} /\ Faults = {}

(* What the activity's controller is about.  At most one coroutine is at    *)
(* work, for the current controller, and at most one device is held.        *)
Mine == ctrl[current]
AtRest(j) == job[j].pc \in {"idle", "done"}
OnlyAtWork(j) == \A i \in Jobs : i # j => AtRest(i)
NotHeld(d) == device[d] \in {"none", "closed"}
OnlyHeld(d) == \A e \in Jobs : e # d => NotHeld(e)
ReaderIsFit == Mine.reader \in Supported(mCameraId)

Alive == life \in {"created", "resumed", "paused"}

(* No activity, or a stopped one: nothing is open, nothing is under way.    *)
Nothing ==
  /\ ~Alive
  /\ Settled
  /\ \A d \in Jobs : NotHeld(d)
  /\ streaming = {}
  /\ current # None => ~Mine.isOpen /\ ~Mine.isOpening

(* Coroutine j is opening the chosen camera.                                *)
Asking(j) ==
  /\ Alive
  /\ OnlyAtWork(j) /\ OnlyHeld(j)
  /\ job[j].kind = "open" /\ job[j].owner = current /\ job[j].cam = mCameraId
  /\ Mine.isOpening /\ ~Mine.isOpen /\ Mine.mCameraDevice = None
  /\ streaming = {}
  /\ \/ job[j].pc = "launched" /\ NotHeld(j) /\ Mine.width = DefaultSize
     \/ job[j].pc = "opening" /\ device[j] = "connecting" /\ ReaderIsFit
     \/ /\ job[j].pc = "opened" /\ device[j] = "open" /\ ReaderIsFit
        /\ Mine.surfaceCreated \/ (created = 1 /\ "coldStart" \in Habits)

(* Coroutine j makes the session of device d.                               *)
Showing(j, d) ==
  /\ OnlyAtWork(j)
  /\ job[j].owner = current
  /\ surface
  /\ streaming = {}
  /\ \/ job[j].kind = "surface" /\ job[j].pc = "launched"
     \/ job[j].pc \in {"ratio", "ratioSet"}
     \/ /\ job[j].pc \in {"configuring", "configured"}
        /\ job[j].on = d /\ session[d] = j
        /\ job[j].size \in Supported(mCameraId)

(* The controller has device d of the chosen camera.                        *)
Having(d) ==
  /\ Alive
  /\ OnlyHeld(d) /\ device[d] = "open"
  /\ job[d].pc # "idle" /\ job[d].cam = mCameraId
  /\ ~Mine.isOpening /\ Mine.isOpen /\ Mine.mCameraDevice = d
  /\ ReaderIsFit
  /\ \/ Settled /\ streaming \subseteq {d}
     \/ \E j \in Jobs : Showing(j, d)

Phases == Nothing \/ \E j \in Jobs : Asking(j) \/ Having(j)

(* The surface: a living activity's controller that was told of it has it,  *)
(* the callbacks are called while it is there.                              *)
SurfaceHonest ==
  /\ Alive /\ Mine.surfaceCreated => surface
  /\ toNotify # <<>> => surface /\ life = "resumed"

(* needCreateCaptureSession is set for the first controller of the process  *)
(* only, whose one callback will make the session.                          *)
ColdStartOnly ==
  /\ \A c \in Controllers :
       ctrl[c].needCreateCaptureSession =>
         c = current /\ created = 1 /\ "coldStart" \in Habits
  /\ created = 0 => callbacks = <<>>
  /\ created = 1 /\ Alive /\ ~surface => callbacks = <<1>>
  /\ created = 1 /\ toNotify # <<>> => toNotify = <<1>>
  /\ (current # None /\ Alive /\ Mine.needCreateCaptureSession
                     /\ (~surface \/ toNotify # <<>>)) =>
       Settled /\ streaming = {}

PatientInv ==
  /\ TypeOK
  /\ current = created /\ (created = 0 <=> life = "none")
  /\ current # None => Mine.cameraId = mCameraId
  /\ ~crashed
  /\ Phases
  /\ SurfaceHonest
  /\ ColdStartOnly

-----------------------------------------------------------------------------
(* A coroutine that is at work is the one that opens or the one that shows. *)
LEMMA AtWork ==
  ASSUME PatientInv, NEW j \in Jobs, ~AtRest(j)
  PROVE  Asking(j) \/ \E d \in Jobs : Having(d) /\ Showing(j, d)
BY DEF PatientInv, Phases, Nothing, Asking, Having, Showing, Settled, AtRest, OnlyAtWork

(* When all is settled on a living activity its controller has a device.    *)
LEMMA SettledHas ==
  ASSUME PatientInv, Settled, Alive
  PROVE  \E d \in Jobs : Having(d)
BY DEF PatientInv, Phases, Nothing, Asking, Settled, Alive

(* The current controller exists once the activity does.                    *)
LEMMA CurrentType ==
  ASSUME PatientInv, life # "none"
  PROVE  current \in Controllers /\ current # None /\ Mine \in ControllerState
BY DEF PatientInv, TypeOK, ControllerOK, Controllers, None, Mine

(* Nothing fails: the pieces of a coroutine that fail are never run.        *)
LEMMA NoFailure ==
  ASSUME PatientEnvironment, PatientInv, NEW j \in Jobs
  PROVE  /\ ~ReadParamsThrows(j) /\ ~OpenThrows(j) /\ ~ResumeFailed(j)
         /\ ~CreateSessionThrows(j) /\ ~RepeatingThrows(j)
         /\ ~OnOpenError(j) /\ ~OnDisconnected(j) /\ ~OnLateError(j)
         /\ ~OnConfigureFailed(j)
<1>1. ~ReadParamsThrows(j) /\ ~OpenThrows(j)
      /\ ~OnOpenError(j) /\ ~OnDisconnected(j) /\ ~OnLateError(j)
  BY DEF PatientEnvironment, ReadParamsThrows, OpenThrows, OnOpenError, OnDisconnected,
         OnLateError
<1>2. ~ResumeFailed(j)
  BY AtWork DEF ResumeFailed, AtRest, Asking, Showing
<1>3. ~CreateSessionThrows(j)
  <2>. SUFFICES ASSUME CreateSessionThrows(j) PROVE FALSE
    OBVIOUS
  <2>1. PICK d \in Jobs : Having(d) /\ Showing(j, d)
    BY AtWork DEF CreateSessionThrows, AtRest, Asking
  <2>. QED
    BY <2>1 DEF CreateSessionThrows, CanConfigure, Having, Showing, Mine, Jobs, None
<1>4. ~RepeatingThrows(j)
  <2>. SUFFICES ASSUME RepeatingThrows(j) PROVE FALSE
    OBVIOUS
  <2>1. PICK d \in Jobs : Having(d) /\ Showing(j, d)
    BY AtWork DEF RepeatingThrows, AtRest, Asking
  <2>. QED  BY <2>1 DEF RepeatingThrows, SessionUsable, Having, Showing
<1>5. ~OnConfigureFailed(j)
  <2>. SUFFICES ASSUME OnConfigureFailed(j) PROVE FALSE
    OBVIOUS
  <2>1. PICK d \in Jobs : Having(d) /\ Showing(j, d)
    BY AtWork DEF OnConfigureFailed, AtRest, Asking
  <2>. QED  BY <2>1 DEF OnConfigureFailed, PatientEnvironment, Having, Showing
<1>. QED  BY <1>1, <1>2, <1>3, <1>4, <1>5

(* A step that leaves the surface and what the controllers know of it alone *)
(* keeps what is said of them, while a coroutine is at work.                *)
LEMMA Undisturbed ==
  ASSUME PatientInv, ~Settled, life # "none",
         UNCHANGED <<avars, surface, callbacks, toNotify>>,
         \A c \in Controllers :
           /\ ctrl'[c].surfaceCreated = ctrl[c].surfaceCreated
           /\ ctrl'[c].needCreateCaptureSession = ctrl[c].needCreateCaptureSession
           /\ ctrl'[c].cameraId = ctrl[c].cameraId
  PROVE  SurfaceHonest' /\ ColdStartOnly' /\ Mine'.cameraId = mCameraId'
<1>1. current \in Controllers /\ current # None
  BY CurrentType
<1>. QED
  BY <1>1 DEF PatientInv, SurfaceHonest, ColdStartOnly, Mine, Alive, avars

-----------------------------------------------------------------------------
(* The coroutine that opens. *)

(* The request is made with a reader of a size the camera has.             *)
LEMMA StartOpenAsks ==
  ASSUME PatientInv, NEW j \in Jobs, StartOpen(j), UNCHANGED avars
  PROVE  /\ Asking(j) /\ Asking(j)' /\ job'[j].pc = "opening"
         /\ job[j].pc = "launched" /\ device'[j] = "connecting"
         /\ SurfaceHonest' /\ ColdStartOnly' /\ Mine'.cameraId = mCameraId'
<1>1. Asking(j) /\ job[j].pc = "launched" /\ life # "none"
  BY AtWork DEF StartOpen, AtRest, Showing, Asking, Alive
<1>2. /\ current \in Controllers /\ current # None /\ Mine \in ControllerState
      /\ ctrl \in [Controllers -> ControllerState] /\ Mine.cameraId = mCameraId
      /\ job \in [Jobs -> JobState] /\ mCameraId \in Cameras
  BY <1>1, CurrentType DEF PatientInv, TypeOK, ControllerOK, JobOK
<1>3. PICK w \in Sizes :
         /\ LargestSize(ctrl[current], w)
         /\ ctrl' = [ctrl EXCEPT ![current].width = w, ![current].reader = w]
  BY <1>1 DEF StartOpen, Asking
<1>4. /\ \A c \in Controllers :
           /\ ctrl'[c].needCreateCaptureSession = ctrl[c].needCreateCaptureSession
      /\ Mine'.reader = w /\ Mine'.cameraId = Mine.cameraId
      /\ Mine'.isOpening = Mine.isOpening /\ Mine'.isOpen = Mine.isOpen
      /\ Mine'.mCameraDevice = Mine.mCameraDevice
      /\ Mine'.surfaceCreated = Mine.surfaceCreated
      /\ Mine'.needCreateCaptureSession = Mine.needCreateCaptureSession
  BY <1>2, <1>3 DEF ControllerState, Mine, avars
<1>5. w \in Supported(mCameraId)
  BY <1>1, <1>2, <1>3 DEF LargestSize, Supported, Mine, Asking
<1>6. /\ \A i \in Jobs : i # j => job'[i] = job[i]
      /\ job'[j].pc = "opening" /\ job'[j].kind = job[j].kind
      /\ job'[j].owner = job[j].owner /\ job'[j].cam = job[j].cam
  BY <1>2 DEF StartOpen, Goto, JobState
<1>7. /\ device'[j] = "connecting"
      /\ \A e \in Jobs : e # j => device'[e] = device[e]
      /\ streaming' = {}
  BY <1>1 DEF StartOpen, Asking, OnlyHeld, NotHeld
<1>8. Asking(j)'
  BY <1>1, <1>4, <1>5, <1>6, <1>7
     DEF Asking, avars, Alive, OnlyAtWork, AtRest, OnlyHeld, NotHeld, ReaderIsFit, Supported
<1>9. ~Settled
  BY <1>1 DEF Settled
<1>10. SurfaceHonest' /\ ColdStartOnly' /\ Mine'.cameraId = mCameraId'
  <2>1. \A c \in Controllers :
           /\ ctrl'[c].surfaceCreated = ctrl[c].surfaceCreated
           /\ ctrl'[c].needCreateCaptureSession = ctrl[c].needCreateCaptureSession
           /\ ctrl'[c].cameraId = ctrl[c].cameraId
    BY <1>2, <1>3 DEF ControllerState
  <2>. QED  BY <1>1, <1>9, <2>1, Undisturbed DEF StartOpen
<1>. QED  BY <1>1, <1>6, <1>7, <1>8, <1>10

(* The device is stored; a controller that knows the surface goes on to     *)
(* show it, the one of a cold start waits for the surface.                  *)
LEMMA ResumeOpenedHas ==
  ASSUME PatientInv, NEW j \in Jobs, ResumeOpened(j), UNCHANGED avars
  PROVE  /\ Asking(j) /\ Having(j)'
         /\ job[j].pc = "opened" /\ streaming' = {} /\ device' = device
         /\ job'[j].cam = job[j].cam
         /\ SurfaceHonest' /\ ColdStartOnly' /\ Mine'.cameraId = mCameraId'
<1>1. Asking(j) /\ job[j].pc = "opened" /\ life # "none"
  BY AtWork DEF ResumeOpened, AtRest, Showing, Asking, Alive
<1>2. /\ current \in Controllers /\ current # None /\ Mine \in ControllerState
      /\ ctrl \in [Controllers -> ControllerState] /\ Mine.cameraId = mCameraId
      /\ job \in [Jobs -> JobState] /\ j # None
  BY <1>1, CurrentType DEF PatientInv, TypeOK, ControllerOK, JobOK, Jobs, None
<1> DEFINE cold == ~Mine.surfaceCreated
<1>3. /\ Mine'.reader = Mine.reader /\ Mine'.cameraId = Mine.cameraId
      /\ ~Mine'.isOpening /\ Mine'.isOpen /\ Mine'.mCameraDevice = j
      /\ Mine'.surfaceCreated = Mine.surfaceCreated
      /\ Mine'.needCreateCaptureSession => Mine.needCreateCaptureSession \/ cold
      /\ \A c \in Controllers : c # current => ctrl'[c] = ctrl[c]
  BY <1>1, <1>2 DEF ResumeOpened, Asking, ControllerState, Mine, avars
<1>4. /\ \A i \in Jobs : i # j => job'[i] = job[i]
      /\ job'[j].pc = (IF cold THEN "done" ELSE "ratio") /\ job'[j].kind = job[j].kind
      /\ job'[j].owner = job[j].owner /\ job'[j].cam = job[j].cam
  BY <1>1, <1>2 DEF ResumeOpened, Goto, JobState, Asking, Mine
<1>5. UNCHANGED <<life, created, current, mCameraId, surface, toNotify, callbacks,
                  device, streaming, session>> /\ toNotify = <<>>
  BY DEF ResumeOpened, Dispatch, MainFree, avars, serviceVars
<1>6. cold => Settled' /\ streaming = {}
  BY <1>1, <1>4, <1>5 DEF Asking, OnlyAtWork, AtRest, Settled
<1>7. ~cold => Showing(j, j)'
  BY <1>1, <1>2, <1>4, <1>5 DEF PatientInv, SurfaceHonest, Asking, Showing, OnlyAtWork, AtRest
<1>8. Having(j)'
  BY <1>1, <1>2, <1>3, <1>4, <1>5, <1>6, <1>7
     DEF Asking, Having, Alive, OnlyHeld, NotHeld, ReaderIsFit, Supported
<1>9. SurfaceHonest'
  BY <1>3, <1>5 DEF PatientInv, SurfaceHonest, Alive
<1>10. ColdStartOnly'
  <2>1. ~cold => surface
    BY <1>1 DEF PatientInv, SurfaceHonest, Asking
  <2>2. cold => created = 1 /\ "coldStart" \in Habits
    BY <1>1 DEF Asking
  <2>3. \A c \in Controllers : ctrl'[c].needCreateCaptureSession =>
          c = current /\ created = 1 /\ "coldStart" \in Habits
    <3>1. ASSUME NEW c \in Controllers, c # current PROVE ~ctrl'[c].needCreateCaptureSession
      BY <1>3, <3>1 DEF PatientInv, ColdStartOnly
    <3>2. ctrl'[current].needCreateCaptureSession => created = 1 /\ "coldStart" \in Habits
      BY <1>2, <1>3, <1>5, <2>2 DEF PatientInv, ColdStartOnly, Mine
    <3>. QED  BY <3>1, <3>2
  <2>. QED  BY <1>5, <1>6, <2>1, <2>3 DEF PatientInv, ColdStartOnly, Alive
<1>. QED  BY <1>1, <1>2, <1>3, <1>4, <1>5, <1>6, <1>8, <1>9, <1>10 DEF Asking

-----------------------------------------------------------------------------
(* The coroutine that shows. *)

(* The pieces up to the session: nothing but the coroutine's own state and, *)
(* at the end, the latest session of the device changes.                    *)
LEMMA ShowingGoesOn ==
  ASSUME PatientInv, NEW j \in Jobs, UNCHANGED avars,
         StartSurface(j) \/ RatioPosted(j) \/ CreateSession(j) \/ OnConfigured(j)
  PROVE  \E d \in Jobs :
           /\ Having(d) /\ Having(d)'
           /\ UNCHANGED <<ctrl, device>> /\ streaming = {} /\ streaming' = {}
           /\ job'[d].cam = job[d].cam
           /\ SurfaceHonest' /\ ColdStartOnly' /\ Mine'.cameraId = mCameraId'
<1>1. ~AtRest(j) /\ ~Asking(j)
  BY DEF StartSurface, RatioPosted, CreateSession, OnConfigured, AtRest, Asking
<1>2. PICK d \in Jobs : Having(d) /\ Showing(j, d)
  BY <1>1, AtWork
<1>3. life # "none" /\ ~Settled
  BY <1>1, <1>2 DEF Having, Alive, Settled, AtRest
<1>4. /\ current \in Controllers /\ current # None /\ Mine \in ControllerState
      /\ job \in [Jobs -> JobState] /\ session \in [Jobs -> Jobs \cup {None}]
  BY <1>3, CurrentType DEF PatientInv, TypeOK, JobOK, ServiceOK
<1>5. UNCHANGED <<life, created, current, mCameraId, surface, toNotify, callbacks,
                  device, ctrl>>
  BY DEF StartSurface, RatioPosted, CreateSession, OnConfigured, Answer, serviceVars, avars
<1>6. /\ \A i \in Jobs : i # j => job'[i] = job[i]
      /\ job'[j].owner = job[j].owner /\ job'[j].cam = job[j].cam
      /\ job'[j].kind = job[j].kind
      /\ \/ job'[j].pc \in {"ratio", "ratioSet"}
         \/ /\ job'[j].pc = "configuring" /\ job'[j].on = d /\ session'[d] = j
            /\ job'[j].size = Mine.reader
         \/ /\ job[j].pc = "configuring" /\ job'[j].pc = "configured"
            /\ job'[j].on = job[j].on /\ job'[j].size = job[j].size
            /\ session' = session
  <2>1. CASE StartSurface(j) \/ RatioPosted(j)
    BY <1>4, <2>1 DEF StartSurface, RatioPosted, Goto, JobState
  <2>2. CASE CreateSession(j)
    BY <1>2, <1>4, <2>2 DEF CreateSession, JobState, Having, Showing, Mine
  <2>3. CASE OnConfigured(j)
    BY <1>4, <2>3 DEF OnConfigured, Answer, Goto, JobState
  <2>. QED  BY <2>1, <2>2, <2>3
<1>7. streaming = {} /\ streaming' = {}
  BY <1>2 DEF Showing, StartSurface, RatioPosted, CreateSession, OnConfigured, Answer,
              serviceVars
<1>8. Showing(j, d)'
  BY <1>2, <1>5, <1>6, <1>7
     DEF Showing, Having, OnlyAtWork, AtRest, ReaderIsFit, Mine, Supported
<1>9. job'[d].pc # "idle" /\ job'[d].cam = job[d].cam
  BY <1>2, <1>6 DEF Having
<1>10. Having(d)'
  BY <1>2, <1>5, <1>8, <1>9 DEF Having, OnlyHeld, NotHeld, Mine, Alive, ReaderIsFit, Supported
<1>11. SurfaceHonest' /\ ColdStartOnly' /\ Mine'.cameraId = mCameraId'
  BY <1>3, <1>5, Undisturbed
<1>. QED  BY <1>2, <1>5, <1>7, <1>9, <1>10, <1>11

(* The preview runs.                                                       *)
LEMMA ResumeConfiguredShows ==
  ASSUME PatientInv, NEW j \in Jobs, ResumeConfigured(j), UNCHANGED avars
  PROVE  \E d \in Jobs :
           /\ Having(d) /\ Having(d)'
           /\ UNCHANGED device /\ streaming = {} /\ streaming' = {d}
           /\ job'[d].cam = job[d].cam
           /\ SurfaceHonest' /\ ColdStartOnly' /\ Mine'.cameraId = mCameraId'
<1>1. ~AtRest(j) /\ ~Asking(j)
  BY DEF ResumeConfigured, AtRest, Asking
<1>2. PICK d \in Jobs : Having(d) /\ Showing(j, d)
  BY <1>1, AtWork
<1>3. life # "none" /\ ~Settled /\ job[j].on = d
  BY <1>1, <1>2 DEF Having, Showing, Alive, Settled, AtRest, ResumeConfigured
<1>4. /\ current \in Controllers /\ current # None /\ Mine \in ControllerState
      /\ job \in [Jobs -> JobState] /\ ctrl \in [Controllers -> ControllerState]
  BY <1>3, CurrentType DEF PatientInv, TypeOK, JobOK, ControllerOK
<1>5. UNCHANGED <<life, created, current, mCameraId, surface, toNotify, callbacks, device>>
  BY DEF ResumeConfigured, avars
<1>6. /\ \A i \in Jobs : i # j => job'[i] = job[i]
      /\ job'[j].pc = "done" /\ job'[j].cam = job[j].cam
  BY <1>4 DEF ResumeConfigured, Goto, JobState
<1>7. /\ Mine'.reader = Mine.reader
      /\ Mine'.isOpening = Mine.isOpening /\ Mine'.isOpen = Mine.isOpen
      /\ Mine'.mCameraDevice = Mine.mCameraDevice
      /\ \A c \in Controllers :
           /\ ctrl'[c].surfaceCreated = ctrl[c].surfaceCreated
           /\ ctrl'[c].needCreateCaptureSession = ctrl[c].needCreateCaptureSession
           /\ ctrl'[c].cameraId = ctrl[c].cameraId
  BY <1>4, <1>5 DEF ResumeConfigured, ControllerState, Mine
<1>8. streaming = {} /\ streaming' = {d}
  BY <1>2, <1>3 DEF Showing, ResumeConfigured
<1>9. Settled'
  BY <1>2, <1>6 DEF Showing, OnlyAtWork, AtRest, Settled
<1>10. job'[d].pc # "idle" /\ job'[d].cam = job[d].cam
  BY <1>2, <1>6 DEF Having
<1>11. Having(d)'
  BY <1>2, <1>5, <1>7, <1>8, <1>9, <1>10
     DEF Having, OnlyHeld, NotHeld, Alive, ReaderIsFit, Supported
<1>12. SurfaceHonest' /\ ColdStartOnly' /\ Mine'.cameraId = mCameraId'
  BY <1>3, <1>5, <1>7, Undisturbed
<1>. QED  BY <1>2, <1>5, <1>8, <1>10, <1>11, <1>12

-----------------------------------------------------------------------------
(* The camera service and the view. *)

(* The service grants the device the controller waits for.                 *)
LEMMA DeviceAnswersGrants ==
  ASSUME PatientEnvironment, PatientInv, NEW j \in Jobs, DeviceAnswers(j), UNCHANGED avars
  PROVE  /\ Asking(j) /\ Asking(j)'
         /\ job[j].pc = "opening" /\ device[j] = "connecting" /\ device'[j] = "open"
         /\ job'[j].cam = job[j].cam /\ UNCHANGED ctrl
         /\ SurfaceHonest' /\ ColdStartOnly' /\ Mine'.cameraId = mCameraId'
<1>1. OnOpened(j) /\ (("coldStart" \in Habits /\ created = 1) \/ ctrl[job[j].owner].surfaceCreated)
  BY DEF DeviceAnswers, PatientEnvironment
<1>2. Asking(j) /\ job[j].pc = "opening" /\ life # "none" /\ ~Settled
  BY <1>1, AtWork DEF OnOpened, AtRest, Showing, Asking, Alive, Settled
<1>3. job \in [Jobs -> JobState] /\ device \in [Jobs -> DeviceStates]
  BY DEF PatientInv, TypeOK, JobOK, ServiceOK
<1>4. UNCHANGED <<life, created, current, mCameraId, surface, toNotify, callbacks, ctrl,
                  streaming>>
  BY <1>1 DEF OnOpened, Answer, avars
<1>5. /\ \A i \in Jobs : i # j => job'[i] = job[i] /\ device'[i] = device[i]
      /\ job'[j].pc = "opened" /\ job'[j].kind = job[j].kind /\ device'[j] = "open"
      /\ job'[j].owner = job[j].owner /\ job'[j].cam = job[j].cam
  BY <1>1, <1>3 DEF OnOpened, Answer, Goto, JobState
<1>6. Asking(j)'
  BY <1>1, <1>2, <1>4, <1>5
     DEF Asking, Alive, OnlyAtWork, AtRest, OnlyHeld, NotHeld, ReaderIsFit, Mine, Supported
<1>7. SurfaceHonest' /\ ColdStartOnly' /\ Mine'.cameraId = mCameraId'
  BY <1>2, <1>4, Undisturbed DEF avars
<1>. QED  BY <1>1, <1>2, <1>4, <1>5, <1>6, <1>7 DEF OnOpened

(* A launch takes a coroutine that was idle.                               *)
LEMMA LaunchTakesIdle ==
  ASSUME TypeOK, NEW c, NEW kind, NEW k, Launch(c, kind, k)
  PROVE  \E n \in Jobs :
           /\ job[n].pc = "idle"
           /\ \A i \in Jobs : i # n => job'[i] = job[i]
           /\ job'[n].pc = "launched" /\ job'[n].kind = kind
           /\ job'[n].owner = c /\ job'[n].cam = k
<1>1. nextJob + 1 \in Jobs /\ job[nextJob + 1].pc = "idle"
  BY BoundsAssumption DEF Launch, TypeOK, JobOK, Jobs
<1>. QED  BY <1>1 DEF Launch, TypeOK, JobOK

(* The surface tells a controller; the one of a cold start begins to show.  *)
LEMMA SurfaceCreatedTells ==
  ASSUME PatientInv, SurfaceCreated, UNCHANGED avars
  PROVE  /\ \/ \E j \in Jobs : Asking(j) /\ Asking(j)' /\ UNCHANGED job
            \/ \E d \in Jobs : Having(d) /\ Having(d)' /\ job'[d].cam = job[d].cam
         /\ UNCHANGED <<device, streaming>>
         /\ Mine'.isOpen = Mine.isOpen /\ Mine'.isOpening = Mine.isOpening
         /\ SurfaceHonest' /\ ColdStartOnly' /\ Mine'.cameraId = mCameraId'
<1> DEFINE c == Head(toNotify)
<1>1. life = "resumed" /\ surface /\ Alive /\ life # "none"
  BY DEF SurfaceCreated, PatientInv, SurfaceHonest, Alive
<1>2. /\ current \in Controllers /\ current # None /\ Mine \in ControllerState
      /\ ctrl \in [Controllers -> ControllerState] /\ TypeOK
      /\ Mine.cameraId = mCameraId /\ c \in Controllers
  BY <1>1, CurrentType, HeadTailProperties DEF SurfaceCreated, PatientInv, TypeOK, ControllerOK
<1>3. UNCHANGED <<life, created, current, mCameraId, surface, callbacks, device, session,
                  streaming>> /\ toNotify' = Tail(toNotify)
  BY DEF SurfaceCreated, serviceVars, avars
<1>4. /\ Mine'.reader = Mine.reader /\ Mine'.width = Mine.width
      /\ Mine'.isOpening = Mine.isOpening /\ Mine'.isOpen = Mine.isOpen
      /\ Mine'.mCameraDevice = Mine.mCameraDevice
      /\ Mine.surfaceCreated => Mine'.surfaceCreated
      /\ Mine'.cameraId = Mine.cameraId
      /\ \A i \in Controllers :
           /\ ctrl'[i].needCreateCaptureSession = ctrl[i].needCreateCaptureSession
           /\ ctrl'[i].cameraId = ctrl[i].cameraId
  BY <1>2, <1>3 DEF SurfaceCreated, ControllerState, Mine
<1>5. SurfaceHonest'
  BY <1>1, <1>3 DEF SurfaceHonest
<1>6. CASE ctrl[c].needCreateCaptureSession
  <2>1. c = current /\ created = 1 /\ toNotify = <<1>>
    BY <1>2, <1>6 DEF SurfaceCreated, PatientInv, ColdStartOnly
  <2>2. toNotify' = <<>>
    BY <1>3, <2>1
  <2>3. Settled /\ streaming = {}
    BY <1>1, <1>2, <1>6, <2>1 DEF SurfaceCreated, PatientInv, ColdStartOnly, Mine
  <2>4. PICK d \in Jobs : Having(d)
    BY <1>1, <2>3, SettledHas
  <2>5. PICK n \in Jobs :
          /\ job[n].pc = "idle"
          /\ \A i \in Jobs : i # n => job'[i] = job[i]
          /\ job'[n].pc = "launched" /\ job'[n].kind = "surface"
          /\ job'[n].owner = current
    BY <1>2, <1>6, <2>1, LaunchTakesIdle DEF SurfaceCreated
  <2>6. Showing(n, d)'
    BY <1>1, <1>3, <2>3, <2>5 DEF Showing, OnlyAtWork, AtRest, Settled
  <2>7. job'[d] = job[d]
    BY <2>4, <2>5 DEF Having
  <2>8. Having(d)'
    BY <1>3, <1>4, <2>4, <2>6, <2>7
       DEF Having, Alive, OnlyHeld, NotHeld, ReaderIsFit, Supported
  <2>9. ColdStartOnly'
    BY <1>1, <1>3, <1>4, <2>1, <2>2 DEF PatientInv, ColdStartOnly
  <2>. QED  BY <1>2, <1>3, <1>4, <1>5, <2>4, <2>7, <2>8, <2>9
<1>7. CASE ~ctrl[c].needCreateCaptureSession
  <2>1. UNCHANGED job
    BY <1>7 DEF SurfaceCreated
  <2>2. ColdStartOnly'
    <3>1. created = 1 => toNotify' = <<>>
      <4>1. created = 1 => toNotify = <<1>>
        BY DEF SurfaceCreated, PatientInv, ColdStartOnly
      <4>. QED  BY <1>3, <4>1
    <3>2. Mine'.needCreateCaptureSession => created = 1
      BY <1>2, <1>4, <1>3 DEF PatientInv, ColdStartOnly, Mine
    <3>. QED  BY <1>1, <1>3, <1>4, <3>1, <3>2 DEF PatientInv, ColdStartOnly
  <2>3. ASSUME NEW j \in Jobs, Asking(j) PROVE Asking(j)'
    BY <1>3, <1>4, <2>1, <2>3
       DEF Asking, Alive, OnlyAtWork, AtRest, OnlyHeld, NotHeld, ReaderIsFit, Supported
  <2>4. ASSUME NEW d \in Jobs, Having(d) PROVE Having(d)'
    <3>1. Settled => Settled'
      BY <2>1 DEF Settled
    <3>2. \A j \in Jobs : Showing(j, d) => Showing(j, d)'
      BY <1>3, <2>1 DEF Showing, OnlyAtWork, AtRest, Supported
    <3>. QED
      BY <1>3, <1>4, <2>1, <2>4, <3>1, <3>2
         DEF Having, Alive, OnlyHeld, NotHeld, ReaderIsFit, Supported
  <2>5. Phases /\ ~Nothing
    BY <1>1 DEF PatientInv, Nothing
  <2>. QED  BY <1>2, <1>3, <1>4, <1>5, <2>1, <2>2, <2>3, <2>4, <2>5 DEF Phases
<1>. QED  BY <1>6, <1>7

(* The view has its surface: its callbacks are about to be called.          *)
LEMMA SurfaceAppearsTells ==
  ASSUME PatientInv, SurfaceAppears
  PROVE  /\ UNCHANGED <<ctrl, job, device, streaming, avars>>
         /\ Phases'
         /\ SurfaceHonest' /\ ColdStartOnly'
<1>1. life = "resumed" /\ ~surface /\ Alive /\ surface' = TRUE /\ toNotify' = callbacks
      /\ toNotify = <<>>
  BY DEF SurfaceAppears, Alive, MainFree
<1>2. UNCHANGED <<ctrl, callbacks, job, device, session, streaming, life, created, current,
                  mCameraId>>
  BY DEF SurfaceAppears, avars, serviceVars
<1>3. SurfaceHonest'
  BY <1>1, <1>2 DEF SurfaceHonest
<1>4. ColdStartOnly'
  BY <1>1, <1>2 DEF PatientInv, ColdStartOnly, Mine, Alive, Settled
<1>5. Phases'
  <2>1. ASSUME NEW j \in Jobs, Asking(j) PROVE Asking(j)'
    BY <1>2, <2>1
       DEF Asking, Alive, OnlyAtWork, AtRest, OnlyHeld, NotHeld, ReaderIsFit, Mine, Supported
  <2>2. ASSUME NEW d \in Jobs, Having(d) PROVE Having(d)'
    <3>1. Settled => Settled'
      BY <1>2 DEF Settled
    <3>2. \A j \in Jobs : Showing(j, d) => Showing(j, d)'
      BY <1>1, <1>2 DEF Showing, OnlyAtWork, AtRest, Supported
    <3>. QED
      BY <1>2, <2>2, <3>1, <3>2
         DEF Having, Alive, OnlyHeld, NotHeld, ReaderIsFit, Mine, Supported
  <2>3. ~Nothing
    BY <1>1 DEF Nothing
  <2>. QED  BY <2>1, <2>2, <2>3 DEF PatientInv, Phases
<1>. QED  BY <1>2, <1>3, <1>4, <1>5 DEF avars

-----------------------------------------------------------------------------
(* The activity. *)

(* A new controller opens the chosen camera for an activity that has none.  *)
LEMMA InitCameraAsks ==
  ASSUME PatientInv, InitCamera, Nothing, MainFree,
         "coldStart" \in Habits /\ life = "stopped" => ~Mine.needCreateCaptureSession,
         life' \in {"created", "resumed"},
         life' = "created" => life = "none",
         UNCHANGED <<toNotify, surface, serviceVars, crashed, mCameraId>>
  PROVE  /\ \E n \in Jobs : Asking(n)' /\ job'[n].pc = "launched"
         /\ current' = created' /\ created' # 0
         /\ SurfaceHonest' /\ ColdStartOnly' /\ Mine'.cameraId = mCameraId'
<1> DEFINE c == created + 1
<1>1. /\ c \in Controllers /\ c # None /\ created' = c /\ current' = c /\ created \in Nat
      /\ ctrl \in [Controllers -> ControllerState] /\ TypeOK
      /\ ctrl' = [ctrl EXCEPT ![c] = Opening(NewController(mCameraId), mCameraId)]
      /\ callbacks' = Append(callbacks, c) /\ callbacks \in Seq(Controllers)
  BY BoundsAssumption
     DEF InitCamera, StartPreview, PatientInv, TypeOK, ControllerOK, Controllers, None
<1>2. PICK n \in Jobs :
        /\ job[n].pc = "idle"
        /\ \A i \in Jobs : i # n => job'[i] = job[i]
        /\ job'[n].pc = "launched" /\ job'[n].kind = "open"
        /\ job'[n].owner = c /\ job'[n].cam = mCameraId
  BY <1>1, LaunchTakesIdle DEF InitCamera
<1>3. /\ Mine' = ctrl'[c]
      /\ Mine'.cameraId = mCameraId /\ Mine'.isOpening /\ ~Mine'.isOpen
      /\ Mine'.mCameraDevice = None /\ Mine'.width = DefaultSize
      /\ ~Mine'.surfaceCreated /\ ~Mine'.needCreateCaptureSession
      /\ \A i \in Controllers : i # c => ctrl'[i] = ctrl[i]
  BY <1>1 DEF Mine, Opening, NewController
<1>4. UNCHANGED <<toNotify, surface, device, session, streaming, mCameraId>>
      /\ toNotify = <<>>
  BY DEF serviceVars, MainFree
<1>5. Asking(n)'
  BY <1>1, <1>2, <1>3, <1>4
     DEF Asking, Nothing, Settled, Alive, OnlyAtWork, AtRest, OnlyHeld, NotHeld
<1>6. SurfaceHonest'
  BY <1>3, <1>4 DEF SurfaceHonest
<1>7. ColdStartOnly'
  <2>1. \A i \in Controllers : ~ctrl'[i].needCreateCaptureSession
    <3>1. \A i \in Controllers : ~ctrl[i].needCreateCaptureSession
      <4>. SUFFICES ASSUME NEW i \in Controllers, ctrl[i].needCreateCaptureSession
                    PROVE  FALSE
        OBVIOUS
      <4>1. i = current /\ created = 1 /\ "coldStart" \in Habits
        BY DEF PatientInv, ColdStartOnly
      <4>2. life = "stopped"
        BY <1>1, <4>1 DEF PatientInv, Nothing, Alive, TypeOK, Lives
      <4>. QED  BY <4>1, <4>2 DEF Mine
    <3>. QED  BY <1>1, <1>3, <3>1
  <2>2. c = 1 => callbacks' = <<1>>
    <3>1. c = 1 => callbacks = <<>>
      BY <1>1 DEF PatientInv, ColdStartOnly
    <3>. QED  BY <1>1, <3>1
  <2>. QED  BY <1>1, <1>3, <1>4, <2>1, <2>2 DEF ColdStartOnly
<1>. QED  BY <1>1, <1>2, <1>3, <1>4, <1>5, <1>6, <1>7

(* What a controller has or waits for stays when the activity goes on.      *)
LEMMA LifeGoesOn ==
  ASSUME PatientInv, Alive, Alive', MainFree,
         UNCHANGED <<cvars, created, current, mCameraId>>
  PROVE  /\ UNCHANGED <<ctrl, job, device, streaming, created, current, mCameraId>>
         /\ Phases' /\ ~Nothing
         /\ SurfaceHonest' /\ ColdStartOnly'
<1>1. UNCHANGED <<ctrl, callbacks, toNotify, surface, job, device, session, streaming,
                  created, current, mCameraId>> /\ toNotify = <<>>
  BY DEF cvars, MainFree
<1>2. ASSUME NEW j \in Jobs, Asking(j) PROVE Asking(j)'
  BY <1>1, <1>2
     DEF Asking, OnlyAtWork, AtRest, OnlyHeld, NotHeld, ReaderIsFit, Mine, Supported
<1>3. ASSUME NEW d \in Jobs, Having(d) PROVE Having(d)'
  <2>1. Settled => Settled'
    BY <1>1 DEF Settled
  <2>2. \A j \in Jobs : Showing(j, d) => Showing(j, d)'
    BY <1>1 DEF Showing, OnlyAtWork, AtRest, Supported
  <2>. QED
    BY <1>1, <1>3, <2>1, <2>2
       DEF Having, OnlyHeld, NotHeld, ReaderIsFit, Mine, Supported
<1>4. ~Nothing
  BY DEF Nothing
<1>5. SurfaceHonest'
  BY <1>1 DEF PatientInv, SurfaceHonest, Mine
<1>6. ColdStartOnly'
  BY <1>1 DEF PatientInv, ColdStartOnly, Mine, Settled
<1>. QED  BY <1>1, <1>2, <1>3, <1>4, <1>5, <1>6 DEF PatientInv, Phases

(* onStop of a settled activity closes the only device there is.            *)
LEMMA OnStopClears ==
  ASSUME PatientEnvironment, PatientInv, OnStop
  PROVE  /\ \E d \in Jobs : Having(d)
         /\ Nothing'
         /\ UNCHANGED <<job, created, current, mCameraId>> /\ streaming' = {}
         /\ SurfaceHonest' /\ ColdStartOnly' /\ Mine'.cameraId = mCameraId'
<1>1. Alive /\ Settled /\ life # "none" /\ ~Alive' /\ toNotify' = <<>>
  BY DEF OnStop, PatientEnvironment, Alive, MainFree
<1>2. PICK d \in Jobs : Having(d)
  BY <1>1, SettledHas
<1>3. /\ current \in Controllers /\ current # None /\ Mine \in ControllerState
      /\ ctrl \in [Controllers -> ControllerState] /\ Mine.cameraId = mCameraId
  BY <1>1, CurrentType DEF PatientInv, TypeOK, ControllerOK
<1>4. UNCHANGED <<job, callbacks, created, current, mCameraId>>
  BY DEF OnStop
<1>5. /\ Mine'.cameraId = Mine.cameraId /\ ~Mine'.isOpen
      /\ Mine'.isOpening = Mine.isOpening
      /\ \A c \in Controllers :
           ctrl'[c].needCreateCaptureSession = ctrl[c].needCreateCaptureSession
  BY <1>3, <1>4 DEF OnStop, Closed, ControllerState, Mine
<1>6. Mine.mCameraDevice = d /\ OnlyHeld(d) /\ ~Mine.isOpening
  BY <1>2 DEF Having
<1>7. (\A e \in Jobs : device'[e] \in {"none", "closed"}) /\ streaming' = {}
  <2>1. streaming \subseteq {d}
    BY <1>1, <1>2 DEF Having, Showing, Settled
  <2>. QED  BY <1>6, <2>1 DEF OnStop, CloseDevice, Mine, OnlyHeld, NotHeld
<1>8. Settled'
  BY <1>1, <1>4 DEF Settled
<1>9. Nothing'
  BY <1>1, <1>5, <1>6, <1>7, <1>8 DEF Nothing, NotHeld
<1>10. SurfaceHonest' /\ ColdStartOnly'
  BY <1>1, <1>4, <1>5 DEF PatientInv, SurfaceHonest, ColdStartOnly
<1>. QED  BY <1>2, <1>3, <1>4, <1>5, <1>7, <1>9, <1>10

(* The switch of a settled activity closes the one camera and asks for the  *)
(* other.                                                                   *)
LEMMA ClickSwitchAsks ==
  ASSUME PatientEnvironment, PatientInv, ClickSwitch
  PROVE  /\ \E n \in Jobs : Asking(n)' /\ job'[n].pc = "launched"
         /\ UNCHANGED <<life, created, current>> /\ mCameraId' \in Cameras
         /\ SurfaceHonest' /\ ColdStartOnly' /\ Mine'.cameraId = mCameraId'
<1>1. Alive /\ Settled /\ life # "none" /\ surface /\ toNotify = <<>>
  BY DEF ClickSwitch, PatientEnvironment, Alive, MainFree
<1>2. PICK d \in Jobs : Having(d)
  BY <1>1, SettledHas
<1>3. /\ current \in Controllers /\ current # None /\ Mine \in ControllerState
      /\ ctrl \in [Controllers -> ControllerState] /\ TypeOK
      /\ callbacks \in Seq(Controllers)
  BY <1>1, CurrentType DEF PatientInv, TypeOK, ControllerOK
<1>4. UNCHANGED <<life, created, current, toNotify, surface>>
      /\ callbacks' = Append(callbacks, current)
  BY DEF ClickSwitch, StartPreview
<1>5. PICK k \in Cameras \ {mCameraId} :
         /\ mCameraId' = k
         /\ ctrl' = [ctrl EXCEPT ![current] = Opening(Closed(ctrl[current]), k)]
         /\ Launch(current, "open", k)
  BY DEF ClickSwitch
<1>6. PICK n \in Jobs :
        /\ job[n].pc = "idle"
        /\ \A i \in Jobs : i # n => job'[i] = job[i]
        /\ job'[n].pc = "launched" /\ job'[n].kind = "open"
        /\ job'[n].owner = current /\ job'[n].cam = k
  BY <1>3, <1>5, LaunchTakesIdle
<1>7. /\ Mine'.cameraId = k /\ Mine'.isOpening /\ ~Mine'.isOpen
      /\ Mine'.mCameraDevice = None /\ Mine'.width = DefaultSize
      /\ \A c \in Controllers :
           ctrl'[c].needCreateCaptureSession = ctrl[c].needCreateCaptureSession
  BY <1>3, <1>4, <1>5 DEF Opening, Closed, ControllerState, Mine
<1>8. (\A e \in Jobs : device'[e] \in {"none", "closed"}) /\ streaming' = {}
  <2>1. Mine.mCameraDevice = d /\ OnlyHeld(d) /\ streaming \subseteq {d}
    BY <1>1, <1>2 DEF Having, Showing, Settled
  <2>. QED  BY <2>1 DEF ClickSwitch, CloseDevice, Mine, OnlyHeld, NotHeld
<1>9. Asking(n)'
  BY <1>1, <1>4, <1>5, <1>6, <1>7, <1>8
     DEF Asking, Settled, Alive, OnlyAtWork, AtRest, OnlyHeld, NotHeld
<1>10. SurfaceHonest'
  BY <1>1, <1>4 DEF SurfaceHonest
<1>11. ColdStartOnly'
  <2>1. created # 0
    BY <1>1 DEF PatientInv
  <2>. QED  BY <1>1, <1>4, <1>7, <2>1 DEF PatientInv, ColdStartOnly
<1>. QED  BY <1>4, <1>5, <1>6, <1>7, <1>9, <1>10, <1>11

-----------------------------------------------------------------------------
(* What the activity sees of each phase, in the words of CameraContract. *)

Phase == IF current = None THEN "closed"
         ELSE IF ctrl[current].isOpening THEN "opening"
         ELSE IF ctrl[current].isOpen THEN "open" ELSE "closed"
Held == {job[d].cam : d \in {e \in Jobs : device[e] = "open"}}
Shown == {job[d].cam : d \in streaming}

Sees(phase, held, shown) == Phase = phase /\ Held = held /\ Shown = shown

AskingHolds(j) == IF job[j].pc = "opened" THEN {mCameraId} ELSE {}
HavingShows(d) == IF d \in streaming THEN {mCameraId} ELSE {}

(* Nothing is a closed controller.                                         *)
LEMMA NothingSees ==
  /\ Nothing => Sees("closed", {}, {})
  /\ Nothing' => Sees("closed", {}, {})'
<1>1. Nothing => Sees("closed", {}, {})
  BY DEF Nothing, Sees, Phase, Held, Shown, NotHeld, Mine
<1>2. Nothing' => Sees("closed", {}, {})'
  BY DEF Nothing, Sees, Phase, Held, Shown, NotHeld, Mine
<1>. QED  BY <1>1, <1>2

(* A controller that asks is opening; it holds its camera once the service  *)
(* has granted it.                                                          *)
LEMMA AskingSees ==
  ASSUME NEW j \in Jobs
  PROVE  /\ Asking(j) /\ current # None => Sees("opening", AskingHolds(j), {})
         /\ Asking(j)' /\ current' # None => Sees("opening", AskingHolds(j), {})'
<1>1. Asking(j) /\ current # None => Sees("opening", AskingHolds(j), {})
  BY DEF Asking, AskingHolds, Sees, Phase, Held, Shown, OnlyHeld, NotHeld, Mine
<1>2. Asking(j)' /\ current' # None => Sees("opening", AskingHolds(j), {})'
  BY DEF Asking, AskingHolds, Sees, Phase, Held, Shown, OnlyHeld, NotHeld, Mine
<1>. QED  BY <1>1, <1>2

(* A controller that has its device is open and shows it once it streams.   *)
LEMMA HavingSees ==
  ASSUME NEW d \in Jobs
  PROVE  /\ Having(d) /\ current # None => Sees("open", {mCameraId}, HavingShows(d))
         /\ Having(d)' /\ current' # None => Sees("open", {mCameraId}, HavingShows(d))'
<1>1. Having(d) => streaming \subseteq {d}
  BY DEF Having, Showing
<1>2. Having(d)' => streaming' \subseteq {d}
  BY DEF Having, Showing
<1>3. Having(d) /\ current # None => Sees("open", {mCameraId}, HavingShows(d))
  BY <1>1 DEF Having, HavingShows, Sees, Phase, Held, Shown, OnlyHeld, NotHeld, Mine
<1>4. Having(d)' /\ current' # None => Sees("open", {mCameraId}, HavingShows(d))'
  BY <1>2 DEF Having, HavingShows, Sees, Phase, Held, Shown, OnlyHeld, NotHeld, Mine
<1>. QED  BY <1>3, <1>4

ContractStep == [Contract!Next]_(Contract!cvars)

(* A step that changes nothing of what the activity sees is a stutter.      *)
LEMMA SeesTheSame ==
  ASSUME UNCHANGED <<Phase, Held, Shown, mCameraId>>
  PROVE  ContractStep
BY DEF ContractStep, Contract!cvars, Phase, Held, Shown

-----------------------------------------------------------------------------
(* The invariant, and the contract, step by step. *)

(* The process starts with nothing open.                                   *)
LEMMA PatientInit == Init => PatientInv
<1> SUFFICES ASSUME Init PROVE PatientInv
  OBVIOUS
<1>1. TypeOK
  BY TypeInit
<1>2. Nothing /\ toNotify = <<>> /\ callbacks = <<>> /\ ~Alive
  BY DEF Init, ControllerInit, IdleJob, Nothing, Alive, Settled, NotHeld
<1>3. SurfaceHonest /\ ColdStartOnly
  BY <1>2 DEF Init, ControllerInit, NewController, SurfaceHonest, ColdStartOnly
<1>. QED
  BY <1>1, <1>2, <1>3 DEF PatientInv, Phases, Init, ControllerInit, None

(* The pieces of the coroutine that opens.                                 *)
LEMMA OpeningStep ==
  ASSUME PatientEnvironment, PatientInv, TypeOK', NEW j \in Jobs, UNCHANGED avars,
         StartOpen(j) \/ ResumeOpened(j) \/ DeviceAnswers(j)
  PROVE  PatientInv' /\ ContractStep
<1>1. UNCHANGED <<life, created, current, mCameraId, crashed>>
  BY DEF avars, StartOpen, ResumeOpened, DeviceAnswers, OnOpened, Answer
<1>2. CASE StartOpen(j)
  <2>1. /\ Asking(j) /\ Asking(j)' /\ job[j].pc # "opened" /\ job'[j].pc # "opened"
        /\ SurfaceHonest' /\ ColdStartOnly' /\ Mine'.cameraId = mCameraId'
    BY <1>2, StartOpenAsks
  <2>2. PatientInv'
    BY <1>1, <2>1 DEF PatientInv, Phases
  <2>3. current # None
    BY <2>1 DEF Asking, Alive, PatientInv, None
  <2>4. Sees("opening", {}, {}) /\ Sees("opening", {}, {})'
    BY <1>1, <2>1, <2>3, AskingSees DEF AskingHolds, Sees
  <2>. QED  BY <1>1, <2>2, <2>4, SeesTheSame DEF Sees
<1>3. CASE DeviceAnswers(j)
  <2>1. /\ Asking(j) /\ Asking(j)' /\ job[j].pc # "opened" /\ job'[j].pc = "opened"
        /\ SurfaceHonest' /\ ColdStartOnly' /\ Mine'.cameraId = mCameraId'
    <3>1. /\ Asking(j) /\ Asking(j)' /\ job[j].pc = "opening" /\ device'[j] = "open"
          /\ SurfaceHonest' /\ ColdStartOnly' /\ Mine'.cameraId = mCameraId'
      BY <1>3, DeviceAnswersGrants
    <3>2. job'[j].pc = "opened"
      BY <3>1 DEF Asking, NotHeld
    <3>. QED  BY <3>1, <3>2
  <2>2. PatientInv'
    BY <1>1, <2>1 DEF PatientInv, Phases
  <2>3. current # None
    BY <2>1 DEF Asking, Alive, PatientInv, None
  <2>4. Sees("opening", {}, {}) /\ Sees("opening", {mCameraId}, {})'
    BY <1>1, <2>1, <2>3, AskingSees DEF AskingHolds, Sees
  <2>5. Contract!Grant
    BY <1>1, <2>4 DEF Contract!Grant, Sees, Phase, Held, Shown
  <2>. QED  BY <2>2, <2>5 DEF ContractStep, Contract!Next
<1>4. CASE ResumeOpened(j)
  <2>1. /\ Asking(j) /\ Having(j)' /\ job[j].pc = "opened" /\ streaming' = {}
        /\ SurfaceHonest' /\ ColdStartOnly' /\ Mine'.cameraId = mCameraId'
    BY <1>4, ResumeOpenedHas
  <2>2. PatientInv'
    BY <1>1, <2>1 DEF PatientInv, Phases
  <2>3. current # None
    BY <2>1 DEF Asking, Alive, PatientInv, None
  <2>4. Sees("opening", {mCameraId}, {}) /\ Sees("open", {mCameraId}, {})'
    BY <1>1, <2>1, <2>3, AskingSees, HavingSees DEF AskingHolds, HavingShows, Sees
  <2>5. Contract!Opened
    BY <1>1, <2>4 DEF Contract!Opened, Sees, Phase, Held, Shown
  <2>. QED  BY <2>2, <2>5 DEF ContractStep, Contract!Next
<1>. QED  BY <1>2, <1>3, <1>4

(* The pieces of the coroutine that shows.                                 *)
LEMMA ShowingStep ==
  ASSUME PatientInv, TypeOK', NEW j \in Jobs, UNCHANGED avars,
         \/ StartSurface(j) \/ RatioPosted(j) \/ CreateSession(j) \/ OnConfigured(j)
         \/ ResumeConfigured(j)
  PROVE  PatientInv' /\ ContractStep
<1>1. UNCHANGED <<life, created, current, mCameraId, crashed>>
  BY DEF avars, StartSurface, RatioPosted, CreateSession, OnConfigured, ResumeConfigured,
         Answer
<1>2. CASE StartSurface(j) \/ RatioPosted(j) \/ CreateSession(j) \/ OnConfigured(j)
  <2>1. PICK d \in Jobs :
           /\ Having(d) /\ Having(d)' /\ streaming = {} /\ streaming' = {}
           /\ SurfaceHonest' /\ ColdStartOnly' /\ Mine'.cameraId = mCameraId'
    BY <1>2, ShowingGoesOn
  <2>2. PatientInv'
    BY <1>1, <2>1 DEF PatientInv, Phases
  <2>3. current # None
    BY <2>1 DEF Having, Alive, PatientInv, None
  <2>4. Sees("open", {mCameraId}, {}) /\ Sees("open", {mCameraId}, {})'
    BY <1>1, <2>1, <2>3, HavingSees DEF HavingShows, Sees
  <2>. QED  BY <1>1, <2>2, <2>4, SeesTheSame DEF Sees
<1>3. CASE ResumeConfigured(j)
  <2>1. PICK d \in Jobs :
           /\ Having(d) /\ Having(d)' /\ streaming = {} /\ streaming' = {d}
           /\ SurfaceHonest' /\ ColdStartOnly' /\ Mine'.cameraId = mCameraId'
    BY <1>3, ResumeConfiguredShows
  <2>2. PatientInv'
    BY <1>1, <2>1 DEF PatientInv, Phases
  <2>3. current # None
    BY <2>1 DEF Having, Alive, PatientInv, None
  <2>4. Sees("open", {mCameraId}, {}) /\ Sees("open", {mCameraId}, {mCameraId})'
    BY <1>1, <2>1, <2>3, HavingSees DEF HavingShows, Sees
  <2>5. Contract!Show
    BY <1>1, <2>4 DEF Contract!Show, Sees, Phase, Held, Shown
  <2>. QED  BY <2>2, <2>5 DEF ContractStep, Contract!Next
<1>. QED  BY <1>2, <1>3

(* The view's surface and its callbacks: nothing the contract speaks of.    *)
LEMMA SurfaceStep ==
  ASSUME PatientInv, TypeOK',
         SurfaceAppears \/ (SurfaceCreated /\ UNCHANGED avars)
  PROVE  PatientInv' /\ ContractStep
<1>1. UNCHANGED <<life, created, current, mCameraId, crashed>>
  BY DEF avars, SurfaceAppears, SurfaceCreated
<1>2. CASE SurfaceAppears
  <2>1. /\ UNCHANGED <<ctrl, job, device, streaming>>
        /\ Phases' /\ SurfaceHonest' /\ ColdStartOnly'
    BY <1>2, SurfaceAppearsTells
  <2>2. PatientInv'
    BY <1>1, <2>1 DEF PatientInv, Mine
  <2>3. UNCHANGED <<Phase, Held, Shown>>
    BY <1>1, <2>1 DEF Phase, Held, Shown
  <2>. QED  BY <1>1, <2>2, <2>3, SeesTheSame
<1>3. CASE SurfaceCreated /\ UNCHANGED avars
  <2>1. /\ \/ \E j \in Jobs : Asking(j) /\ Asking(j)' /\ UNCHANGED job
           \/ \E d \in Jobs : Having(d) /\ Having(d)'
        /\ UNCHANGED streaming
        /\ SurfaceHonest' /\ ColdStartOnly' /\ Mine'.cameraId = mCameraId'
    BY <1>3, SurfaceCreatedTells
  <2>2. PatientInv'
    BY <1>1, <2>1 DEF PatientInv, Phases
  <2>3. current # None
    BY <2>1 DEF Asking, Having, Alive, PatientInv, None
  <2>4. UNCHANGED <<Phase, Held, Shown>>
    <3>1. CASE \E j \in Jobs : Asking(j) /\ Asking(j)' /\ UNCHANGED job
      BY <1>1, <2>3, <3>1, AskingSees DEF AskingHolds, Sees
    <3>2. CASE \E d \in Jobs : Having(d) /\ Having(d)'
      BY <1>1, <2>1, <2>3, <3>2, HavingSees DEF HavingShows, Sees
    <3>. QED  BY <2>1, <3>1, <3>2
  <2>. QED  BY <1>1, <2>2, <2>4, SeesTheSame
<1>. QED  BY <1>2, <1>3

(* A controller that is neither open nor opening is one that has nothing.   *)
LEMMA ClosedHasNothing ==
  ASSUME PatientInv, life = "none" \/ (~Mine.isOpen /\ ~Mine.isOpening)
  PROVE  Nothing
BY DEF PatientInv, Phases, Asking, Having, Alive

(* The activity's creation and its return to the foreground.               *)
LEMMA OpenStep ==
  ASSUME PatientInv, TypeOK', OnCreate \/ OnResume
  PROVE  PatientInv' /\ ContractStep
<1>1. UNCHANGED <<crashed, mCameraId, toNotify, surface, serviceVars>> /\ MainFree
      /\ life' \in {"created", "resumed"} /\ mCameraId \in Cameras
  BY DEF OnCreate, OnResume, PatientInv, TypeOK
<1>2. CASE InitCamera /\ Nothing /\ (life' = "created" => life = "none")
           /\ ("coldStart" \in Habits /\ life = "stopped" => ~Mine.needCreateCaptureSession)
  <2>1. PICK n \in Jobs : Asking(n)' /\ job'[n].pc = "launched"
    BY <1>1, <1>2, InitCameraAsks
  <2>2. /\ current' = created' /\ created' # 0
        /\ SurfaceHonest' /\ ColdStartOnly' /\ Mine'.cameraId = mCameraId'
    BY <1>1, <1>2, InitCameraAsks
  <2>3. PatientInv'
    BY <1>1, <2>1, <2>2 DEF PatientInv, Phases
  <2>4. Sees("closed", {}, {}) /\ Sees("opening", {}, {})'
    BY <1>2, <2>1, <2>2, NothingSees, AskingSees DEF AskingHolds, Sees, None
  <2>5. Contract!Open(mCameraId)
    BY <1>1, <2>4 DEF Contract!Open, Sees, Phase, Held, Shown
  <2>. QED  BY <1>1, <2>3, <2>5 DEF ContractStep, Contract!Next
<1>3. CASE Alive /\ UNCHANGED <<created, current, ctrl, callbacks, nextJob, job, mainQueue>>
  <2>1. Alive' /\ UNCHANGED <<cvars, created, current, mCameraId>>
    BY <1>1, <1>3 DEF Alive, cvars, serviceVars
  <2>2. /\ UNCHANGED <<ctrl, job, device, streaming, created, current, mCameraId>>
        /\ Phases' /\ SurfaceHonest' /\ ColdStartOnly'
    BY <1>1, <1>3, <2>1, LifeGoesOn
  <2>3. PatientInv'
    BY <1>1, <1>3, <2>1, <2>2 DEF PatientInv, Mine, Alive
  <2>4. UNCHANGED <<Phase, Held, Shown>>
    BY <2>2 DEF Phase, Held, Shown
  <2>. QED  BY <2>2, <2>3, <2>4, SeesTheSame
<1>4. CASE OnCreate
  BY <1>2, <1>4, ClosedHasNothing DEF OnCreate
<1>5. CASE OnResume
  <2>1. ~Alive => Nothing
    BY DEF PatientInv, Phases, Asking, Having
  <2>2. ~Alive => life = "stopped" /\ current # None
    BY <1>5, CurrentType DEF OnResume, Alive
  <2>3. CASE ~Mine.isOpen /\ ~Mine.isOpening
    <3>1. InitCamera /\ Nothing /\ life' = "resumed"
          /\ ("coldStart" \in Habits /\ life = "stopped" => ~Mine.needCreateCaptureSession)
      BY <1>5, <2>3, ClosedHasNothing DEF OnResume, Mine
    <3>. QED  BY <1>2, <3>1
  <2>4. CASE ~(~Mine.isOpen /\ ~Mine.isOpening)
    <3>1. Alive
      BY <2>1, <2>2, <2>4 DEF Nothing
    <3>. QED  BY <1>3, <1>5, <2>4, <3>1 DEF OnResume, Mine
  <2>. QED  BY <2>3, <2>4
<1>. QED  BY <1>4, <1>5

(* The activity goes to the background, stops, or switches cameras.         *)
LEMMA LeaveStep ==
  ASSUME PatientEnvironment, PatientInv, TypeOK', OnPause \/ OnStop \/ ClickSwitch
  PROVE  PatientInv' /\ ContractStep
<1>1. CASE OnPause
  <2>1. Alive /\ Alive' /\ MainFree /\ UNCHANGED <<cvars, created, current, mCameraId>>
        /\ life # "none" /\ life' # "none" /\ UNCHANGED crashed
    BY <1>1 DEF OnPause, Alive, cvars
  <2>2. /\ UNCHANGED <<ctrl, job, device, streaming>>
        /\ Phases' /\ SurfaceHonest' /\ ColdStartOnly'
    BY <2>1, LifeGoesOn
  <2>3. PatientInv'
    BY <2>1, <2>2 DEF PatientInv, Mine
  <2>4. UNCHANGED <<Phase, Held, Shown>>
    BY <2>1, <2>2 DEF Phase, Held, Shown
  <2>. QED  BY <2>1, <2>3, <2>4, SeesTheSame
<1>2. CASE OnStop
  <2>1. /\ Nothing' /\ UNCHANGED <<created, current, mCameraId>>
        /\ SurfaceHonest' /\ ColdStartOnly' /\ Mine'.cameraId = mCameraId'
    BY <1>2, OnStopClears
  <2>2. life # "none" /\ life' # "none" /\ UNCHANGED crashed
    BY <1>2 DEF OnStop
  <2>3. PatientInv'
    BY <2>1, <2>2 DEF PatientInv, Phases
  <2>4. Sees("closed", {}, {})'
    BY <2>1, NothingSees
  <2>5. Contract!Close
    BY <2>1, <2>4 DEF Contract!Close, Sees, Phase, Held, Shown
  <2>. QED  BY <2>3, <2>5 DEF ContractStep, Contract!Next
<1>3. CASE ClickSwitch
  <2>1. PICK n \in Jobs : Asking(n)' /\ job'[n].pc = "launched"
    BY <1>3, ClickSwitchAsks
  <2>2. /\ UNCHANGED <<life, created, current, crashed>> /\ mCameraId' \in Cameras
        /\ SurfaceHonest' /\ ColdStartOnly' /\ Mine'.cameraId = mCameraId'
        /\ life = "resumed"
    BY <1>3, ClickSwitchAsks DEF ClickSwitch
  <2>3. PatientInv'
    BY <2>1, <2>2 DEF PatientInv, Phases
  <2>4. Sees("opening", {}, {})'
    BY <2>1, <2>2, AskingSees DEF AskingHolds, Sees, None, PatientInv
  <2>5. PICK k \in Cameras : k = mCameraId'
    BY <2>2
  <2>6. Contract!Switch(k)
    BY <2>4, <2>5 DEF Contract!Switch, Sees, Phase, Held, Shown
  <2>7. Contract!Next
    BY <2>6 DEF Contract!Next
  <2>. QED  BY <2>3, <2>7 DEF ContractStep
<1>. QED  BY <1>1, <1>2, <1>3

(* Every step keeps the invariant and is a step of the contract.           *)
LEMMA PatientStep ==
  ASSUME PatientEnvironment
  PROVE  PatientInv /\ [Next]_vars => PatientInv' /\ ContractStep
<1> SUFFICES ASSUME PatientInv, [Next]_vars PROVE PatientInv' /\ ContractStep
  OBVIOUS
<1>1. TypeOK'
  BY TypeStep DEF PatientInv
<1>2. CASE System
  <2>1. CASE SurfaceCreated /\ UNCHANGED avars
    BY <1>1, <2>1, SurfaceStep
  <2>2. ASSUME NEW j \in Jobs,
               MainJob(j) \/ DeviceAnswers(j) \/ OnConfigured(j) \/ OnConfigureFailed(j),
               UNCHANGED avars
        PROVE  PatientInv' /\ ContractStep
    <3>1. CASE StartOpen(j) \/ ResumeOpened(j) \/ DeviceAnswers(j)
      BY <1>1, <2>2, <3>1, OpeningStep
    <3>2. CASE \/ StartSurface(j) \/ RatioPosted(j) \/ CreateSession(j) \/ OnConfigured(j)
               \/ ResumeConfigured(j)
      BY <1>1, <2>2, <3>2, ShowingStep
    <3>. QED  BY <2>2, <3>1, <3>2, NoFailure DEF MainJob
  <2>. QED  BY <1>2, <2>1, <2>2 DEF System
<1>3. CASE Failure
  BY <1>3, NoFailure DEF Failure
<1>4. CASE SurfaceAppears
  BY <1>1, <1>4, SurfaceStep
<1>5. CASE User
  BY <1>1, <1>5, OpenStep, LeaveStep DEF User
<1>6. CASE UNCHANGED vars
  <2>1. UNCHANGED <<life, created, current, mCameraId, ctrl, callbacks, toNotify, surface,
                    job, device, session, streaming, crashed>>
    BY <1>6 DEF vars, cvars, avars
  <2>2. PatientInv'
    BY <1>1, <2>1
       DEF PatientInv, Phases, Nothing, Asking, Having, Showing, Settled, SurfaceHonest,
           ColdStartOnly, Alive, Mine, OnlyAtWork, AtRest, OnlyHeld, NotHeld, ReaderIsFit,
           Supported
  <2>3. UNCHANGED <<Phase, Held, Shown>>
    BY <2>1 DEF Phase, Held, Shown
  <2>. QED  BY <2>1, <2>2, <2>3, SeesTheSame
<1>. QED  BY <1>2, <1>3, <1>4, <1>5, <1>6 DEF Next

-----------------------------------------------------------------------------
(* The invariant that says in which phase a patient activity is.            *)
THEOREM PatientPhases == PatientEnvironment => (Spec => []PatientInv)
<1> SUFFICES ASSUME PatientEnvironment PROVE Spec => []PatientInv
  OBVIOUS
<1>1. PatientInv /\ [Next]_vars => PatientInv'
  BY PatientStep
<1>. QED  BY <1>1, PatientInit, PTL DEF Spec

(* A process of a patient user never holds two devices at a time, across    *)
(* switches and across the controllers a restarted activity leaves behind.  *)
THEOREM OneDeviceAtATime == ASSUME PatientEnvironment PROVE Spec => []OneDevice
<1>1. PatientInv => OneDevice
  BY DEF PatientInv, Phases, Nothing, Asking, Having, OnlyHeld, NotHeld, OneDevice,
         HeldDevices
<1>. QED  BY <1>1, PatientPhases, PTL

(* onStop gives the device back and ends the preview, whichever controller  *)
(* had it.                                                                  *)
THEOREM StopReleases == ASSUME PatientEnvironment PROVE Spec => []StoppedReleases
<1>1. PatientInv => StoppedReleases
  BY DEF PatientInv, Phases, Nothing, Asking, Having, Alive, NotHeld, StoppedReleases,
         HeldDevices
<1>. QED  BY <1>1, PatientPhases, PTL

(* A session is configured with a reader of a size of its own camera, also  *)
(* after any number of switches between cameras of different sizes.         *)
THEOREM ReaderAlwaysFits == ASSUME PatientEnvironment PROVE Spec => []ReaderFits
<1>1. PatientInv => ReaderFits
  <2> SUFFICES ASSUME PatientInv, NEW j \in Jobs, job[j].pc = "configuring"
               PROVE  job[j].size \in Supported(job[job[j].on].cam)
    BY DEF ReaderFits
  <2>1. PICK d \in Jobs : Having(d) /\ Showing(j, d)
    BY AtWork DEF AtRest, Asking
  <2>. QED  BY <2>1 DEF Having, Showing
<1>. QED  BY <1>1, PatientPhases, PTL

(* No sequence of lifecycle callbacks, switches and answers ends in an      *)
(* uncaught exception.                                                      *)
THEOREM NoCrash == ASSUME PatientEnvironment PROVE Spec => []NeverCrashes
<1>1. PatientInv => NeverCrashes
  BY DEF PatientInv, NeverCrashes
<1>. QED  BY <1>1, PatientPhases, PTL

(* Camera2Controller as the activity uses it implements the interface: the  *)
(* initial states are initial states of CameraContract, and every step is   *)
(* one of its steps or changes nothing it speaks of.                        *)
THEOREM ContractIsImplemented ==
  ASSUME PatientEnvironment
  PROVE  Spec => ImplementsContract
<1>1. Init => Contract!Init
  <2> SUFFICES ASSUME Init PROVE Contract!Init
    OBVIOUS
  <2>1. Nothing /\ mCameraId \in Cameras
    BY FirstCameraAssumption
       DEF Init, ControllerInit, IdleJob, Nothing, Alive, Settled, NotHeld
  <2>2. Sees("closed", {}, {})
    BY <2>1, NothingSees
  <2>. QED  BY <2>1, <2>2 DEF Contract!Init, Sees, Phase, Held, Shown
<1>2. PatientInv /\ [Next]_vars => [Contract!Next]_(Contract!cvars)
  BY PatientStep DEF ContractStep
<1>3. Spec => []PatientInv
  BY PatientPhases
<1>. QED  BY <1>1, <1>2, <1>3, PTL DEF Spec, ImplementsContract, Contract!Spec
=============================================================================
