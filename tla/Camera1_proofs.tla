---------------------------- MODULE Camera1_proofs ----------------------------
(***************************************************************************)
(* Theorems of Camera1Activity, for every number of controllers and calls   *)
(* of openCamera, every set of cameras, every habit and every fault.        *)
(***************************************************************************)
EXTENDS Camera1Activity, SequenceTheorems, TLAPS

(* Type correctness in four parts, stronger than TypeOK in three places: a  *)
(* task that opens, and an executor that opens, name their call; a listener *)
(* a controller knows is registered; a handler runs for an activity only.   *)
Named == [kind : {"open"}, id : Opens] \cup [kind : {"preview"}, id : {None}]

CtrlOK ==
    /\ ctrl \in [Controllers -> ControllerState]
    /\ listeners \in [Controllers -> Nat]
    /\ \A c \in Controllers : ctrl[c].mListener => listeners[c] >= 1

NamedExec == [tasks : Seq(Named), pc : {"idle", "opening", "opened", "stored"},
              id : Opens \cup {None}, got : Opens \cup {None}]

ExecOK ==
    /\ exec \in [Controllers -> NamedExec]
    /\ \A c \in Controllers : exec[c].pc = "opening" => exec[c].id \in Opens
    /\ unseen \in [Controllers -> SUBSET Writes]
    /\ posted \in Seq(Controllers)

ServiceOK ==
    /\ toNotify \subseteq Controllers
    /\ surface \in BOOLEAN
    /\ opens \in 0..MaxOpens
    /\ asked \in [Opens -> Cameras]
    /\ camera \in [Opens -> {"none", "open", "released"}]
    /\ previewing \subseteq Opens
    /\ crashed \in BOOLEAN

ActivityOK ==
    /\ life \in {"none", "created", "resumed", "paused", "stopped"}
    /\ created \in 0..MaxControllers
    /\ current \in 0..created
    /\ life # "none" => current \in Controllers
    /\ mCameraId \in Cameras
    /\ main \in MainState
    /\ main.pc # "free" => life # "none"

TypeInv == CtrlOK /\ ExecOK /\ ServiceOK /\ ActivityOK

-----------------------------------------------------------------------------
(* A controller, and an executor, that changes to a well typed one.         *)
LEMMA CtrlChange ==
  ASSUME CtrlOK, NEW c \in Controllers, NEW s \in ControllerState,
         ctrl' = [ctrl EXCEPT ![c] = s],
         listeners' \in [Controllers -> Nat],
         \A d \in Controllers : listeners'[d] >= listeners[d] \/ d = c,
         s.mListener => listeners'[c] >= 1
  PROVE  CtrlOK'
<1>1. ctrl' \in [Controllers -> ControllerState]
  BY DEF CtrlOK
<1>2. ASSUME NEW d \in Controllers, ctrl'[d].mListener PROVE listeners'[d] >= 1
  <2>1. CASE d = c
    BY <1>2, <2>1 DEF CtrlOK
  <2>2. CASE d # c
    <3>1. ctrl'[d] = ctrl[d] /\ listeners[d] >= 1
      BY <1>2, <2>2 DEF CtrlOK
    <3>2. listeners[d] \in Nat /\ listeners'[d] \in Nat /\ listeners'[d] >= listeners[d]
      BY <2>2 DEF CtrlOK
    <3>. QED  BY <3>1, <3>2
  <2>. QED  BY <2>1, <2>2
<1>. QED  BY <1>1, <1>2 DEF CtrlOK

(* The same for what an executor does. *)
LEMMA ExecChange ==
  ASSUME ExecOK, NEW c \in Controllers, NEW e \in NamedExec,
         e.pc = "opening" => e.id \in Opens,
         exec' = [exec EXCEPT ![c] = e],
         unseen' \in [Controllers -> SUBSET Writes],
         posted' \in Seq(Controllers)
  PROVE  ExecOK'
BY DEF ExecOK

(* Appending a task and taking one off keep an executor well typed. *)
LEMMA TaskAdded ==
  ASSUME NEW e \in NamedExec, NEW t \in Named
  PROVE  [e EXCEPT !.tasks = Append(@, t)] \in NamedExec
<1>1. e.tasks \in Seq(Named)
  BY DEF NamedExec
<1>2. Append(e.tasks, t) \in Seq(Named)
  BY <1>1, AppendProperties
<1>. QED  BY <1>2 DEF NamedExec

(* The task taken off the queue is a task, and so are those left. *)
LEMMA TaskTaken ==
  ASSUME NEW e \in NamedExec, e.tasks # <<>>
  PROVE  /\ Head(e.tasks) \in Named
         /\ Tail(e.tasks) \in Seq(Named)
<1>1. e.tasks \in Seq(Named)
  BY DEF NamedExec
<1>. QED  BY <1>1, HeadTailProperties

(* openCamera numbers its call within the bound and queues it. *)
LEMMA OpenCameraType ==
  ASSUME CtrlOK, ExecOK, ServiceOK, NEW c \in Controllers, NEW s \in ControllerState,
         NEW k \in Cameras, s.mListener => listeners[c] >= 1,
         OpenCamera(c, s, k), UNCHANGED <<listeners, unseen, posted>>
  PROVE  CtrlOK' /\ ExecOK' /\ opens' \in 0..MaxOpens /\ asked' \in [Opens -> Cameras]
<1>1. opens + 1 \in Opens /\ opens' = opens + 1
  BY BoundsAssumption DEF ServiceOK, OpenCamera, Opens
<1>2. opens' \in 0..MaxOpens /\ asked' \in [Opens -> Cameras]
  BY <1>1 DEF ServiceOK, OpenCamera, Opens
<1>3. CtrlOK'
  <2>1. [s EXCEPT !.isOpening = TRUE] \in ControllerState
        /\ [s EXCEPT !.isOpening = TRUE].mListener = s.mListener
    BY DEF ControllerState
  <2>2. listeners' \in [Controllers -> Nat] /\ \A d \in Controllers : listeners'[d] >= listeners[d]
    BY DEF CtrlOK
  <2>. QED  BY <2>1, <2>2, CtrlChange DEF OpenCamera
<1>4. ExecOK'
  <2> DEFINE t == [kind |-> "open", id |-> opens + 1]
             e == [exec[c] EXCEPT !.tasks = Append(@, t)]
  <2>1. t \in Named /\ exec[c] \in NamedExec
    BY <1>1 DEF Named, ExecOK
  <2>2. e \in NamedExec
    BY <2>1, TaskAdded
  <2>3. e.pc = exec[c].pc /\ e.id = exec[c].id
    BY <2>1 DEF NamedExec
  <2>4. exec' = [exec EXCEPT ![c] = e]
    BY DEF OpenCamera, Submit
  <2>5. unseen' \in [Controllers -> SUBSET Writes] /\ posted' \in Seq(Controllers)
    BY DEF ExecOK
  <2>6. e.pc = "opening" => e.id \in Opens
    BY <2>3 DEF ExecOK
  <2> HIDE DEF e
  <2>. QED  BY <2>2, <2>4, <2>5, <2>6, ExecChange
<1>. QED  BY <1>1, <1>2, <1>3, <1>4

(* openCamera's other half, startPreview of the handler. *)
LEMMA StartPreviewType ==
  ASSUME CtrlOK, ExecOK, NEW c \in Controllers, StartPreview(c), UNCHANGED <<unseen, posted>>
  PROVE  CtrlOK' /\ ExecOK'
<1>1. CASE ctrl[c].mCamera # None
  <2>1. ctrl' = [ctrl EXCEPT ![c] = WithListener(ctrl[c])]
        /\ listeners' = [listeners EXCEPT ![c] = @ + 1] /\ UNCHANGED exec
    BY <1>1 DEF StartPreview, AddListener
  <2>2. WithListener(ctrl[c]) \in ControllerState
    BY DEF CtrlOK, WithListener, ControllerState
  <2>3. listeners' \in [Controllers -> Nat] /\ listeners'[c] >= 1
        /\ \A d \in Controllers : listeners'[d] >= listeners[d] \/ d = c
    BY <2>1 DEF CtrlOK
  <2>4. CtrlOK'
    BY <2>1, <2>2, <2>3, CtrlChange
  <2>. QED  BY <2>1, <2>4 DEF ExecOK
<1>2. CASE ctrl[c].mCamera = None
  <2> DEFINE t == [kind |-> "preview", id |-> None]
             e == [exec[c] EXCEPT !.tasks = Append(@, t)]
  <2>1. t \in Named /\ exec[c] \in NamedExec
    BY DEF Named, ExecOK
  <2>2. e \in NamedExec
    BY <2>1, TaskAdded
  <2>3. e.pc = exec[c].pc /\ e.id = exec[c].id
    BY <2>1 DEF NamedExec
  <2>4. exec' = [exec EXCEPT ![c] = e]
    BY <1>2 DEF StartPreview, Submit
  <2>5. unseen' \in [Controllers -> SUBSET Writes] /\ posted' \in Seq(Controllers)
    BY DEF ExecOK
  <2>6. e.pc = "opening" => e.id \in Opens
    BY <2>3 DEF ExecOK
  <2> HIDE DEF e
  <2>7. ExecOK'
    BY <2>2, <2>4, <2>5, <2>6, ExecChange
  <2>. QED  BY <1>2, <2>7 DEF CtrlOK, StartPreview
<1>. QED  BY <1>1, <1>2

(* closeCamera takes a listener away only where one is registered. *)
LEMMA BeginCloseType ==
  ASSUME CtrlOK, NEW c \in Controllers, BeginClose(c), crashed \in BOOLEAN
  PROVE  CtrlOK' /\ crashed' \in BOOLEAN
<1>1. CASE ctrl[c].mSurfaceView
  <2> DEFINE s == [ctrl[c] EXCEPT !.mListener = FALSE, !.mClose = TRUE, !.isOpen = FALSE]
  <2>1. ctrl' = [ctrl EXCEPT ![c] = s]
    BY <1>1 DEF BeginClose
  <2>2. s \in ControllerState /\ ~s.mListener
    BY DEF CtrlOK, ControllerState
  <2>3. listeners' = [listeners EXCEPT ![c] = IF ctrl[c].mListener THEN listeners[c] - 1 ELSE listeners[c]]
    BY <1>1 DEF BeginClose
  <2>4. listeners[c] \in Nat /\ (ctrl[c].mListener => listeners[c] >= 1)
    BY DEF CtrlOK
  <2>5. listeners' \in [Controllers -> Nat]
    BY <2>3, <2>4 DEF CtrlOK
  <2>6. \A d \in Controllers : listeners'[d] >= listeners[d] \/ d = c
    BY <2>3 DEF CtrlOK
  <2> HIDE DEF s
  <2>7. CtrlOK'
    BY <2>1, <2>2, <2>5, <2>6, CtrlChange
  <2>. QED  BY <1>1, <2>7 DEF BeginClose
<1>2. CASE ~ctrl[c].mSurfaceView
  BY <1>2 DEF BeginClose, CtrlOK
<1>. QED  BY <1>1, <1>2

(* The release leaves the fields well typed, or ends the process. *)
LEMMA EndCloseType ==
  ASSUME CtrlOK, ServiceOK, NEW c \in Controllers, EndClose(c), UNCHANGED listeners
  PROVE  /\ CtrlOK' /\ crashed' \in BOOLEAN /\ previewing' \subseteq Opens
         /\ camera' \in [Opens -> {"none", "open", "released"}]
<1>1. CASE ctrl[c].mCamera # None
  <2> DEFINE s == [ctrl[c] EXCEPT !.mCamera = None, !.mSurfaceView = FALSE]
  <2>1. ctrl' = [ctrl EXCEPT ![c] = s]
    BY <1>1 DEF EndClose
  <2>2. s \in ControllerState /\ s.mListener = ctrl[c].mListener
    BY DEF CtrlOK, ControllerState
  <2>3. /\ listeners' \in [Controllers -> Nat]
        /\ \A d \in Controllers : listeners'[d] >= listeners[d] \/ d = c
        /\ s.mListener => listeners'[c] >= 1
    BY <2>2 DEF CtrlOK
  <2> HIDE DEF s
  <2>4. CtrlOK'
    BY <2>1, <2>2, <2>3, CtrlChange
  <2>. QED  BY <1>1, <2>4 DEF EndClose, ServiceOK
<1>2. CASE ctrl[c].mCamera = None
  BY <1>2 DEF EndClose, CtrlOK, ServiceOK
<1>. QED  BY <1>1, <1>2

(* What SurfaceListener.startPreview shows is a Camera object. *)
LEMMA ShowPreviewType ==
  ASSUME ServiceOK, NEW s \in ControllerState, ShowPreview(s)
  PROVE  previewing' \subseteq Opens /\ crashed' \in BOOLEAN
<1>1. s.mCamera \in Opens \cup {None}
  BY DEF ControllerState
<1>. QED  BY <1>1 DEF ServiceOK, ShowPreview

(* The executor's own steps. *)
LEMMA ExecutorType ==
  ASSUME CtrlOK, ExecOK, NEW c \in Controllers, Executor(c)
  PROVE  CtrlOK' /\ ExecOK'
<1>0. exec[c] \in NamedExec /\ ctrl[c] \in ControllerState
  BY DEF ExecOK, CtrlOK
<1>1. CASE TakeOpen(c)
  <2> DEFINE e == [exec[c] EXCEPT !.tasks = Tail(@), !.pc = "opening", !.id = Head(exec[c].tasks).id]
             s == [ctrl[c] EXCEPT !.mClose = FALSE]
  <2>1. exec[c].tasks # <<>> /\ Head(exec[c].tasks).kind = "open"
    BY <1>1 DEF TakeOpen, Idle
  <2>2. Head(exec[c].tasks) \in Named /\ Tail(exec[c].tasks) \in Seq(Named)
    BY <1>0, <2>1, TaskTaken
  <2>3. Head(exec[c].tasks).id \in Opens
    BY <2>1, <2>2 DEF Named
  <2>4. e \in NamedExec /\ e.id \in Opens
    BY <1>0, <2>2, <2>3 DEF NamedExec
  <2>5. exec' = [exec EXCEPT ![c] = e] /\ ctrl' = [ctrl EXCEPT ![c] = s]
    BY <1>1 DEF TakeOpen
  <2>6. s \in ControllerState /\ s.mListener = ctrl[c].mListener
    BY <1>0 DEF ControllerState
  <2>7. UNCHANGED <<listeners, unseen, posted>>
    BY <1>1 DEF TakeOpen
  <2> HIDE DEF e, s
  <2>8. ExecOK'
    BY <2>4, <2>5, <2>7, ExecChange DEF ExecOK
  <2>9. CtrlOK'
    <3>1. /\ listeners' \in [Controllers -> Nat]
          /\ \A d \in Controllers : listeners'[d] >= listeners[d]
          /\ s.mListener => listeners'[c] >= 1
      BY <2>6, <2>7 DEF CtrlOK
    <3>. QED  BY <2>5, <2>6, <3>1, CtrlChange
  <2>. QED  BY <2>8, <2>9
<1>2. CASE CameraOpenThrows(c)
  <2>1. [exec[c] EXCEPT !.pc = "opened", !.got = None] \in NamedExec
    BY <1>0 DEF NamedExec
  <2>2. exec' = [exec EXCEPT ![c] = [exec[c] EXCEPT !.pc = "opened", !.got = None]]
    BY <1>2 DEF CameraOpenThrows
  <2>3. [exec[c] EXCEPT !.pc = "opened", !.got = None].pc = "opened"
    BY <1>0 DEF NamedExec
  <2>. QED  BY <1>2, <2>1, <2>2, <2>3, ExecChange DEF CameraOpenThrows, ExecOK, CtrlOK
<1>3. CASE StoreCamera(c)
  <2>1. [exec[c] EXCEPT !.pc = "stored"] \in NamedExec
        /\ [exec[c] EXCEPT !.pc = "stored"].pc = "stored"
    BY <1>0 DEF NamedExec
  <2>2. exec' = [exec EXCEPT ![c] = [exec[c] EXCEPT !.pc = "stored"]] /\ posted' \in Seq(Controllers)
    BY <1>3 DEF StoreCamera, ExecOK
  <2>3. unseen' \in [Controllers -> SUBSET Writes]
    BY <1>3 DEF StoreCamera, ExecOK, Writes
  <2>. QED  BY <1>3, <2>1, <2>2, <2>3, ExecChange DEF StoreCamera, CtrlOK
<1>4. CASE SetFlags(c)
  <2>1. [exec[c] EXCEPT !.pc = "idle", !.id = None] \in NamedExec
        /\ [exec[c] EXCEPT !.pc = "idle", !.id = None].pc = "idle"
    BY <1>0 DEF NamedExec
  <2>2. exec' = [exec EXCEPT ![c] = [exec[c] EXCEPT !.pc = "idle", !.id = None]]
        /\ posted' \in Seq(Controllers)
    BY <1>4 DEF SetFlags, ExecOK
  <2>3. unseen' \in [Controllers -> SUBSET Writes]
    BY <1>4 DEF SetFlags, ExecOK, Writes
  <2>. QED  BY <1>4, <2>1, <2>2, <2>3, ExecChange DEF SetFlags, CtrlOK
<1>5. CASE Reveal(c)
  <2>1. ExecOK'
    BY <1>5 DEF Reveal, ExecOK
  <2>2. PICK w \in unseen[c] : ctrl' = [ctrl EXCEPT ![c] =
              CASE w = "mCamera"   -> [ctrl[c] EXCEPT !.mCamera = exec[c].got]
                [] w = "isOpen"    -> [ctrl[c] EXCEPT !.isOpen = TRUE]
                [] w = "isOpening" -> [ctrl[c] EXCEPT !.isOpening = FALSE]]
    BY <1>5 DEF Reveal
  <2> DEFINE s == CASE w = "mCamera"   -> [ctrl[c] EXCEPT !.mCamera = exec[c].got]
                    [] w = "isOpen"    -> [ctrl[c] EXCEPT !.isOpen = TRUE]
                    [] w = "isOpening" -> [ctrl[c] EXCEPT !.isOpening = FALSE]
  <2>3. w \in Writes /\ exec[c].got \in Opens \cup {None}
    BY <1>0 DEF ExecOK, NamedExec
  <2>4. s \in ControllerState /\ s.mListener = ctrl[c].mListener
    <3>1. CASE w = "mCamera"
      BY <1>0, <2>3, <3>1 DEF ControllerState
    <3>2. CASE w = "isOpen"
      BY <1>0, <2>3, <3>2 DEF ControllerState
    <3>3. CASE w = "isOpening"
      BY <1>0, <2>3, <3>3 DEF ControllerState
    <3>. QED  BY <2>3, <3>1, <3>2, <3>3 DEF Writes
  <2>5. ctrl' = [ctrl EXCEPT ![c] = s] /\ UNCHANGED listeners
    BY <1>5, <2>2 DEF Reveal
  <2> HIDE DEF s
  <2>6. /\ listeners' \in [Controllers -> Nat]
        /\ \A d \in Controllers : listeners'[d] >= listeners[d]
        /\ s.mListener => listeners'[c] >= 1
    BY <2>4, <2>5 DEF CtrlOK
  <2>7. CtrlOK'
    BY <2>4, <2>5, <2>6, CtrlChange
  <2>. QED  BY <2>1, <2>7
<1>6. CASE TakePreview(c)
  <2>1. exec[c].tasks # <<>>
    BY <1>6 DEF TakePreview, Idle
  <2>2. Tail(exec[c].tasks) \in Seq(Named)
    BY <1>0, <2>1, TaskTaken
  <2> DEFINE e == [exec[c] EXCEPT !.tasks = Tail(@)]
  <2>3. e \in NamedExec /\ e.pc = exec[c].pc /\ e.id = exec[c].id
    BY <1>0, <2>2 DEF NamedExec
  <2>4. exec' = [exec EXCEPT ![c] = e] /\ unseen' = unseen
    BY <1>6 DEF TakePreview
  <2>5. posted' = posted \/ posted' = Append(posted, c)
    BY <1>6 DEF TakePreview
  <2>6. posted' \in Seq(Controllers)
    BY <2>5, AppendProperties DEF ExecOK
  <2>7. e.pc = "opening" => e.id \in Opens
    BY <2>3 DEF ExecOK
  <2>8. unseen' \in [Controllers -> SUBSET Writes]
    BY <2>4 DEF ExecOK
  <2> HIDE DEF e
  <2>9. ExecOK'
    BY <2>3, <2>4, <2>6, <2>7, <2>8, ExecChange
  <2>. QED  BY <1>6, <2>9 DEF TakePreview, CtrlOK
<1>. QED  BY <1>1, <1>2, <1>3, <1>4, <1>5, <1>6 DEF Executor

(* The call Camera.open answers is one that was made. *)
LEMMA CameraOpensType ==
  ASSUME ExecOK, ServiceOK, NEW c \in Controllers, CameraOpens(c)
  PROVE  ExecOK' /\ camera' \in [Opens -> {"none", "open", "released"}]
<1>1. exec[c] \in NamedExec /\ exec[c].id \in Opens
  BY DEF ExecOK, CameraOpens
<1> DEFINE e == [exec[c] EXCEPT !.pc = "opened", !.got = exec[c].id]
<1>2. e \in NamedExec /\ e.pc = "opened"
  BY <1>1 DEF NamedExec
<1>3. exec' = [exec EXCEPT ![c] = e] /\ UNCHANGED <<unseen, posted>>
  BY DEF CameraOpens
<1> HIDE DEF e
<1>4. ExecOK'
  BY <1>2, <1>3, ExecChange DEF ExecOK
<1>. QED  BY <1>4 DEF CameraOpens, ServiceOK

(* The posted runnable belongs to a controller, which gains a listener. *)
LEMMA RunPostedType ==
  ASSUME CtrlOK, ExecOK, ServiceOK, RunPosted
  PROVE  CtrlOK' /\ ExecOK' /\ ServiceOK'
<1> DEFINE c == Head(posted)
           s == WithListener(ctrl[c])
<1>1. c \in Controllers /\ Tail(posted) \in Seq(Controllers)
  BY HeadTailProperties DEF ExecOK, RunPosted
<1>2. s \in ControllerState
  BY <1>1 DEF CtrlOK, WithListener, ControllerState
<1>3. /\ ctrl' = [ctrl EXCEPT ![c] = s]
      /\ listeners' = [listeners EXCEPT ![c] = @ + 1]
      /\ ShowPreview(s)
  BY DEF RunPosted, AddListener
<1> HIDE DEF c, s
<1>4. listeners' \in [Controllers -> Nat] /\ listeners'[c] >= 1
      /\ \A d \in Controllers : listeners'[d] >= listeners[d] \/ d = c
  BY <1>1, <1>3 DEF CtrlOK
<1>5. CtrlOK'
  BY <1>1, <1>2, <1>3, <1>4, CtrlChange
<1>6. ExecOK'
  BY <1>1 DEF ExecOK, RunPosted
<1>7. previewing' \subseteq Opens /\ crashed' \in BOOLEAN
  BY <1>2, <1>3, ShowPreviewType
<1>. QED  BY <1>5, <1>6, <1>7 DEF ServiceOK, RunPosted

-----------------------------------------------------------------------------
(* Type correctness of the activity, handler by handler. *)
LEMMA TypeInit ==
  ASSUME Init
  PROVE  TypeInv
<1>1. CtrlOK
  BY DEF Init, ControllerInit, CtrlOK, ControllerState, NewController
<1>2. ExecOK
  <2>1. <<>> \in Seq(Named) /\ <<>> \in Seq(Controllers)
    BY EmptySeq
  <2>2. [tasks |-> <<>>, pc |-> "idle", id |-> None, got |-> None] \in NamedExec
    BY <2>1 DEF NamedExec
  <2>3. [tasks |-> <<>>, pc |-> "idle", id |-> None, got |-> None].pc = "idle"
    OBVIOUS
  <2>. QED  BY <2>1, <2>2, <2>3 DEF Init, ControllerInit, ExecOK
<1>3. ServiceOK
  <2>1. opens = 0 /\ 0 \in 0..MaxOpens
    BY BoundsAssumption DEF Init, ControllerInit
  <2>2. asked = [o \in Opens |-> FirstCamera] /\ camera = [o \in Opens |-> "none"]
    BY DEF Init, ControllerInit
  <2>3. asked \in [Opens -> Cameras] /\ camera \in [Opens -> {"none", "open", "released"}]
    BY <2>2, FirstCameraAssumption
  <2>4. toNotify = {} /\ surface = FALSE /\ previewing = {} /\ crashed = FALSE
    BY DEF Init, ControllerInit
  <2>. QED  BY <2>1, <2>3, <2>4 DEF ServiceOK
<1>4. ActivityOK
  BY BoundsAssumption, FirstCameraAssumption DEF Init, ActivityOK, MainState, None
<1>. QED  BY <1>1, <1>2, <1>3, <1>4 DEF TypeInv

(* A new controller stays within the bound and becomes the current one. *)
LEMMA InitCameraType ==
  ASSUME TypeInv, InitCamera, life' \in {"created", "resumed"},
         UNCHANGED <<unseen, posted, listeners, toNotify, surface, camera, previewing,
                     crashed, mCameraId>>
  PROVE  TypeInv'
<1>1. created + 1 \in Controllers /\ created' = created + 1 /\ current' = created + 1
  BY BoundsAssumption DEF TypeInv, ActivityOK, InitCamera, Controllers
<1>2. OpenCamera(created + 1, NewController, mCameraId) /\ mCameraId \in Cameras
  BY DEF InitCamera, TypeInv, ActivityOK
<1>3. NewController \in ControllerState /\ ~NewController.mListener
  BY DEF NewController, ControllerState
<1>4. CtrlOK' /\ ExecOK' /\ opens' \in 0..MaxOpens /\ asked' \in [Opens -> Cameras]
  BY <1>1, <1>2, <1>3, OpenCameraType DEF TypeInv
<1>5. ServiceOK'
  BY <1>4 DEF TypeInv, ServiceOK
<1>6. main' \in MainState
  BY DEF TypeInv, ActivityOK, InitCamera, MainState
<1>7. ActivityOK'
  BY <1>1, <1>6, BoundsAssumption DEF TypeInv, ActivityOK, Controllers
<1>. QED  BY <1>4, <1>5, <1>7 DEF TypeInv

(* closeCamera runs for an activity, whose controller is one. *)
LEMMA CloseCameraType ==
  ASSUME TypeInv, life # "none", NEW then \in {"stop", "switch"}, CloseCamera(then)
  PROVE  CtrlOK' /\ crashed' \in BOOLEAN /\ main' \in MainState
<1>1. current \in Controllers /\ crashed \in BOOLEAN
  BY DEF TypeInv, ActivityOK, ServiceOK
<1>2. CASE BeginClose(current) /\ main' = [pc |-> "release", then |-> then]
  BY <1>1, <1>2, BeginCloseType DEF TypeInv, MainState
<1>3. CASE /\ main' = [pc |-> IF then = "stop" THEN "free" ELSE "open", then |-> then]
           /\ UNCHANGED <<ctrl, listeners, crashed>>
  BY <1>1, <1>3 DEF TypeInv, CtrlOK, MainState
<1>. QED  BY <1>2, <1>3 DEF CloseCamera

(* The handlers of the life cycle and of the button. *)
LEMMA UserType ==
  ASSUME TypeInv, User
  PROVE  TypeInv'
<1>1. CASE OnCreate
  BY <1>1, InitCameraType DEF OnCreate
<1>2. CASE OnResume
  <2>1. CASE InitCamera
    BY <1>2, <2>1, InitCameraType DEF OnResume
  <2>2. CASE UNCHANGED <<created, current, ctrl, exec, opens, asked, main>>
    BY <1>2, <2>2 DEF OnResume, TypeInv, CtrlOK, ExecOK, ServiceOK, ActivityOK
  <2>. QED  BY <1>2, <2>1, <2>2 DEF OnResume
<1>3. CASE OnPause
  BY <1>3 DEF OnPause, TypeInv, CtrlOK, ExecOK, ServiceOK, ActivityOK, cvars
<1>4. CASE OnStop
  <2>1. CtrlOK' /\ crashed' \in BOOLEAN /\ main' \in MainState
    BY <1>4, CloseCameraType DEF OnStop
  <2>. QED  BY <1>4, <2>1 DEF OnStop, TypeInv, ExecOK, ServiceOK, ActivityOK
<1>5. CASE ClickSwitch
  <2>1. CtrlOK' /\ crashed' \in BOOLEAN /\ main' \in MainState
    BY <1>5, CloseCameraType DEF ClickSwitch
  <2>. QED  BY <1>5, <2>1 DEF ClickSwitch, TypeInv, ExecOK, ServiceOK, ActivityOK
<1>. QED  BY <1>1, <1>2, <1>3, <1>4, <1>5 DEF User

(* The main thread's other steps, the executors and the camera service. *)
LEMMA SystemType ==
  ASSUME TypeInv, System
  PROVE  TypeInv'
<1>0. main.pc # "free" => current \in Controllers
  BY DEF TypeInv, ActivityOK
<1>1. CASE Release
  <2>1. /\ CtrlOK' /\ crashed' \in BOOLEAN /\ previewing' \subseteq Opens
        /\ camera' \in [Opens -> {"none", "open", "released"}]
    BY <1>0, <1>1, EndCloseType DEF Release, TypeInv
  <2>2. main' \in MainState /\ life # "none"
    BY <1>1 DEF Release, TypeInv, ActivityOK, MainState
  <2>. QED  BY <1>1, <2>1, <2>2 DEF Release, TypeInv, ExecOK, ServiceOK, ActivityOK
<1>2. CASE SwitchOpens
  <2>1. PICK k \in Cameras : mCameraId' = k /\ OpenCamera(current, ctrl[current], k)
    BY <1>2 DEF SwitchOpens
  <2>2. current \in Controllers
    BY <1>0, <1>2 DEF SwitchOpens
  <2>3. ctrl[current] \in ControllerState /\ (ctrl[current].mListener => listeners[current] >= 1)
    BY <2>2 DEF TypeInv, CtrlOK
  <2>4. CtrlOK' /\ ExecOK' /\ opens' \in 0..MaxOpens /\ asked' \in [Opens -> Cameras]
    BY <1>2, <2>1, <2>2, <2>3, OpenCameraType DEF SwitchOpens, TypeInv
  <2>5. main' \in MainState /\ life # "none"
    BY <1>2 DEF SwitchOpens, TypeInv, ActivityOK, MainState
  <2>. QED  BY <1>2, <2>1, <2>4, <2>5 DEF SwitchOpens, TypeInv, ServiceOK, ActivityOK
<1>3. CASE Preview
  <2>1. CtrlOK' /\ ExecOK'
    BY <1>0, <1>3, StartPreviewType DEF Preview, TypeInv
  <2>2. main' \in MainState
    BY <1>3 DEF Preview, TypeInv, ActivityOK, MainState
  <2>. QED  BY <1>3, <2>1, <2>2 DEF Preview, TypeInv, ServiceOK, ActivityOK
<1>4. CASE RunPosted /\ UNCHANGED avars
  BY <1>4, RunPostedType DEF TypeInv, ActivityOK, avars
<1>5. ASSUME NEW c \in Controllers, Executor(c), UNCHANGED avars PROVE TypeInv'
  <2>1. CtrlOK' /\ ExecOK'
    BY <1>5, ExecutorType DEF TypeInv
  <2>2. UNCHANGED <<toNotify, surface, opens, asked, camera, previewing, crashed>>
    BY <1>5 DEF Executor, TakeOpen, CameraOpenThrows, StoreCamera, SetFlags, Reveal, TakePreview
  <2>. QED  BY <1>5, <2>1, <2>2 DEF TypeInv, ServiceOK, ActivityOK, avars
<1>6. ASSUME NEW c \in Controllers, ServiceOpens(c), UNCHANGED avars PROVE TypeInv'
  <2>1. ExecOK' /\ camera' \in [Opens -> {"none", "open", "released"}]
    BY <1>6, CameraOpensType DEF ServiceOpens, TypeInv
  <2>. QED  BY <1>6, <2>1
            DEF ServiceOpens, CameraOpens, TypeInv, CtrlOK, ServiceOK, ActivityOK, avars
<1>7. ASSUME NEW c \in Controllers, SurfaceChanged(c), UNCHANGED avars PROVE TypeInv'
  <2>1. previewing' \subseteq Opens /\ crashed' \in BOOLEAN
    BY <1>7, ShowPreviewType DEF SurfaceChanged, TypeInv, CtrlOK
  <2>. QED  BY <1>7, <2>1 DEF SurfaceChanged, TypeInv, CtrlOK, ExecOK, ServiceOK, ActivityOK, avars
<1>. QED  BY <1>1, <1>2, <1>3, <1>4, <1>5, <1>6, <1>7 DEF System

(* Every step keeps the types. *)
LEMMA TypeStep ==
  ASSUME TypeInv, [Next]_vars
  PROVE  TypeInv'
<1>1. CASE System
  BY <1>1, SystemType
<1>2. CASE SurfaceAppears
  BY <1>2 DEF SurfaceAppears, TypeInv, CtrlOK, ExecOK, ServiceOK, ActivityOK, avars
<1>3. CASE User
  BY <1>3, UserType
<1>4. CASE UNCHANGED vars
  BY <1>4 DEF vars, cvars, avars, TypeInv, CtrlOK, ExecOK, ServiceOK, ActivityOK
<1>. QED  BY <1>1, <1>2, <1>3, <1>4 DEF Next

(* The types hold in every reachable state. *)
LEMMA TypeInvariant == Spec => []TypeInv
BY TypeInit, TypeStep, PTL DEF Spec

(* The camera fields, the executors and the looper are well typed in every  *)
(* reachable state, whatever fails (Camera1Controller, CameraActivity).     *)
THEOREM TypeCorrect == Spec => []TypeOK
<1>1. ASSUME TypeInv PROVE TypeOK
  <2>1. exec \in [Controllers -> ExecState]
    <3>1. Named \subseteq Task
      BY DEF Named, Task
    <3>2. \A c \in Controllers : exec[c] \in ExecState
      <4> SUFFICES ASSUME NEW c \in Controllers PROVE exec[c] \in ExecState
        OBVIOUS
      <4>1. exec[c] \in NamedExec
        BY <1>1 DEF TypeInv, ExecOK
      <4>2. exec[c].tasks \in Seq(Task)
        <5>1. exec[c].tasks \in Seq(Named)
          BY <4>1 DEF NamedExec
        <5>. QED  BY <3>1, <5>1, SeqMonotonic
      <4>. QED  BY <4>1, <4>2 DEF NamedExec, ExecState
    <3>. QED  BY <1>1, <3>2 DEF TypeInv, ExecOK
  <2>. QED  BY <1>1, <2>1 DEF TypeInv, CtrlOK, ExecOK, ServiceOK, ActivityOK, TypeOK
<1>. QED  BY <1>1, TypeInvariant, PTL

-----------------------------------------------------------------------------
(* Who may still touch which Camera object.                                 *)

(* The calls of openCamera a queue holds; none is there twice. *)
IdsOf(tasks) == {tasks[i].id : i \in 1..Len(tasks)} \ {None}
Distinct(tasks) ==
    \A i, k \in 1..Len(tasks) : tasks[i].id # None /\ tasks[i].id = tasks[k].id => i = k

(* The calls at controller c for which Camera.open has not returned. *)
Waiting(c) ==
    IdsOf(exec[c].tasks) \cup (IF exec[c].pc = "opening" THEN {exec[c].id} ELSE {})

(* got holds a camera that is not yet in the field for the main thread. *)
Fresh(c) == exec[c].pc = "opened" \/ "mCamera" \in unseen[c]

(* The Camera objects controller c may still use or release. *)
Live(c) == ({ctrl[c].mCamera} \cup (IF Fresh(c) THEN {exec[c].got} ELSE {})) \ {None}

(* No call is in the queue twice, or in the queue and at work; the field    *)
(* never names the camera that is still to be stored in it.                 *)
LocalOK(c) ==
    /\ Distinct(exec[c].tasks)
    /\ exec[c].pc = "opening" => exec[c].id \notin IdsOf(exec[c].tasks)
    /\ Fresh(c) /\ exec[c].got # None => exec[c].got # ctrl[c].mCamera
    /\ "mCamera" \in unseen[c] => exec[c].pc # "opened"

(* A call that waits has been made, has no camera yet and waits at one      *)
(* controller only; a call not made has no camera either.                   *)
WaitingOK ==
    /\ \A c \in Controllers : \A o \in Waiting(c) :
         /\ o \in 1..opens /\ camera[o] = "none"
         /\ \A d \in Controllers \ {c} : o \notin Waiting(d)
    /\ \A o \in Opens : o > opens => camera[o] = "none"

(* A live camera is open, and of one controller only. *)
LiveOK ==
    \A c \in Controllers : \A o \in Live(c) :
      /\ camera[o] = "open"
      /\ \A d \in Controllers \ {c} : o \notin Live(d)

OwnerInv == (\A c \in Controllers : LocalOK(c)) /\ WaitingOK /\ LiveOK

(* Appending a call that is not there adds it, once. *)
LEMMA AppendedIds ==
  ASSUME NEW tasks \in Seq(Named), NEW t \in Named
  PROVE  /\ IdsOf(Append(tasks, t)) = IdsOf(tasks) \cup ({t.id} \ {None})
         /\ Distinct(tasks) /\ t.id \notin IdsOf(tasks) => Distinct(Append(tasks, t))
<1> DEFINE more == Append(tasks, t)
<1>1. /\ Len(tasks) \in Nat /\ Len(more) = Len(tasks) + 1
      /\ \A i \in 1..Len(tasks) : more[i] = tasks[i]
      /\ more[Len(tasks) + 1] = t
  BY AppendProperties, LenProperties
<1> HIDE DEF more
<1>2. IdsOf(more) = IdsOf(tasks) \cup ({t.id} \ {None})
  <2>1. \A i \in 1..Len(more) : i \in 1..Len(tasks) \/ i = Len(tasks) + 1
    BY <1>1
  <2>2. \A i \in 1..Len(tasks) : i \in 1..Len(more)
    BY <1>1
  <2>3. Len(tasks) + 1 \in 1..Len(more)
    BY <1>1
  <2>. QED  BY <1>1, <2>1, <2>2, <2>3 DEF IdsOf
<1>3. ASSUME Distinct(tasks), t.id \notin IdsOf(tasks) PROVE Distinct(more)
  <2> SUFFICES ASSUME NEW i \in 1..Len(more), NEW k \in 1..Len(more),
                      more[i].id # None, more[i].id = more[k].id
               PROVE  i = k
    BY DEF Distinct
  <2>1. \A m \in 1..Len(tasks) : tasks[m].id # None => tasks[m].id # t.id
    BY <1>3 DEF IdsOf
  <2>2. (i \in 1..Len(tasks) \/ i = Len(tasks) + 1) /\ (k \in 1..Len(tasks) \/ k = Len(tasks) + 1)
    BY <1>1
  <2>. QED  BY <1>1, <1>3, <2>1, <2>2 DEF Distinct
<1>. QED  BY <1>2, <1>3 DEF more

(* The call taken off is in the queue no more. *)
LEMMA TakenIds ==
  ASSUME NEW tasks \in Seq(Named), tasks # <<>>, Distinct(tasks)
  PROVE  /\ IdsOf(Tail(tasks)) \subseteq IdsOf(tasks)
         /\ Head(tasks).id # None => /\ Head(tasks).id \in IdsOf(tasks)
                                     /\ Head(tasks).id \notin IdsOf(Tail(tasks))
         /\ Distinct(Tail(tasks))
<1> DEFINE rest == Tail(tasks)
<1>1. /\ Len(tasks) \in Nat /\ 1 \in 1..Len(tasks) /\ Head(tasks) = tasks[1]
      /\ Len(rest) = Len(tasks) - 1
      /\ \A i \in 1..Len(rest) : rest[i] = tasks[i + 1]
  BY HeadTailProperties, LenProperties, EmptySeq
<1> HIDE DEF rest
<1>2. \A i \in 1..Len(rest) : i \in Nat /\ i + 1 \in 1..Len(tasks) /\ i + 1 # 1
  BY <1>1
<1>3. IdsOf(rest) \subseteq IdsOf(tasks)
  BY <1>1, <1>2 DEF IdsOf
<1>4. Head(tasks).id # None => Head(tasks).id \in IdsOf(tasks)
  BY <1>1 DEF IdsOf
<1>5. ASSUME Head(tasks).id # None, Head(tasks).id \in IdsOf(rest) PROVE FALSE
  <2>1. PICK i \in 1..Len(rest) : rest[i].id = tasks[1].id
    BY <1>1, <1>5 DEF IdsOf
  <2>2. tasks[i + 1].id = tasks[1].id /\ tasks[1].id # None /\ i + 1 \in 1..Len(tasks) /\ i + 1 # 1
    BY <1>1, <1>2, <1>5, <2>1
  <2>. QED  BY <1>1, <2>2 DEF Distinct
<1>6. Distinct(rest)
  <2> SUFFICES ASSUME NEW i \in 1..Len(rest), NEW k \in 1..Len(rest),
                      rest[i].id # None, rest[i].id = rest[k].id
               PROVE  i = k
    BY DEF Distinct
  <2>1. i + 1 = k + 1
    BY <1>1, <1>2 DEF Distinct
  <2>. QED  BY <1>2, <2>1
<1>. QED  BY <1>3, <1>4, <1>5, <1>6 DEF rest

-----------------------------------------------------------------------------
(* What the other controllers have is as it was. *)
OthersSame(c) ==
    \A d \in Controllers \ {c} :
      exec'[d] = exec[d] /\ ctrl'[d].mCamera = ctrl[d].mCamera /\ unseen'[d] = unseen[d]

(* A controller nothing is changed of has what it had. *)
LEMMA SameAt ==
  ASSUME NEW d \in Controllers, exec'[d] = exec[d], ctrl'[d].mCamera = ctrl[d].mCamera,
         unseen'[d] = unseen[d]
  PROVE  Waiting(d)' = Waiting(d) /\ Live(d)' = Live(d) /\ LocalOK(d)' = LocalOK(d)
BY DEF Waiting, Live, Fresh, LocalOK

(* A controller that gives up calls or cameras, or keeps what it has. *)
LEMMA NothingNew ==
  ASSUME OwnerInv, NEW c \in Controllers, OthersSame(c), UNCHANGED <<camera, opens>>,
         LocalOK(c)', Waiting(c)' \subseteq Waiting(c), Live(c)' \subseteq Live(c)
  PROVE  OwnerInv'
<1>1. \A d \in Controllers \ {c} :
        Waiting(d)' = Waiting(d) /\ Live(d)' = Live(d) /\ LocalOK(d)' = LocalOK(d)
  BY SameAt DEF OthersSame
<1>2. \A d \in Controllers : /\ Waiting(d)' \subseteq Waiting(d) /\ Live(d)' \subseteq Live(d)
                             /\ LocalOK(d)'
  BY <1>1 DEF OwnerInv
<1>3. WaitingOK'
  BY <1>2 DEF OwnerInv, WaitingOK
<1>4. LiveOK'
  BY <1>2 DEF OwnerInv, LiveOK
<1>. QED  BY <1>2, <1>3, <1>4 DEF OwnerInv

(* A step after which every controller has what it had. *)
LEMMA NothingMoves ==
  ASSUME OwnerInv, UNCHANGED <<camera, opens, exec, unseen>>,
         \A d \in Controllers : ctrl'[d].mCamera = ctrl[d].mCamera
  PROVE  OwnerInv'
<1>1. \A d \in Controllers :
        Waiting(d)' = Waiting(d) /\ Live(d)' = Live(d) /\ LocalOK(d)' = LocalOK(d)
  BY SameAt
<1>. QED  BY <1>1 DEF OwnerInv, WaitingOK, LiveOK

(* What a controller has are calls of openCamera. *)
LEMMA OwnedCalls ==
  ASSUME TypeInv, OwnerInv
  PROVE  \A d \in Controllers : Waiting(d) \subseteq Opens /\ Live(d) \subseteq Opens
<1> SUFFICES ASSUME NEW d \in Controllers
             PROVE  Waiting(d) \subseteq Opens /\ Live(d) \subseteq Opens
  OBVIOUS
<1>1. 1..opens \subseteq Opens
  BY BoundsAssumption DEF TypeInv, ServiceOK, Opens
<1>2. exec[d].got \in Opens \cup {None} /\ ctrl[d].mCamera \in Opens \cup {None}
  BY DEF TypeInv, CtrlOK, ExecOK, NamedExec, ControllerState
<1>3. Waiting(d) \subseteq Opens
  BY <1>1 DEF OwnerInv, WaitingOK
<1>4. Live(d) \subseteq Opens
  BY <1>2 DEF Live
<1>. QED  BY <1>3, <1>4

(* openCamera adds a call that no controller had, and no camera. *)
LEMMA OpenCameraOwner ==
  ASSUME TypeInv, OwnerInv, NEW c \in Controllers, NEW s \in ControllerState,
         NEW k \in Cameras, s.mCamera \in {ctrl[c].mCamera, None},
         OpenCamera(c, s, k), UNCHANGED <<unseen, camera>>
  PROVE  OwnerInv'
<1> DEFINE o == opens + 1
           t == [kind |-> "open", id |-> o]
<1>1. o \in Opens /\ opens \in Nat /\ opens' = o /\ o # None
  BY BoundsAssumption DEF TypeInv, ServiceOK, OpenCamera, Opens, None
<1>2. exec[c] \in NamedExec /\ ctrl[c] \in ControllerState
  BY DEF TypeInv, ExecOK, CtrlOK
<1>3. exec[c].tasks \in Seq(Named) /\ t \in Named
  BY <1>1, <1>2 DEF NamedExec, Named
<1>4. \A d \in Controllers : o \notin Waiting(d)
  BY <1>1 DEF OwnerInv, WaitingOK
<1>5. camera[o] = "none" /\ \A d \in Controllers : o \notin Live(d)
  BY <1>1 DEF OwnerInv, WaitingOK, LiveOK
<1>6. /\ exec'[c] = [exec[c] EXCEPT !.tasks = Append(@, t)]
      /\ ctrl'[c] = [s EXCEPT !.isOpening = TRUE]
      /\ OthersSame(c)
  BY DEF OpenCamera, Submit, OthersSame, TypeInv, ExecOK, CtrlOK
<1>7. /\ exec'[c].tasks = Append(exec[c].tasks, t) /\ exec'[c].pc = exec[c].pc
      /\ exec'[c].id = exec[c].id /\ exec'[c].got = exec[c].got
      /\ ctrl'[c].mCamera = s.mCamera
  BY <1>2, <1>6 DEF NamedExec, ControllerState
<1>8. /\ IdsOf(exec'[c].tasks) = IdsOf(exec[c].tasks) \cup {o}
      /\ Distinct(exec'[c].tasks)
  <2>1. o \notin IdsOf(exec[c].tasks) /\ Distinct(exec[c].tasks)
    BY <1>4 DEF Waiting, OwnerInv, LocalOK
  <2>. QED  BY <1>1, <1>3, <1>7, <2>1, AppendedIds
<1>9. Waiting(c)' = Waiting(c) \cup {o} /\ Live(c)' \subseteq Live(c)
  BY <1>7, <1>8 DEF Waiting, Live, Fresh
<1>10. LocalOK(c)'
  <2>1. exec'[c].pc = "opening" => exec'[c].id \notin IdsOf(exec'[c].tasks)
    BY <1>4, <1>7, <1>8 DEF OwnerInv, LocalOK, Waiting
  <2>2. Fresh(c)' /\ exec'[c].got # None => exec'[c].got # ctrl'[c].mCamera
    BY <1>7 DEF OwnerInv, LocalOK, Fresh
  <2>. QED  BY <1>7, <1>8, <2>1, <2>2 DEF OwnerInv, LocalOK
<1>11. \A d \in Controllers \ {c} :
        Waiting(d)' = Waiting(d) /\ Live(d)' = Live(d) /\ LocalOK(d)' = LocalOK(d)
  BY <1>6, SameAt DEF OthersSame
<1>12. \A d \in Controllers : LocalOK(d)' /\ Live(d)' \subseteq Live(d)
  BY <1>9, <1>10, <1>11 DEF OwnerInv
<1>13. LiveOK'
  BY <1>12 DEF OwnerInv, LiveOK
<1>14. WaitingOK'
  <2>1. \A p \in 1..opens : p \in 1..opens'
    BY <1>1
  <2>2. \A p \in Opens : p > opens' => p > opens
    BY <1>1 DEF Opens
  <2>3. ASSUME NEW d \in Controllers, NEW p \in Waiting(d)'
        PROVE  /\ p \in 1..opens' /\ camera'[p] = "none"
               /\ \A e \in Controllers \ {d} : p \notin Waiting(e)'
    <3>1. CASE p = o
      <4>1. d = c
        BY <1>4, <1>11, <2>3, <3>1
      <4>. QED  BY <1>1, <1>4, <1>5, <1>11, <3>1, <4>1
    <3>2. CASE p # o
      <4>1. p \in Waiting(d)
        BY <1>9, <1>11, <2>3, <3>2
      <4>2. \A e \in Controllers \ {d} : p \notin Waiting(e)'
        BY <1>9, <1>11, <3>2, <4>1 DEF OwnerInv, WaitingOK
      <4>. QED  BY <2>1, <4>1, <4>2 DEF OwnerInv, WaitingOK
    <3>. QED  BY <3>1, <3>2
  <2>. QED  BY <2>2, <2>3 DEF OwnerInv, WaitingOK
<1>. QED  BY <1>12, <1>13, <1>14 DEF OwnerInv

(* Camera.open moves a call from those that wait to the live cameras. *)
LEMMA CameraOpensOwner ==
  ASSUME TypeInv, OwnerInv, NEW c \in Controllers, CameraOpens(c)
  PROVE  OwnerInv'
<1> DEFINE o == exec[c].id
<1>1. exec[c] \in NamedExec /\ o \in Opens /\ o # None
  BY DEF TypeInv, ExecOK, CameraOpens, Opens, None
<1>2. /\ o \in Waiting(c) /\ o \in 1..opens /\ camera[o] = "none"
      /\ \A d \in Controllers \ {c} : o \notin Waiting(d)
  BY DEF OwnerInv, WaitingOK, Waiting, CameraOpens
<1>3. \A d \in Controllers : o \notin Live(d)
  BY <1>2 DEF OwnerInv, LiveOK
<1>4. exec'[c] = [exec[c] EXCEPT !.pc = "opened", !.got = o] /\ OthersSame(c)
      /\ ctrl' = ctrl /\ unseen'[c] = {} /\ opens' = opens
  BY DEF CameraOpens, TypeInv, ExecOK, OthersSame
<1>5. exec'[c].tasks = exec[c].tasks /\ exec'[c].pc = "opened" /\ exec'[c].got = o
  BY <1>1, <1>4 DEF NamedExec
<1>6. \A p \in Opens : camera'[p] = IF p = o THEN "open" ELSE camera[p]
  BY <1>1 DEF CameraOpens, TypeInv, ServiceOK
<1>7. Waiting(c)' = Waiting(c) \ {o}
  BY <1>5 DEF Waiting, OwnerInv, LocalOK, CameraOpens
<1>8. Live(c)' = Live(c) \cup {o}
  BY <1>1, <1>4, <1>5 DEF Live, Fresh, CameraOpens
<1>9. LocalOK(c)'
  <2>1. ctrl[c].mCamera # o
    BY <1>1, <1>3 DEF Live
  <2>. QED  BY <1>4, <1>5, <2>1 DEF OwnerInv, LocalOK
<1>10. \A d \in Controllers \ {c} :
        Waiting(d)' = Waiting(d) /\ Live(d)' = Live(d) /\ LocalOK(d)' = LocalOK(d)
  BY <1>4, SameAt DEF OthersSame
<1>11. \A d \in Controllers : Waiting(d) \subseteq Opens /\ Live(d) \subseteq Opens
  BY OwnedCalls
<1>12. WaitingOK'
  <2>1. ASSUME NEW d \in Controllers, NEW p \in Waiting(d)'
        PROVE  /\ p \in 1..opens' /\ camera'[p] = "none"
               /\ \A e \in Controllers \ {d} : p \notin Waiting(e)'
    <3>1. p \in Waiting(d) /\ p # o
      BY <1>2, <1>7, <1>10, <2>1
    <3>2. p \in Opens
      BY <1>11, <3>1
    <3>3. \A e \in Controllers \ {d} : p \notin Waiting(e)'
      BY <1>7, <1>10, <3>1 DEF OwnerInv, WaitingOK
    <3>. QED  BY <1>4, <1>6, <3>1, <3>2, <3>3 DEF OwnerInv, WaitingOK
  <2>2. \A p \in Opens : p > opens' => camera'[p] = "none"
    <3>1. opens \in Nat /\ ~(o > opens)
      BY <1>2 DEF TypeInv, ServiceOK
    <3>. QED  BY <1>4, <1>6, <3>1 DEF OwnerInv, WaitingOK
  <2>. QED  BY <2>1, <2>2 DEF WaitingOK
<1>13. LiveOK'
  <2>1. ASSUME NEW d \in Controllers, NEW p \in Live(d)'
        PROVE  camera'[p] = "open" /\ \A e \in Controllers \ {d} : p \notin Live(e)'
    <3>1. CASE p = o
      <4>1. d = c
        BY <1>3, <1>10, <2>1, <3>1
      <4>. QED  BY <1>1, <1>3, <1>6, <1>10, <3>1, <4>1
    <3>2. CASE p # o
      <4>1. p \in Live(d)
        BY <1>8, <1>10, <2>1, <3>2
      <4>2. p \in Opens
        BY <1>11, <4>1
      <4>3. \A e \in Controllers \ {d} : p \notin Live(e)'
        BY <1>8, <1>10, <3>2, <4>1 DEF OwnerInv, LiveOK
      <4>. QED  BY <1>6, <3>2, <4>1, <4>2, <4>3 DEF OwnerInv, LiveOK
    <3>. QED  BY <3>1, <3>2
  <2>. QED  BY <2>1 DEF LiveOK
<1>. QED  BY <1>9, <1>10, <1>12, <1>13 DEF OwnerInv

(* closeCamera ends the life of the camera it releases: nobody else had it. *)
LEMMA EndCloseOwner ==
  ASSUME TypeInv, OwnerInv, NEW c \in Controllers, EndClose(c), UNCHANGED <<exec, unseen, opens>>
  PROVE  OwnerInv'
<1>1. CASE ctrl[c].mCamera = None
  <2>1. UNCHANGED <<camera, ctrl>>
    BY <1>1 DEF EndClose
  <2>. QED  BY <2>1, NothingMoves
<1>2. CASE ctrl[c].mCamera # None
  <2> DEFINE o == ctrl[c].mCamera
  <2>1. ctrl[c] \in ControllerState /\ o \in Opens
    BY <1>2 DEF TypeInv, CtrlOK, ControllerState
  <2>2. o \in Live(c) /\ camera[o] = "open" /\ \A d \in Controllers \ {c} : o \notin Live(d)
    BY <1>2 DEF Live, OwnerInv, LiveOK
  <2>3. \A d \in Controllers : o \notin Waiting(d)
    BY <2>2 DEF OwnerInv, WaitingOK
  <2>4. ctrl' = [ctrl EXCEPT ![c] = [ctrl[c] EXCEPT !.mCamera = None, !.mSurfaceView = FALSE]]
        /\ camera' = [camera EXCEPT ![o] = "released"]
    BY <1>2 DEF EndClose
  <2>5. ctrl'[c].mCamera = None
    BY <2>1, <2>4 DEF TypeInv, CtrlOK, ControllerState
  <2>6. \A p \in Opens : p # o => camera'[p] = camera[p]
    BY <2>4 DEF TypeInv, ServiceOK
  <2>7. camera'[o] # "none"
    BY <2>1, <2>4 DEF TypeInv, ServiceOK
  <2>8. OthersSame(c)
    BY <2>4 DEF OthersSame, TypeInv, CtrlOK
  <2>9. Waiting(c)' = Waiting(c) /\ Live(c)' \subseteq Live(c) \ {o} /\ LocalOK(c)'
    <3>1. Waiting(c)' = Waiting(c)
      BY DEF Waiting
    <3>2. Live(c)' \subseteq Live(c) \ {o}
      BY <1>2, <2>5 DEF Live, Fresh, OwnerInv, LocalOK
    <3>3. LocalOK(c)'
      BY <2>5 DEF OwnerInv, LocalOK, Fresh
    <3>. QED  BY <3>1, <3>2, <3>3
  <2>10. \A d \in Controllers \ {c} :
           Waiting(d)' = Waiting(d) /\ Live(d)' = Live(d) /\ LocalOK(d)' = LocalOK(d)
    BY <2>8, SameAt DEF OthersSame
  <2>11. \A d \in Controllers : /\ Waiting(d)' = Waiting(d) /\ LocalOK(d)'
                                /\ Live(d)' \subseteq Live(d) /\ o \notin Live(d)'
    BY <2>2, <2>9, <2>10 DEF OwnerInv
  <2>12. \A d \in Controllers : Waiting(d) \subseteq Opens /\ Live(d) \subseteq Opens
    BY OwnedCalls
  <2>13. WaitingOK'
    <3>1. \A p \in Opens : p > opens => camera'[p] = "none"
      <4> SUFFICES ASSUME NEW p \in Opens, p > opens PROVE camera'[p] = "none"
        OBVIOUS
      <4>1. camera[p] = "none"
        BY DEF OwnerInv, WaitingOK
      <4>. QED  BY <2>2, <2>6, <4>1
    <3>2. \A d \in Controllers : \A p \in Waiting(d) : camera'[p] = "none"
      BY <2>3, <2>6, <2>12 DEF OwnerInv, WaitingOK
    <3>. QED  BY <2>11, <3>1, <3>2 DEF OwnerInv, WaitingOK
  <2>14. LiveOK'
    <3>1. \A d \in Controllers : \A p \in Live(d) : p # o => camera'[p] = "open"
      BY <2>6, <2>12 DEF OwnerInv, LiveOK
    <3>. QED  BY <2>11, <3>1 DEF OwnerInv, LiveOK
  <2>. QED  BY <2>11, <2>13, <2>14 DEF OwnerInv
<1>. QED  BY <1>1, <1>2

(* The executor's own steps: a call is taken up or fails, a camera moves on *)
(* from got to the field.                                                   *)
LEMMA ExecutorOwner ==
  ASSUME TypeInv, OwnerInv, NEW c \in Controllers, Executor(c)
  PROVE  OwnerInv'
<1>1. /\ exec[c] \in NamedExec /\ exec[c].tasks \in Seq(Named) /\ ctrl[c] \in ControllerState
      /\ unseen[c] \in SUBSET Writes
  BY DEF TypeInv, ExecOK, CtrlOK, NamedExec
<1>2. LocalOK(c) /\ Distinct(exec[c].tasks)
  BY DEF OwnerInv, LocalOK
<1>3. CASE TakeOpen(c)
  <2>1. exec[c].tasks # <<>> /\ exec[c].pc = "idle" /\ Head(exec[c].tasks).kind = "open"
    BY <1>3 DEF TakeOpen, Idle
  <2>2. Head(exec[c].tasks) \in Named
    BY <1>1, <2>1, TaskTaken
  <2>3. Head(exec[c].tasks).id # None
    BY <2>1, <2>2 DEF Named, Opens, None
  <2>4. /\ exec'[c].tasks = Tail(exec[c].tasks) /\ exec'[c].pc = "opening"
        /\ exec'[c].id = Head(exec[c].tasks).id /\ exec'[c].got = exec[c].got
        /\ ctrl'[c].mCamera = ctrl[c].mCamera
    BY <1>1, <1>3 DEF TakeOpen, NamedExec, ControllerState, TypeInv, ExecOK, CtrlOK
  <2>5. OthersSame(c) /\ UNCHANGED <<camera, opens, unseen>>
    BY <1>3 DEF TakeOpen, OthersSame, TypeInv, ExecOK, CtrlOK
  <2>6. Waiting(c)' \subseteq Waiting(c)
    BY <1>1, <1>2, <2>1, <2>3, <2>4, TakenIds DEF Waiting
  <2>7. Live(c)' = Live(c)
    BY <2>1, <2>4, <2>5 DEF Live, Fresh
  <2>8. LocalOK(c)'
    <3>1. Distinct(exec'[c].tasks) /\ exec'[c].id \notin IdsOf(exec'[c].tasks)
      BY <1>1, <1>2, <2>1, <2>3, <2>4, TakenIds
    <3>2. Fresh(c)' = Fresh(c)
      BY <2>1, <2>4, <2>5 DEF Fresh
    <3>. QED  BY <1>2, <2>4, <3>1, <3>2 DEF LocalOK
  <2>. QED  BY <2>5, <2>6, <2>7, <2>8, NothingNew
<1>4. CASE CameraOpenThrows(c)
  <2>1. /\ exec'[c].tasks = exec[c].tasks /\ exec'[c].pc = "opened" /\ exec'[c].got = None
        /\ ctrl' = ctrl /\ unseen'[c] = {}
    BY <1>1, <1>4 DEF CameraOpenThrows, NamedExec, TypeInv, ExecOK
  <2>2. OthersSame(c) /\ UNCHANGED <<camera, opens>>
    BY <1>4 DEF CameraOpenThrows, OthersSame, TypeInv, ExecOK
  <2>3. Waiting(c)' \subseteq Waiting(c) /\ Live(c)' \subseteq Live(c) /\ LocalOK(c)'
    BY <1>2, <2>1 DEF Waiting, Live, LocalOK
  <2>. QED  BY <2>2, <2>3, NothingNew
<1>5. CASE StoreCamera(c)
  <2>1. /\ exec'[c].tasks = exec[c].tasks /\ exec'[c].pc = "stored" /\ exec[c].pc = "opened"
        /\ exec'[c].got = exec[c].got /\ ctrl' = ctrl /\ "mCamera" \in unseen'[c]
    BY <1>1, <1>5 DEF StoreCamera, NamedExec, TypeInv, ExecOK
  <2>2. OthersSame(c) /\ UNCHANGED <<camera, opens>>
    BY <1>5 DEF StoreCamera, OthersSame, TypeInv, ExecOK
  <2>3. Fresh(c) /\ Fresh(c)'
    BY <2>1 DEF Fresh
  <2>4. Waiting(c)' \subseteq Waiting(c)
    BY <2>1 DEF Waiting
  <2>5. Live(c)' \subseteq Live(c)
    BY <2>1, <2>3 DEF Live
  <2>6. LocalOK(c)'
    BY <1>2, <2>1, <2>3 DEF LocalOK
  <2>. QED  BY <2>2, <2>4, <2>5, <2>6, NothingNew
<1>6. CASE SetFlags(c)
  <2>1. /\ exec'[c].tasks = exec[c].tasks /\ exec'[c].pc = "idle" /\ exec[c].pc = "stored"
        /\ exec'[c].got = exec[c].got /\ ctrl' = ctrl
    BY <1>1, <1>6 DEF SetFlags, NamedExec, TypeInv, ExecOK
  <2>2. "mCamera" \in unseen'[c] <=> "mCamera" \in unseen[c]
    BY <1>6 DEF SetFlags, TypeInv, ExecOK
  <2>3. OthersSame(c) /\ UNCHANGED <<camera, opens>>
    BY <1>6 DEF SetFlags, OthersSame, TypeInv, ExecOK
  <2>4. Fresh(c)' = Fresh(c)
    BY <2>1, <2>2 DEF Fresh
  <2>5. Waiting(c)' \subseteq Waiting(c) /\ Live(c)' \subseteq Live(c)
    BY <2>1, <2>4 DEF Waiting, Live
  <2>6. LocalOK(c)'
    BY <1>2, <2>1, <2>4 DEF LocalOK
  <2>. QED  BY <2>3, <2>5, <2>6, NothingNew
<1>7. CASE Reveal(c)
  <2>1. PICK w \in unseen[c] : /\ unseen' = [unseen EXCEPT ![c] = @ \ {w}]
                              /\ ctrl' = [ctrl EXCEPT ![c] =
              CASE w = "mCamera"   -> [ctrl[c] EXCEPT !.mCamera = exec[c].got]
                [] w = "isOpen"    -> [ctrl[c] EXCEPT !.isOpen = TRUE]
                [] w = "isOpening" -> [ctrl[c] EXCEPT !.isOpening = FALSE]]
    BY <1>7 DEF Reveal
  <2>2. OthersSame(c) /\ UNCHANGED <<camera, opens, exec>>
    BY <1>7, <2>1 DEF Reveal, OthersSame, TypeInv, ExecOK, CtrlOK
  <2>3. Waiting(c)' \subseteq Waiting(c)
    BY <2>2 DEF Waiting
  <2>4. unseen'[c] = unseen[c] \ {w}
    BY <2>1 DEF TypeInv, ExecOK
  <2>5. CASE w = "mCamera"
    <3>1. ctrl'[c].mCamera = exec[c].got
      BY <1>1, <2>1, <2>5 DEF TypeInv, CtrlOK, ControllerState
    <3>2. Fresh(c) /\ ~Fresh(c)'
      BY <1>2, <2>1, <2>2, <2>4, <2>5 DEF Fresh, LocalOK
    <3>3. Live(c)' \subseteq Live(c)
      BY <3>1, <3>2 DEF Live
    <3>4. LocalOK(c)'
      BY <1>2, <2>2, <2>4, <3>2 DEF LocalOK
    <3>. QED  BY <2>2, <2>3, <3>3, <3>4, NothingNew
  <2>6. CASE w # "mCamera"
    <3>1. w \in {"isOpen", "isOpening"}
      BY <1>1, <2>6 DEF Writes
    <3>2. ctrl'[c].mCamera = ctrl[c].mCamera
      <4>1. CASE w = "isOpen"
        BY <1>1, <2>1, <4>1 DEF TypeInv, CtrlOK, ControllerState
      <4>2. CASE w = "isOpening"
        BY <1>1, <2>1, <4>2 DEF TypeInv, CtrlOK, ControllerState
      <4>. QED  BY <3>1, <4>1, <4>2
    <3>3. Fresh(c)' = Fresh(c)
      BY <2>2, <2>4, <2>6 DEF Fresh
    <3>4. Live(c)' \subseteq Live(c)
      BY <2>2, <3>2, <3>3 DEF Live
    <3>5. LocalOK(c)'
      BY <1>2, <2>2, <2>4, <3>2, <3>3 DEF LocalOK
    <3>. QED  BY <2>2, <2>3, <3>4, <3>5, NothingNew
  <2>. QED  BY <2>5, <2>6
<1>8. CASE TakePreview(c)
  <2>1. exec[c].tasks # <<>> /\ exec[c].pc = "idle"
    BY <1>8 DEF TakePreview, Idle
  <2>2. /\ exec'[c].tasks = Tail(exec[c].tasks) /\ exec'[c].pc = "idle"
        /\ exec'[c].got = exec[c].got
    BY <1>1, <1>8, <2>1 DEF TakePreview, NamedExec, TypeInv, ExecOK
  <2>3. OthersSame(c) /\ UNCHANGED <<camera, opens, unseen, ctrl>>
    BY <1>8 DEF TakePreview, OthersSame, TypeInv, ExecOK
  <2>4. Waiting(c)' \subseteq Waiting(c)
    BY <1>1, <1>2, <2>1, <2>2, TakenIds DEF Waiting
  <2>5. Fresh(c)' = Fresh(c)
    BY <2>1, <2>2, <2>3 DEF Fresh
  <2>6. Live(c)' \subseteq Live(c)
    BY <2>2, <2>3, <2>5 DEF Live
  <2>7. Distinct(exec'[c].tasks)
    BY <1>1, <1>2, <2>1, <2>2, TakenIds
  <2>8. LocalOK(c)'
    BY <1>2, <2>2, <2>3, <2>5, <2>7 DEF LocalOK
  <2>. QED  BY <2>3, <2>4, <2>6, <2>8, NothingNew
<1>. QED  BY <1>3, <1>4, <1>5, <1>6, <1>7, <1>8 DEF Executor

(* startPreview, closeCamera's first half and the posted runnable leave     *)
(* every camera where it is.                                                *)
LEMMA StartPreviewOwner ==
  ASSUME TypeInv, OwnerInv, NEW c \in Controllers, StartPreview(c),
         UNCHANGED <<unseen, camera, opens>>
  PROVE  OwnerInv'
<1>1. /\ exec[c] \in NamedExec /\ exec[c].tasks \in Seq(Named) /\ ctrl[c] \in ControllerState
  BY DEF TypeInv, ExecOK, CtrlOK, NamedExec
<1>2. CASE ctrl[c].mCamera # None
  <2>1. ctrl' = [ctrl EXCEPT ![c] = WithListener(ctrl[c])] /\ UNCHANGED exec
    BY <1>2 DEF StartPreview
  <2>2. WithListener(ctrl[c]).mCamera = ctrl[c].mCamera
    BY <1>1 DEF WithListener, ControllerState
  <2>3. \A d \in Controllers : ctrl'[d].mCamera = ctrl[d].mCamera
    BY <2>1, <2>2 DEF TypeInv, CtrlOK
  <2>. QED  BY <2>1, <2>3, NothingMoves
<1>3. CASE ctrl[c].mCamera = None
  <2> DEFINE t == [kind |-> "preview", id |-> None]
  <2>1. t \in Named
    BY DEF Named
  <2>2. /\ exec'[c].tasks = Append(exec[c].tasks, t) /\ exec'[c].pc = exec[c].pc
        /\ exec'[c].id = exec[c].id /\ exec'[c].got = exec[c].got
        /\ ctrl' = ctrl /\ OthersSame(c)
    BY <1>1, <1>3 DEF StartPreview, Submit, NamedExec, OthersSame, TypeInv, ExecOK
  <2>3. None \notin IdsOf(exec[c].tasks)
    BY DEF IdsOf
  <2>4. IdsOf(exec'[c].tasks) = IdsOf(exec[c].tasks) /\ Distinct(exec'[c].tasks)
    BY <1>1, <2>1, <2>2, <2>3, AppendedIds DEF OwnerInv, LocalOK
  <2>5. Waiting(c)' \subseteq Waiting(c) /\ Live(c)' \subseteq Live(c)
    BY <2>2, <2>4 DEF Waiting, Live, Fresh
  <2>6. LocalOK(c)'
    BY <2>2, <2>4 DEF OwnerInv, LocalOK, Fresh
  <2>. QED  BY <2>2, <2>5, <2>6, NothingNew
<1>. QED  BY <1>2, <1>3

(* The same for closeCamera until the release. *)
LEMMA CloseCameraOwner ==
  ASSUME TypeInv, OwnerInv, life # "none", NEW then \in {"stop", "switch"}, CloseCamera(then),
         UNCHANGED <<exec, unseen, camera, opens>>
  PROVE  OwnerInv'
<1>1. current \in Controllers
  BY DEF TypeInv, ActivityOK
<1>2. ctrl[current] \in ControllerState
  BY <1>1 DEF TypeInv, CtrlOK
<1>3. \/ UNCHANGED ctrl
      \/ ctrl' = [ctrl EXCEPT ![current] = [ctrl[current] EXCEPT !.mListener = FALSE,
                                              !.mClose = TRUE, !.isOpen = FALSE]]
  BY DEF CloseCamera, BeginClose
<1>4. \A d \in Controllers : ctrl'[d].mCamera = ctrl[d].mCamera
  <2> DEFINE s == [ctrl[current] EXCEPT !.mListener = FALSE, !.mClose = TRUE, !.isOpen = FALSE]
  <2>1. s.mCamera = ctrl[current].mCamera
    BY <1>2 DEF ControllerState
  <2>2. UNCHANGED ctrl \/ ctrl' = [ctrl EXCEPT ![current] = s]
    BY <1>3
  <2> HIDE DEF s
  <2>. QED  BY <1>1, <2>1, <2>2 DEF TypeInv, CtrlOK
<1>. QED  BY <1>4, NothingMoves

(* The same for the posted runnable. *)
LEMMA RunPostedOwner ==
  ASSUME TypeInv, OwnerInv, RunPosted
  PROVE  OwnerInv'
<1> DEFINE c == Head(posted)
<1>1. c \in Controllers
  BY HeadTailProperties DEF TypeInv, ExecOK, RunPosted
<1>2. ctrl' = [ctrl EXCEPT ![c] = WithListener(ctrl[c])]
  BY DEF RunPosted
<1>3. WithListener(ctrl[c]).mCamera = ctrl[c].mCamera
  BY <1>1 DEF WithListener, ControllerState, TypeInv, CtrlOK
<1>4. \A d \in Controllers : ctrl'[d].mCamera = ctrl[d].mCamera
  BY <1>1, <1>2, <1>3 DEF TypeInv, CtrlOK
<1>. QED  BY <1>4, NothingMoves DEF RunPosted

(* A new controller has no camera, and its call is new. *)
LEMMA InitCameraOwner ==
  ASSUME TypeInv, OwnerInv, InitCamera, UNCHANGED <<unseen, camera>>
  PROVE  OwnerInv'
<1>1. created + 1 \in Controllers /\ mCameraId \in Cameras
  BY BoundsAssumption DEF TypeInv, ActivityOK, InitCamera, Controllers
<1>2. OpenCamera(created + 1, NewController, mCameraId)
  BY DEF InitCamera
<1>3. NewController \in ControllerState /\ NewController.mCamera = None
  BY DEF NewController, ControllerState
<1>. QED  BY <1>1, <1>2, <1>3, OpenCameraOwner

(* In the beginning nobody has anything. *)
LEMMA OwnerInit ==
  ASSUME Init
  PROVE  OwnerInv
<1>1. /\ \A c \in Controllers :
           /\ exec[c].tasks = <<>> /\ exec[c].pc = "idle" /\ unseen[c] = {}
           /\ ctrl[c].mCamera = None
      /\ \A o \in Opens : camera[o] = "none"
  BY DEF Init, ControllerInit, NewController
<1>2. \A c \in Controllers : IdsOf(exec[c].tasks) = {} /\ Distinct(exec[c].tasks)
  <2>1. Len(<<>>) = 0 /\ 1..0 = {}
    BY EmptySeq
  <2>. QED  BY <1>1, <2>1 DEF IdsOf, Distinct
<1>3. \A c \in Controllers : Waiting(c) = {} /\ Live(c) = {} /\ LocalOK(c)
  BY <1>1, <1>2 DEF Waiting, Live, LocalOK, Fresh
<1>. QED  BY <1>1, <1>3 DEF OwnerInv, WaitingOK, LiveOK

(* Every step keeps the owners. *)
LEMMA OwnerStep ==
  ASSUME TypeInv, OwnerInv, [Next]_vars
  PROVE  OwnerInv'
<1>0. main.pc # "free" => current \in Controllers
  BY DEF TypeInv, ActivityOK
<1>1. CASE OnCreate
  BY <1>1, InitCameraOwner DEF OnCreate
<1>2. CASE OnResume
  <2>1. CASE InitCamera
    BY <1>2, <2>1, InitCameraOwner DEF OnResume
  <2>2. CASE UNCHANGED <<created, current, ctrl, exec, opens, asked, main>>
    BY <1>2, <2>2, NothingMoves DEF OnResume
  <2>. QED  BY <1>2, <2>1, <2>2 DEF OnResume
<1>3. CASE OnPause
  BY <1>3, NothingMoves DEF OnPause, cvars
<1>4. CASE OnStop
  BY <1>4, CloseCameraOwner DEF OnStop
<1>5. CASE ClickSwitch
  BY <1>5, CloseCameraOwner DEF ClickSwitch
<1>6. CASE Release
  BY <1>0, <1>6, EndCloseOwner DEF Release
<1>7. CASE SwitchOpens
  <2>1. current \in Controllers
    BY <1>0, <1>7 DEF SwitchOpens
  <2>2. ctrl[current] \in ControllerState
    BY <2>1 DEF TypeInv, CtrlOK
  <2>. QED  BY <1>7, <2>1, <2>2, OpenCameraOwner DEF SwitchOpens
<1>8. CASE Preview
  BY <1>0, <1>8, StartPreviewOwner DEF Preview
<1>9. CASE RunPosted
  BY <1>9, RunPostedOwner
<1>10. ASSUME NEW c \in Controllers, Executor(c) PROVE OwnerInv'
  BY <1>10, ExecutorOwner
<1>11. ASSUME NEW c \in Controllers, ServiceOpens(c) PROVE OwnerInv'
  BY <1>11, CameraOpensOwner DEF ServiceOpens
<1>12. ASSUME NEW c \in Controllers, SurfaceChanged(c) PROVE OwnerInv'
  BY <1>12, NothingMoves DEF SurfaceChanged
<1>13. CASE SurfaceAppears
  BY <1>13, NothingMoves DEF SurfaceAppears
<1>14. CASE UNCHANGED vars
  BY <1>14, NothingMoves DEF vars, cvars
<1>. QED  BY <1>1, <1>2, <1>3, <1>4, <1>5, <1>6, <1>7, <1>8, <1>9, <1>10, <1>11, <1>12,
             <1>13, <1>14 DEF Next, System, User

(* Wherever the executor and the main thread cross, the field mCamera and   *)
(* the executor's copy of it name a Camera object that is open and of no    *)
(* other controller (openCameraReal and closeCamera of Camera1Controller).  *)
THEOREM FieldIsLive == Spec => []FieldNotReleased
<1>1. ASSUME OwnerInv PROVE FieldNotReleased
  <2> SUFFICES ASSUME NEW c \in Controllers
               PROVE  /\ ctrl[c].mCamera # None => camera[ctrl[c].mCamera] = "open"
                      /\ CameraField(c) # None => camera[CameraField(c)] = "open"
                      /\ \A d \in Controllers \ {c} :
                           ctrl[c].mCamera # None => ctrl[c].mCamera # ctrl[d].mCamera
    BY DEF FieldNotReleased
  <2>1. ctrl[c].mCamera # None => ctrl[c].mCamera \in Live(c)
    BY DEF Live
  <2>2. CameraField(c) # None => CameraField(c) \in Live(c)
    BY DEF Live, Fresh, CameraField
  <2>3. ASSUME NEW d \in Controllers \ {c}, ctrl[c].mCamera # None,
               ctrl[c].mCamera = ctrl[d].mCamera
        PROVE  FALSE
    <3>1. ctrl[d].mCamera \in Live(d)
      BY <2>3 DEF Live
    <3>. QED  BY <1>1, <2>1, <2>3, <3>1 DEF OwnerInv, LiveOK
  <2>. QED  BY <1>1, <2>1, <2>2, <2>3 DEF OwnerInv, LiveOK
<1>2. Spec => []OwnerInv
  <2>1. Init => TypeInv /\ OwnerInv
    BY TypeInit, OwnerInit
  <2>2. TypeInv /\ OwnerInv /\ [Next]_vars => (TypeInv /\ OwnerInv)'
    BY TypeStep, OwnerStep
  <2>. QED  BY <2>1, <2>2, PTL DEF Spec
<1>. QED  BY <1>1, <1>2, PTL

-----------------------------------------------------------------------------
(***************************************************************************)
(* Theorems of Camera1Activity about its patient environment, where opens   *)
(* settle before the user goes on, Camera.open takes longer than the rest   *)
(* of a handler, nothing fails and writes are seen in program order: for    *)
(* every number of controllers and calls of openCamera and every set of     *)
(* cameras.                                                                 *)
(***************************************************************************)
PatientEnvironment == Habits = {} /\ Faults = {}

Mine == ctrl[current]
Alive == life \in {"created", "resumed", "paused"}

OpenTask(o) == [kind |-> "open", id |-> o]
PreviewTask == [kind |-> "preview", id |-> None]

Quiet(c) == exec[c].pc = "idle" /\ exec[c].tasks = <<>> /\ unseen[c] = {}

(* A controller the activity left behind, or has yet to create, does        *)
(* nothing.                                                                 *)
OthersQuiet ==
  \A c \in Controllers :
    c # current => Quiet(c) /\ listeners[c] = 0 /\ ~ctrl[c].isOpening

NotOpen(o) == camera[o] # "open"
OnlyOpen(o) == \A p \in Opens : p # o => NotOpen(p)

(* No message and no callback is under way, the current controller has no   *)
(* listener and shows nothing.                                              *)
NothingShown ==
  /\ posted = <<>> /\ toNotify = {} /\ previewing = {}
  /\ current # None => listeners[current] = 0

(* No camera: before the activity, after onStop, or between the closing and *)
(* the opening of a switch.                                                 *)
Empty ==
  /\ NothingShown
  /\ \A o \in Opens : NotOpen(o)
  /\ current # None => Quiet(current) /\ Mine.mCamera = None
                       /\ ~Mine.isOpen /\ ~Mine.isOpening
  /\ \/ main.pc = "free" /\ ~Alive
     \/ main.pc = "open" /\ life = "resumed"

(* The executor is about to open o, or inside Camera.open; the handler that *)
(* asked for it may still be before startPreview.                           *)
Before(o) ==
  /\ unseen[current] = {}
  /\ Mine.mCamera = None /\ ~Mine.isOpen
  /\ NotOpen(o)
  /\ main.pc \in {"free", "preview"}
  /\ \/ /\ exec[current].pc = "idle"
        /\ exec[current].tasks = IF main.pc = "preview" THEN <<OpenTask(o)>>
                                 ELSE <<OpenTask(o), PreviewTask>>
     \/ /\ exec[current].pc = "opening" /\ exec[current].id = o
        /\ ~Mine.mClose
        /\ exec[current].tasks = IF main.pc = "preview" THEN <<>> ELSE <<PreviewTask>>

(* The executor has o and writes the fields, which the main thread sees one *)
(* after the other.                                                         *)
After(o) ==
  /\ main.pc = "free"
  /\ ~Mine.mClose
  /\ camera[o] = "open"
  /\ exec[current].got = o
  /\ exec[current].tasks = <<PreviewTask>>
  /\ \/ /\ exec[current].pc = "opened" /\ unseen[current] = {}
        /\ Mine.mCamera = None /\ ~Mine.isOpen
     \/ /\ exec[current].pc = "stored" /\ unseen[current] \subseteq {"mCamera"}
        /\ Mine.mCamera = (IF "mCamera" \in unseen[current] THEN None ELSE o)
        /\ ~Mine.isOpen
     \/ /\ exec[current].pc = "idle" /\ "isOpening" \in unseen[current]
        /\ "mCamera" \in unseen[current] => "isOpen" \in unseen[current]
        /\ Mine.mCamera = (IF "mCamera" \in unseen[current] THEN None ELSE o)
        /\ "isOpen" \notin unseen[current] => Mine.isOpen

Asking(o) ==
  /\ Alive
  /\ NothingShown
  /\ OnlyOpen(o) /\ asked[o] = mCameraId
  /\ Mine.isOpening
  /\ Before(o) \/ After(o)

(* The controller has o; its listener is still to come, or there.           *)
Having(o) ==
  /\ Alive
  /\ main.pc = "free"
  /\ OnlyOpen(o) /\ camera[o] = "open" /\ asked[o] = mCameraId
  /\ Mine.mCamera = o /\ Mine.isOpen /\ ~Mine.isOpening /\ ~Mine.mClose
  /\ exec[current].pc = "idle" /\ unseen[current] = {}
  /\ \/ exec[current].tasks = <<PreviewTask>> /\ NothingShown
     \/ /\ exec[current].tasks = <<>> /\ posted = <<current>>
        /\ toNotify = {} /\ previewing = {} /\ listeners[current] = 0
     \/ /\ exec[current].tasks = <<>> /\ posted = <<>>
        /\ listeners[current] = 1 /\ Mine.mListener /\ Mine.mSurfaceView
        /\ toNotify # {} => toNotify = {current} /\ surface
        /\ previewing = IF surface /\ toNotify = {} THEN {o} ELSE {}

(* closeCamera is between its look at the fields and the release of o.      *)
Closing(o) ==
  /\ main.pc = "release"
  /\ life = IF main.then = "stop" THEN "stopped" ELSE "resumed"
  /\ OnlyOpen(o)
  /\ Quiet(current) /\ posted = <<>> /\ toNotify = {} /\ listeners[current] = 0
  /\ previewing \subseteq {o}
  /\ Mine.mCamera = o /\ ~Mine.isOpen /\ ~Mine.isOpening

Phases == Empty \/ \E o \in Opens : Asking(o) \/ Having(o) \/ Closing(o)

PatientInv ==
  /\ TypeInv
  /\ current = created /\ (created = 0 <=> life = "none")
  /\ ~crashed
  /\ OthersQuiet
  /\ Phases

-----------------------------------------------------------------------------
(* What the activity sees of each phase, in the words of CameraContract. *)

Phase == IF current = None THEN "closed"
         ELSE IF ctrl[current].isOpening THEN "opening"
         ELSE IF ctrl[current].isOpen THEN "open" ELSE "closed"
HeldCameras == IF main.pc = "release" THEN {} ELSE {asked[o] : o \in Held}
Shown == IF main.pc = "release" THEN {} ELSE {asked[o] : o \in previewing}

Sees(phase, held, shown) == Phase = phase /\ HeldCameras = held /\ Shown = shown

AskingHolds(o) == IF camera[o] = "open" THEN {mCameraId} ELSE {}
HavingShows == IF previewing = {} THEN {} ELSE {mCameraId}

(* Nothing, and a camera inside closeCamera, are a closed controller.       *)
LEMMA EmptySees ==
  /\ Empty => Sees("closed", {}, {})
  /\ Empty' => Sees("closed", {}, {})'
<1>1. Empty => Sees("closed", {}, {})
  BY DEF Empty, NothingShown, Sees, Phase, HeldCameras, Held, Shown, NotOpen, Mine
<1>2. Empty' => Sees("closed", {}, {})'
  BY DEF Empty, NothingShown, Sees, Phase, HeldCameras, Held, Shown, NotOpen, Mine
<1>. QED  BY <1>1, <1>2

(* The same while closeCamera is about to release the camera.              *)
LEMMA ClosingSees ==
  ASSUME NEW o \in Opens
  PROVE  /\ Closing(o) => Sees("closed", {}, {})
         /\ Closing(o)' => Sees("closed", {}, {})'
<1>1. Closing(o) => Sees("closed", {}, {})
  BY DEF Closing, Sees, Phase, HeldCameras, Shown, Mine
<1>2. Closing(o)' => Sees("closed", {}, {})'
  BY DEF Closing, Sees, Phase, HeldCameras, Shown, Mine
<1>. QED  BY <1>1, <1>2

(* A controller that asks is opening; it holds its camera once Camera.open  *)
(* has returned it.                                                         *)
LEMMA AskingSees ==
  ASSUME NEW o \in Opens
  PROVE  /\ Asking(o) /\ current # None => Sees("opening", AskingHolds(o), {})
         /\ Asking(o)' /\ current' # None => Sees("opening", AskingHolds(o), {})'
<1>1. Asking(o) /\ current # None => Sees("opening", AskingHolds(o), {})
  BY DEF Asking, Before, After, NothingShown, AskingHolds, Sees, Phase, HeldCameras, Held,
         Shown, OnlyOpen, NotOpen, Mine
<1>2. Asking(o)' /\ current' # None => Sees("opening", AskingHolds(o), {})'
  BY DEF Asking, Before, After, NothingShown, AskingHolds, Sees, Phase, HeldCameras, Held,
         Shown, OnlyOpen, NotOpen, Mine
<1>. QED  BY <1>1, <1>2

(* A controller that has its camera is open and shows what it previews.     *)
LEMMA HavingSees ==
  ASSUME NEW o \in Opens
  PROVE  /\ Having(o) /\ current # None => Sees("open", {mCameraId}, HavingShows)
         /\ Having(o)' /\ current' # None => Sees("open", {mCameraId}, HavingShows)'
<1>1. Having(o) /\ current # None => Sees("open", {mCameraId}, HavingShows)
  <2> SUFFICES ASSUME Having(o), current # None
               PROVE  Sees("open", {mCameraId}, HavingShows)
    OBVIOUS
  <2>1. previewing = {} \/ previewing = {o}
    BY DEF Having, NothingShown
  <2>2. Held = {o} /\ asked[o] = mCameraId /\ main.pc # "release" /\ Phase = "open"
    BY DEF Having, Held, OnlyOpen, NotOpen, Phase, Mine
  <2>. QED  BY <2>1, <2>2 DEF HavingShows, Sees, HeldCameras, Shown
<1>2. Having(o)' /\ current' # None => Sees("open", {mCameraId}, HavingShows)'
  <2> SUFFICES ASSUME Having(o)', current' # None
               PROVE  Sees("open", {mCameraId}, HavingShows)'
    OBVIOUS
  <2>1. previewing' = {} \/ previewing' = {o}
    BY DEF Having, NothingShown
  <2>2. Held' = {o} /\ asked'[o] = mCameraId' /\ main.pc' # "release" /\ Phase' = "open"
    BY DEF Having, Held, OnlyOpen, NotOpen, Phase, Mine
  <2>. QED  BY <2>1, <2>2 DEF HavingShows, Sees, HeldCameras, Shown
<1>. QED  BY <1>1, <1>2

ContractStep == [Contract!Next]_(Contract!cvars)

(* A step that changes nothing of what the activity sees is a stutter.      *)
LEMMA SeesTheSame ==
  ASSUME UNCHANGED <<Phase, HeldCameras, Shown, mCameraId>>
  PROVE  ContractStep
BY DEF ContractStep, Contract!cvars, Phase, HeldCameras, Shown

-----------------------------------------------------------------------------
(* The types the steps below need, once there is an activity.              *)
LEMMA Typed ==
  ASSUME PatientInv, life # "none"
  PROVE  /\ current \in Controllers /\ current # None
         /\ ctrl \in [Controllers -> ControllerState]
         /\ exec \in [Controllers -> NamedExec]
         /\ unseen \in [Controllers -> SUBSET Writes]
         /\ listeners \in [Controllers -> Nat]
         /\ camera \in [Opens -> {"none", "open", "released"}]
         /\ asked \in [Opens -> Cameras]
         /\ main \in MainState /\ mCameraId \in Cameras
BY DEF PatientInv, TypeInv, CtrlOK, ExecOK, ServiceOK, ActivityOK, Controllers, None

(* Opens, stores and flags happen while the controller asks.               *)
LEMMA PhaseFacts ==
  ASSUME PatientInv
  PROVE  /\ life # "none" => current # None
         /\ \A o \in Opens : Asking(o) \/ Having(o) \/ Closing(o) => life # "none"
BY DEF PatientInv, Asking, Having, Closing, Alive, None

(* Only the current controller's executor is ever at work.                 *)
LEMMA OnlyCurrentRuns ==
  ASSUME PatientInv, NEW c \in Controllers, ~Quiet(c)
  PROVE  /\ c = current /\ life # "none"
         /\ \E o \in Opens : Asking(o) \/ Having(o)
<1>1. c = current
  BY DEF PatientInv, OthersQuiet
<1>2. current # None
  BY <1>1 DEF Controllers, None
<1>3. \E o \in Opens : Asking(o) \/ Having(o)
  BY <1>1, <1>2 DEF PatientInv, Phases, Empty, Closing
<1>. QED  BY <1>1, <1>3, PhaseFacts

(* The call number of the next openCamera. *)
LEMMA NextOpen ==
  ASSUME PatientInv, opens < MaxOpens
  PROVE  opens + 1 \in Opens
BY BoundsAssumption DEF PatientInv, TypeInv, ServiceOK, Opens

-----------------------------------------------------------------------------
(* The executor of the controller that asks. *)

(* A step of the executor, or the service, that leaves the activity where   *)
(* it is keeps the rest of the invariant.                                   *)
LEMMA AskingGoesOn ==
  ASSUME PatientInv, TypeInv', NEW o \in Opens, Asking(o), Asking(o)',
         camera'[o] = camera[o],
         UNCHANGED <<life, created, current, mCameraId, crashed>>, OthersQuiet'
  PROVE  PatientInv' /\ ContractStep
<1>1. PatientInv'
  BY DEF PatientInv, Phases
<1>2. current # None
  BY PhaseFacts
<1>3. UNCHANGED <<Phase, HeldCameras, Shown>>
  BY <1>2, AskingSees DEF AskingHolds, Sees
<1>. QED  BY <1>1, <1>3, SeesTheSame

(* The same for a controller that has its camera and does not stop to show. *)
LEMMA HavingGoesOn ==
  ASSUME PatientInv, TypeInv', NEW o \in Opens, Having(o), Having(o)',
         previewing # {} => previewing' # {},
         UNCHANGED <<life, created, current, mCameraId>>, ~crashed', OthersQuiet'
  PROVE  PatientInv' /\ ContractStep
<1>1. PatientInv'
  BY DEF PatientInv, Phases
<1>2. current # None
  BY PhaseFacts
<1>3. /\ Sees("open", {mCameraId}, HavingShows)
      /\ Sees("open", {mCameraId}, HavingShows)'
  BY <1>2, HavingSees
<1>4. CASE HavingShows' = HavingShows
  <2>1. UNCHANGED <<Phase, HeldCameras, Shown>>
    BY <1>3, <1>4 DEF Sees
  <2>. QED  BY <1>1, <2>1, SeesTheSame
<1>5. CASE HavingShows' = {mCameraId}
  <2>1. Contract!Show
    BY <1>3, <1>5 DEF Contract!Show, Sees, Phase, HeldCameras, Shown
  <2>. QED  BY <1>1, <2>1 DEF ContractStep, Contract!Next
<1>. QED  BY <1>4, <1>5 DEF HavingShows

(* The executor takes the task that opens, up to Camera.open.              *)
LEMMA TakeOpenAsks ==
  ASSUME PatientInv, TypeInv', NEW c \in Controllers, TakeOpen(c), UNCHANGED avars
  PROVE  PatientInv' /\ ContractStep
<1>1. ~Quiet(c) /\ exec[c].pc = "idle" /\ Head(exec[c].tasks).kind = "open"
  BY DEF TakeOpen, Idle, Quiet
<1>2. c = current /\ life # "none"
  BY <1>1, OnlyCurrentRuns
<1>3. PICK o \in Opens : Asking(o) \/ Having(o)
  BY <1>1, OnlyCurrentRuns
<1>4. Asking(o) /\ Before(o)
  BY <1>1, <1>2, <1>3 DEF TakeOpen, Idle, Asking, Having, After, PreviewTask
<1>5. exec[c].tasks = IF main.pc = "preview" THEN <<OpenTask(o)>>
                      ELSE <<OpenTask(o), PreviewTask>>
  BY <1>1, <1>2, <1>4 DEF Before
<1>6. /\ Head(exec[c].tasks).id = o
      /\ Tail(exec[c].tasks) = IF main.pc = "preview" THEN <<>> ELSE <<PreviewTask>>
  BY <1>5 DEF OpenTask
<1>7. /\ exec'[c].pc = "opening" /\ exec'[c].id = o
      /\ exec'[c].tasks = IF main.pc = "preview" THEN <<>> ELSE <<PreviewTask>>
      /\ \A d \in Controllers : d # c => exec'[d] = exec[d] /\ ctrl'[d] = ctrl[d]
      /\ ctrl'[c].isOpening = ctrl[c].isOpening /\ ctrl'[c].isOpen = ctrl[c].isOpen
      /\ ctrl'[c].mCamera = ctrl[c].mCamera /\ ~ctrl'[c].mClose
  BY <1>2, <1>6, Typed DEF TakeOpen, NamedExec, ControllerState
<1>8. UNCHANGED <<unseen, posted, listeners, toNotify, asked, camera, previewing, crashed,
                  life, created, current, mCameraId, main>>
  BY DEF TakeOpen, avars
<1>9. OthersQuiet'
  BY <1>2, <1>7, <1>8 DEF PatientInv, OthersQuiet, Quiet
<1>10. Asking(o)'
  BY <1>2, <1>4, <1>7, <1>8
     DEF Asking, Before, Alive, NothingShown, OnlyOpen, NotOpen, Mine
<1>. QED  BY <1>4, <1>8, <1>9, <1>10, AskingGoesOn

(* Camera.open returns the chosen camera.                                  *)
LEMMA CameraOpensGrants ==
  ASSUME PatientEnvironment, PatientInv, TypeInv', NEW c \in Controllers, ServiceOpens(c),
         UNCHANGED avars
  PROVE  PatientInv' /\ ContractStep
<1>1. ~Quiet(c) /\ exec[c].pc = "opening" /\ main.pc # "preview"
  BY DEF ServiceOpens, CameraOpens, Quiet, PatientEnvironment
<1>2. c = current /\ life # "none"
  BY <1>1, OnlyCurrentRuns
<1>3. PICK o \in Opens : Asking(o) \/ Having(o)
  BY <1>1, OnlyCurrentRuns
<1>4. Asking(o) /\ Before(o) /\ exec[c].id = o /\ main.pc = "free"
  BY <1>1, <1>2, <1>3 DEF Asking, Having, Before, After
<1>5. /\ exec'[c].pc = "opened" /\ exec'[c].got = o /\ exec'[c].tasks = exec[c].tasks
      /\ \A d \in Controllers : d # c => exec'[d] = exec[d]
      /\ camera'[o] = "open" /\ \A p \in Opens : p # o => camera'[p] = camera[p]
  BY <1>2, <1>4, Typed DEF ServiceOpens, CameraOpens, NamedExec
<1>6. UNCHANGED <<ctrl, unseen, posted, listeners, toNotify, asked, previewing, crashed,
                  life, created, current, mCameraId, main>>
  BY DEF ServiceOpens, CameraOpens, avars
<1>7. OthersQuiet'
  BY <1>2, <1>5, <1>6 DEF PatientInv, OthersQuiet, Quiet
<1>8. Asking(o)' /\ ~(camera[o] = "open")
  BY <1>1, <1>2, <1>4, <1>5, <1>6
     DEF Asking, Before, After, Alive, NothingShown, OnlyOpen, NotOpen, Mine
<1>9. PatientInv'
  BY <1>6, <1>7, <1>8 DEF PatientInv, Phases
<1>10. Sees("opening", {}, {}) /\ Sees("opening", {mCameraId}, {})'
  BY <1>2, <1>4, <1>5, <1>6, <1>8, PhaseFacts, AskingSees DEF AskingHolds, Sees
<1>11. Contract!Grant
  BY <1>6, <1>10 DEF Contract!Grant, Sees, Phase, HeldCameras, Shown
<1>. QED  BY <1>9, <1>11 DEF ContractStep, Contract!Next

(* Camera.open does not throw: no other Camera object is open.             *)
LEMMA CameraOpenNeverThrows ==
  ASSUME PatientEnvironment, PatientInv, NEW c \in Controllers
  PROVE  ~CameraOpenThrows(c)
<1> SUFFICES ASSUME CameraOpenThrows(c) PROVE FALSE
  OBVIOUS
<1>1. ~Quiet(c) /\ exec[c].pc = "opening"
  BY DEF CameraOpenThrows, Quiet
<1>2. PICK o \in Opens : Asking(o) \/ Having(o)
  BY <1>1, OnlyCurrentRuns
<1>3. Before(o) /\ OnlyOpen(o)
  BY <1>1, <1>2, OnlyCurrentRuns DEF Asking, Having, After
<1>. QED
  BY <1>3 DEF CameraOpenThrows, PatientEnvironment, Busy, Before, OnlyOpen, NotOpen

(* The executor stores the camera and sets the flags.                      *)
LEMMA ExecutorStores ==
  ASSUME PatientInv, TypeInv', NEW c \in Controllers, StoreCamera(c) \/ SetFlags(c),
         UNCHANGED avars
  PROVE  PatientInv' /\ ContractStep
<1>1. ~Quiet(c) /\ exec[c].pc \in {"opened", "stored"}
  BY DEF StoreCamera, SetFlags, Quiet
<1>2. c = current /\ life # "none"
  BY <1>1, OnlyCurrentRuns
<1>3. PICK o \in Opens : Asking(o) \/ Having(o)
  BY <1>1, OnlyCurrentRuns
<1>4. Asking(o) /\ After(o)
  BY <1>1, <1>2, <1>3 DEF Asking, Having, Before
<1>5. /\ exec'[c].got = exec[c].got /\ exec'[c].tasks = exec[c].tasks
      /\ \A d \in Controllers : d # c => exec'[d] = exec[d] /\ unseen'[d] = unseen[d]
      /\ \/ /\ exec[c].pc = "opened" /\ exec'[c].pc = "stored"
            /\ unseen'[c] = unseen[c] \cup {"mCamera"}
         \/ /\ exec[c].pc = "stored" /\ exec'[c].pc = "idle"
            /\ unseen'[c] = unseen[c] \cup {"isOpen", "isOpening"}
  <2>1. CASE StoreCamera(c)
    BY <1>2, <2>1, Typed DEF StoreCamera, NamedExec
  <2>2. CASE SetFlags(c)
    <3>1. CameraField(c) = o /\ o # None
      BY <1>2, <1>4, <2>2 DEF SetFlags, CameraField, After, Mine, Opens, None
    <3>. QED  BY <1>2, <2>2, <3>1, Typed DEF SetFlags, NamedExec
  <2>. QED  BY <2>1, <2>2
<1>6. UNCHANGED <<ctrl, posted, listeners, toNotify, asked, camera, previewing, crashed,
                  life, created, current, mCameraId, main>>
  BY DEF StoreCamera, SetFlags, avars
<1>7. OthersQuiet'
  BY <1>2, <1>5, <1>6 DEF PatientInv, OthersQuiet, Quiet
<1>8. After(o)'
  BY <1>2, <1>4, <1>5, <1>6 DEF After, Mine
<1>9. Asking(o)'
  BY <1>2, <1>4, <1>6, <1>8
     DEF Asking, Alive, NothingShown, OnlyOpen, NotOpen, Mine
<1>. QED  BY <1>4, <1>6, <1>7, <1>9, AskingGoesOn

(* The main thread sees the writes one by one; with the last of them the    *)
(* controller is open.                                                      *)
LEMMA RevealOpens ==
  ASSUME PatientEnvironment, PatientInv, TypeInv', NEW c \in Controllers, Reveal(c),
         UNCHANGED avars
  PROVE  PatientInv' /\ ContractStep
<1>1. ~Quiet(c) /\ unseen[c] # {}
  BY DEF Reveal, Quiet
<1>2. c = current /\ life # "none"
  BY <1>1, OnlyCurrentRuns
<1>3. PICK o \in Opens : Asking(o) \/ Having(o)
  BY <1>1, OnlyCurrentRuns
<1>4. Asking(o) /\ After(o)
  BY <1>1, <1>2, <1>3 DEF Asking, Having, Before
<1>5. PICK w \in unseen[c] :
         /\ InOrder(w, unseen[c])
         /\ unseen' = [unseen EXCEPT ![c] = @ \ {w}]
         /\ ctrl' = [ctrl EXCEPT ![c] =
              CASE w = "mCamera"   -> [@ EXCEPT !.mCamera = exec[c].got]
                [] w = "isOpen"    -> [@ EXCEPT !.isOpen = TRUE]
                [] w = "isOpening" -> [@ EXCEPT !.isOpening = FALSE]]
  BY DEF Reveal, PatientEnvironment
<1>6. UNCHANGED <<exec, posted, listeners, toNotify, asked, camera, previewing, crashed,
                  life, created, current, mCameraId, main>>
  BY DEF Reveal, avars
<1>7. /\ unseen'[c] = unseen[c] \ {w}
      /\ \A d \in Controllers : d # c => unseen'[d] = unseen[d] /\ ctrl'[d] = ctrl[d]
      /\ w \in Writes /\ ctrl'[c].mClose = ctrl[c].mClose
      /\ w = "mCamera" => /\ ctrl'[c].mCamera = o /\ ctrl'[c].isOpen = ctrl[c].isOpen
                          /\ ctrl'[c].isOpening = ctrl[c].isOpening
      /\ w = "isOpen" => /\ ctrl'[c].mCamera = ctrl[c].mCamera /\ ctrl'[c].isOpen
                         /\ ctrl'[c].isOpening = ctrl[c].isOpening
      /\ w = "isOpening" => /\ ctrl'[c].mCamera = ctrl[c].mCamera
                            /\ ctrl'[c].isOpen = ctrl[c].isOpen /\ ~ctrl'[c].isOpening
  <2>1. /\ c \in Controllers /\ ctrl[c] \in ControllerState /\ exec[c].got = o
        /\ unseen[c] \in SUBSET Writes
    BY <1>2, <1>4, Typed DEF After
  <2>2. unseen'[c] = unseen[c] \ {w} /\ w \in Writes
        /\ \A d \in Controllers : d # c => unseen'[d] = unseen[d] /\ ctrl'[d] = ctrl[d]
    BY <1>2, <1>5, <2>1, Typed
  <2>3. CASE w = "mCamera"
    <3>1. ctrl'[c] = [ctrl[c] EXCEPT !.mCamera = o]
      BY <1>2, <1>5, <2>1, <2>3, Typed
    <3>. QED  BY <2>1, <2>2, <2>3, <3>1 DEF ControllerState
  <2>4. CASE w = "isOpen"
    <3>1. ctrl'[c] = [ctrl[c] EXCEPT !.isOpen = TRUE]
      BY <1>2, <1>5, <2>1, <2>4, Typed
    <3>. QED  BY <2>1, <2>2, <2>4, <3>1 DEF ControllerState
  <2>5. CASE w = "isOpening"
    <3>1. ctrl'[c] = [ctrl[c] EXCEPT !.isOpening = FALSE]
      BY <1>2, <1>5, <2>1, <2>5, Typed
    <3>. QED  BY <2>1, <2>2, <2>5, <3>1 DEF ControllerState
  <2>. QED  BY <2>2, <2>3, <2>4, <2>5 DEF Writes
<1>8. CASE w # "isOpening"
  <2>1. OthersQuiet'
    BY <1>2, <1>6, <1>7 DEF PatientInv, OthersQuiet, Quiet
  <2>2. After(o)'
    BY <1>2, <1>4, <1>5, <1>6, <1>7, <1>8 DEF After, Mine, Writes, InOrder
  <2>3. Asking(o)'
    BY <1>2, <1>4, <1>6, <1>7, <1>8, <2>2
       DEF Asking, Alive, NothingShown, OnlyOpen, NotOpen, Mine, Writes
  <2>. QED  BY <1>4, <1>6, <2>1, <2>3, AskingGoesOn
<1>9. CASE w = "isOpening"
  <2>1. unseen[c] = {"isOpening"} /\ exec[c].pc = "idle"
    <3>1. "mCamera" \notin unseen[c] /\ "isOpen" \notin unseen[c]
      BY <1>5, <1>9 DEF InOrder
    <3>2. unseen[c] \in SUBSET Writes
      BY <1>2, Typed
    <3>. QED  BY <1>2, <1>4, <1>5, <1>9, <3>1, <3>2 DEF After, Writes
  <2>2. OthersQuiet'
    BY <1>2, <1>6, <1>7, <1>9 DEF PatientInv, OthersQuiet, Quiet
  <2>3. Having(o)'
    BY <1>2, <1>4, <1>6, <1>7, <1>9, <2>1
       DEF After, Asking, Having, Alive, NothingShown, OnlyOpen, NotOpen, Mine
  <2>4. PatientInv'
    BY <1>6, <2>2, <2>3 DEF PatientInv, Phases
  <2>5. Sees("opening", {mCameraId}, {}) /\ Sees("open", {mCameraId}, {})'
    <3>1. camera[o] = "open" /\ previewing' = {}
      BY <1>4, <1>6 DEF After, Asking, NothingShown
    <3>. QED
      BY <1>2, <1>4, <1>6, <2>3, <3>1, PhaseFacts, AskingSees, HavingSees
         DEF AskingHolds, HavingShows, Sees
  <2>6. Contract!Opened
    BY <1>6, <2>5 DEF Contract!Opened, Sees, Phase, HeldCameras, Shown
  <2>. QED  BY <2>4, <2>6 DEF ContractStep, Contract!Next
<1>. QED  BY <1>8, <1>9

-----------------------------------------------------------------------------
(* Showing the preview. *)

(* startPreview's task posts its runnable.                                 *)
LEMMA TakePreviewPosts ==
  ASSUME PatientInv, TypeInv', NEW c \in Controllers, TakePreview(c), UNCHANGED avars
  PROVE  PatientInv' /\ ContractStep
<1>1. ~Quiet(c) /\ exec[c].pc = "idle" /\ Head(exec[c].tasks).kind = "preview"
  BY DEF TakePreview, Idle, Quiet
<1>2. c = current /\ life # "none"
  BY <1>1, OnlyCurrentRuns
<1>3. PICK o \in Opens : Asking(o) \/ Having(o)
  BY <1>1, OnlyCurrentRuns
<1>4. CameraField(c) = None \/ unseen[c] = {}
  BY DEF TakePreview
<1>5. ~Asking(o)
  <2> SUFFICES ASSUME Asking(o) PROVE FALSE
    OBVIOUS
  <2>1. CASE Before(o)
    BY <1>1, <1>2, <2>1 DEF Before, OpenTask
  <2>2. CASE After(o)
    <3>1. "isOpening" \in unseen[c] /\ CameraField(c) = o /\ o # None
      BY <1>1, <1>2, <2>2 DEF After, CameraField, Mine, Opens, None
    <3>. QED  BY <1>4, <3>1
  <2>. QED  BY <2>1, <2>2 DEF Asking
<1>6. /\ Having(o) /\ CameraField(c) = o /\ o # None
  BY <1>2, <1>3, <1>5 DEF Having, CameraField, Mine, Opens, None
<1>7. exec[c].tasks = <<PreviewTask>> /\ NothingShown
  BY <1>1, <1>2, <1>6 DEF Having, TakePreview, Idle
<1>8. /\ exec'[c].tasks = <<>> /\ exec'[c].pc = "idle"
      /\ \A d \in Controllers : d # c => exec'[d] = exec[d]
      /\ posted' = <<c>>
  <2>1. posted' = Append(posted, c) /\ posted = <<>>
    BY <1>6, <1>7 DEF TakePreview, NothingShown
  <2>2. Tail(exec[c].tasks) = <<>>
    BY <1>7
  <2>. QED  BY <1>1, <1>2, <2>1, <2>2, Typed DEF TakePreview, NamedExec
<1>9. UNCHANGED <<ctrl, unseen, listeners, toNotify, asked, camera, previewing, crashed,
                  life, created, current, mCameraId, main>>
  BY DEF TakePreview, avars
<1>10. OthersQuiet'
  BY <1>2, <1>8, <1>9 DEF PatientInv, OthersQuiet, Quiet
<1>11. Having(o)'
  BY <1>2, <1>6, <1>7, <1>8, <1>9, PhaseFacts
     DEF Having, Alive, NothingShown, OnlyOpen, NotOpen, Mine
<1>12. ~crashed'
  BY <1>9 DEF PatientInv
<1>. QED  BY <1>6, <1>9, <1>10, <1>11, <1>12, HavingGoesOn

(* The runnable registers the listener and, on a surface, starts to show.   *)
LEMMA RunPostedListens ==
  ASSUME PatientInv, TypeInv', RunPosted, UNCHANGED avars
  PROVE  PatientInv' /\ ContractStep
<1>1. posted # <<>>
  BY DEF RunPosted
<1>2. PICK o \in Opens : Having(o) /\ posted = <<current>>
  BY <1>1 DEF PatientInv, Phases, Empty, Asking, Having, Closing, NothingShown
<1>3. life # "none" /\ Head(posted) = current /\ o # None
  BY <1>2, PhaseFacts DEF Opens, None
<1>4. exec[current].tasks = <<>> /\ listeners[current] = 0 /\ toNotify = {}
      /\ previewing = {} /\ Mine.mCamera = o
  BY <1>2 DEF Having, NothingShown
<1>5. UNCHANGED <<exec, unseen, toNotify, surface, asked, camera, life, created, current,
                  mCameraId, main>>
  BY DEF RunPosted, avars
<1>6. /\ ctrl' = [ctrl EXCEPT ![current] = WithListener(@)]
      /\ listeners' = [listeners EXCEPT ![current] = @ + 1]
      /\ posted' = Tail(posted)
      /\ ShowPreview(WithListener(ctrl[current]))
  BY <1>3 DEF RunPosted, AddListener
<1>7. /\ Mine'.mListener /\ Mine'.mSurfaceView /\ Mine'.mCamera = o
      /\ Mine'.isOpen = Mine.isOpen /\ Mine'.isOpening = Mine.isOpening
      /\ Mine'.mClose = Mine.mClose
      /\ listeners'[current] = 1
      /\ \A d \in Controllers : d # current =>
           ctrl'[d] = ctrl[d] /\ listeners'[d] = listeners[d]
      /\ posted' = <<>>
  BY <1>2, <1>3, <1>4, <1>5, <1>6, Typed DEF WithListener, ControllerState, Mine
<1>8. previewing' = (IF surface THEN {o} ELSE {}) /\ ~crashed'
  <2>1. WithListener(ctrl[current]).mCamera = o /\ WithListener(ctrl[current]).mSurfaceView
    BY <1>3, <1>4, Typed DEF WithListener, ControllerState, Mine
  <2>. QED  BY <1>3, <1>4, <1>6, <2>1 DEF ShowPreview
<1>9. OthersQuiet'
  BY <1>5, <1>7 DEF PatientInv, OthersQuiet, Quiet
<1>10. Having(o)'
  BY <1>2, <1>4, <1>5, <1>7, <1>8 DEF Having, Alive, OnlyOpen, NotOpen, Mine
<1>. QED  BY <1>2, <1>4, <1>5, <1>8, <1>9, <1>10, HavingGoesOn

(* surfaceChanged shows the camera of the one listener there is.            *)
LEMMA SurfaceChangedShows ==
  ASSUME PatientInv, TypeInv', NEW c \in Controllers, SurfaceChanged(c), UNCHANGED avars
  PROVE  PatientInv' /\ ContractStep
<1>1. toNotify # {} /\ c \in toNotify
  BY DEF SurfaceChanged
<1>2. PICK o \in Opens : Having(o)
  BY <1>1 DEF PatientInv, Phases, Empty, Asking, Having, Closing, NothingShown
<1>3. /\ toNotify = {current} /\ surface /\ c = current /\ o # None
      /\ exec[current].tasks = <<>> /\ posted = <<>> /\ listeners[current] = 1
      /\ Mine.mListener /\ Mine.mSurfaceView /\ previewing = {} /\ Mine.mCamera = o
  BY <1>1, <1>2 DEF Having, NothingShown, Opens, None
<1>4. UNCHANGED <<ctrl, exec, unseen, posted, listeners, surface, asked, camera, life,
                  created, current, mCameraId, main>>
  BY DEF SurfaceChanged, avars
<1>5. toNotify' = {} /\ previewing' = {o} /\ ~crashed'
  BY <1>3 DEF SurfaceChanged, ShowPreview, Mine
<1>6. OthersQuiet'
  BY <1>4 DEF PatientInv, OthersQuiet, Quiet
<1>7. Having(o)'
  BY <1>2, <1>3, <1>4, <1>5 DEF Having, Alive, OnlyOpen, NotOpen, Mine
<1>. QED  BY <1>2, <1>3, <1>4, <1>5, <1>6, <1>7, HavingGoesOn

(* The surface appears: at most the current controller is told.            *)
LEMMA SurfaceAppearsTells ==
  ASSUME PatientInv, TypeInv', SurfaceAppears
  PROVE  PatientInv' /\ ContractStep
<1>1. life = "resumed" /\ main.pc = "free" /\ toNotify = {} /\ ~surface /\ surface'
      /\ toNotify' = {c \in Controllers : listeners[c] > 0}
  BY DEF SurfaceAppears, MainFree
<1>2. UNCHANGED <<ctrl, exec, unseen, posted, listeners, asked, camera, previewing, crashed,
                  life, created, current, mCameraId, main>>
  BY DEF SurfaceAppears, avars
<1>3. toNotify' \subseteq {current}
        /\ (listeners[current] = 0 => toNotify' = {})
        /\ (listeners[current] = 1 => toNotify' = {current})
  BY <1>1, Typed DEF PatientInv, OthersQuiet
<1>4. OthersQuiet'
  BY <1>2 DEF PatientInv, OthersQuiet, Quiet
<1>5. PICK o \in Opens : Asking(o) \/ Having(o)
  BY <1>1 DEF PatientInv, Phases, Empty, Closing, Alive
<1>6. CASE Asking(o)
  <2>1. toNotify' = {}
    BY <1>1, <1>3, <1>6, Typed DEF Asking, NothingShown
  <2>2. Asking(o)'
    BY <1>2, <1>6, <2>1
       DEF Asking, Before, After, Alive, NothingShown, OnlyOpen, NotOpen, Mine
  <2>. QED  BY <1>2, <1>4, <1>6, <2>2, AskingGoesOn
<1>7. CASE Having(o)
  <2>1. Having(o)'
    BY <1>1, <1>2, <1>3, <1>7, Typed
       DEF Having, Alive, NothingShown, OnlyOpen, NotOpen, Mine
  <2>2. ~crashed'
    BY <1>2 DEF PatientInv
  <2>. QED  BY <1>2, <1>4, <1>7, <2>1, <2>2, HavingGoesOn
<1>. QED  BY <1>5, <1>6, <1>7

-----------------------------------------------------------------------------
(* The activity. *)

(* openCamera asks for a camera where there is none.                       *)
LEMMA OpenCameraAsks ==
  ASSUME PatientInv, TypeInv', Empty,
         NEW c \in Controllers, NEW s \in ControllerState, NEW k \in Cameras,
         OpenCamera(c, s, k), s.mCamera = None, ~s.isOpen,
         Quiet(c), listeners[c] = 0,
         \A d \in Controllers : d # c => Quiet(d) /\ listeners[d] = 0 /\ ~ctrl[d].isOpening,
         main'.pc = "preview", Alive', current' = c, mCameraId' = k,
         current' = created', created' # 0,
         UNCHANGED <<unseen, posted, listeners, toNotify, camera, previewing, crashed>>
  PROVE  PatientInv' /\ Sees("opening", {}, {})'
<1>1. PICK o \in Opens : o = opens + 1
  BY NextOpen DEF OpenCamera
<1>2. /\ ctrl \in [Controllers -> ControllerState] /\ exec \in [Controllers -> NamedExec]
      /\ asked \in [Opens -> Cameras]
  BY DEF PatientInv, TypeInv, CtrlOK, ExecOK, ServiceOK
<1>3. /\ exec'[c].tasks = <<OpenTask(o)>> /\ exec'[c].pc = "idle"
      /\ ctrl'[c].isOpening /\ ctrl'[c].mCamera = None /\ ~ctrl'[c].isOpen
      /\ asked'[o] = k
      /\ \A d \in Controllers : d # c => exec'[d] = exec[d] /\ ctrl'[d] = ctrl[d]
  <2>1. Append(exec[c].tasks, OpenTask(o)) = <<OpenTask(o)>> /\ exec[c].pc = "idle"
    BY DEF Quiet
  <2>. QED  BY <1>1, <1>2, <2>1 DEF OpenCamera, Submit, OpenTask, NamedExec, ControllerState
<1>4. OthersQuiet'
  BY <1>3 DEF OthersQuiet, Quiet
<1>5. NotOpen(o)' /\ OnlyOpen(o)'
  BY <1>1 DEF Empty, OnlyOpen, NotOpen
<1>6. Before(o)'
  BY <1>3, <1>5 DEF Before, Mine, Quiet
<1>7. Asking(o)'
  BY <1>3, <1>5, <1>6 DEF Asking, Empty, NothingShown, Mine
<1>8. PatientInv'
  BY <1>1, <1>4, <1>7 DEF PatientInv, Phases, Alive
<1>9. Sees("opening", {}, {})'
  BY <1>1, <1>5, <1>7, AskingSees DEF AskingHolds, NotOpen, Sees, Controllers, None
<1>. QED  BY <1>8, <1>9

(* A new controller opens the chosen camera for an activity that has none.  *)
LEMMA InitCameraAsks ==
  ASSUME PatientInv, TypeInv', Empty, InitCamera, Alive',
         UNCHANGED <<unseen, posted, listeners, toNotify, surface, camera, previewing,
                     crashed, mCameraId>>
  PROVE  PatientInv' /\ ContractStep
<1> DEFINE c == created + 1
<1>1. /\ c \in Controllers /\ created' = c /\ current' = c /\ c # 0
      /\ mCameraId \in Cameras /\ c # current
  BY BoundsAssumption DEF InitCamera, PatientInv, TypeInv, ActivityOK, Controllers
<1>2. NewController \in ControllerState /\ NewController.mCamera = None /\ ~NewController.isOpen
  BY DEF NewController, ControllerState
<1>3. OpenCamera(c, NewController, mCameraId) /\ main' = [main EXCEPT !.pc = "preview"]
  BY DEF InitCamera
<1>4. main'.pc = "preview"
  BY <1>3 DEF PatientInv, TypeInv, ActivityOK, MainState
<1>5. \A d \in Controllers : Quiet(d) /\ listeners[d] = 0 /\ ~ctrl[d].isOpening
  BY DEF PatientInv, OthersQuiet, Empty, NothingShown, Mine, Controllers, None
<1>6. PatientInv' /\ Sees("opening", {}, {})'
  BY <1>1, <1>2, <1>3, <1>4, <1>5, OpenCameraAsks
<1>7. Sees("closed", {}, {})
  BY EmptySees
<1>8. Contract!Open(mCameraId)
  BY <1>6, <1>7 DEF Contract!Open, Sees, Phase, HeldCameras, Shown
<1>. QED  BY <1>1, <1>6, <1>8 DEF ContractStep, Contract!Next

(* The switch opens the other camera on the same controller.               *)
LEMMA SwitchAsks ==
  ASSUME PatientInv, TypeInv', SwitchOpens
  PROVE  PatientInv' /\ ContractStep
<1>1. main.pc = "open" /\ UNCHANGED <<life, created, current>>
  BY DEF SwitchOpens
<1>2. Empty /\ life = "resumed" /\ current # None
  BY <1>1, PhaseFacts
     DEF PatientInv, Phases, Empty, Asking, Before, After, Having, Closing
<1>3. PICK k \in Cameras : mCameraId' = k /\ OpenCamera(current, ctrl[current], k)
  BY DEF SwitchOpens
<1>4. main'.pc = "preview"
  BY <1>2, Typed DEF SwitchOpens, MainState
<1>5. /\ current \in Controllers /\ ctrl[current] \in ControllerState
      /\ Quiet(current) /\ listeners[current] = 0
      /\ ctrl[current].mCamera = None /\ ~ctrl[current].isOpen
  BY <1>2, Typed DEF Empty, NothingShown, Mine
<1>6. /\ \A d \in Controllers : d # current =>
           Quiet(d) /\ listeners[d] = 0 /\ ~ctrl[d].isOpening
      /\ current' = created' /\ created' # 0
  BY <1>1, <1>2 DEF PatientInv, OthersQuiet
<1>7. UNCHANGED <<unseen, posted, listeners, toNotify, camera, previewing, crashed>> /\ Alive'
  BY <1>1, <1>2 DEF SwitchOpens, Alive
<1>8. PatientInv' /\ Sees("opening", {}, {})'
  BY <1>1, <1>2, <1>3, <1>4, <1>5, <1>6, <1>7, OpenCameraAsks
<1>9. Sees("closed", {}, {})
  BY <1>2, EmptySees
<1>10. Contract!Open(k)
  BY <1>3, <1>8, <1>9 DEF Contract!Open, Sees, Phase, HeldCameras, Shown
<1>11. Contract!Next
  BY <1>10 DEF Contract!Next
<1>. QED  BY <1>8, <1>11 DEF ContractStep

(* A second task is queued behind the first. *)
LEMMA TwoTasks ==
  ASSUME NEW a, NEW b
  PROVE  Append(<<>>, b) = <<b>> /\ Append(<<a>>, b) = <<a, b>>
<1>1. Append(<<>>, b) = <<b>>
  OBVIOUS
<1>2. <<a>> \in Seq({a, b}) /\ <<a, b>> \in Seq({a, b})
  OBVIOUS
<1>3. Append(<<a>>, b) = <<a, b>>
  <2>1. /\ Append(<<a>>, b) \in Seq({a, b}) /\ Len(Append(<<a>>, b)) = 2
        /\ Append(<<a>>, b)[1] = a /\ Append(<<a>>, b)[2] = b
    BY <1>2, AppendProperties
  <2>2. Len(<<a, b>>) = 2 /\ <<a, b>>[1] = a /\ <<a, b>>[2] = b
    OBVIOUS
  <2>3. \A i \in 1 .. Len(<<a, b>>) : <<a, b>>[i] = Append(<<a>>, b)[i]
    <3>1. \A i \in 1 .. 2 : i = 1 \/ i = 2
      OBVIOUS
    <3>. QED  BY <2>1, <2>2, <3>1
  <2>4. Len(<<a, b>>) = Len(Append(<<a>>, b))
    BY <2>1, <2>2
  <2>. QED  BY <1>2, <2>1, <2>3, <2>4, SeqEqual
<1>. QED  BY <1>1, <1>3

(* startPreview of the handler that opened: its task waits behind the open. *)
LEMMA PreviewWaits ==
  ASSUME PatientInv, TypeInv', Preview
  PROVE  PatientInv' /\ ContractStep
<1>1. main.pc = "preview" /\ main'.pc = "free"
  BY DEF Preview, PatientInv, TypeInv, ActivityOK, MainState
<1>2. PICK o \in Opens : Asking(o) /\ Before(o)
  BY <1>1 DEF PatientInv, Phases, Empty, Asking, After, Having, Closing
<1>3. life # "none" /\ Mine.mCamera = None
  BY <1>2, PhaseFacts DEF Before
<1>4. /\ exec' = [exec EXCEPT ![current].tasks = Append(@, PreviewTask)]
      /\ UNCHANGED <<ctrl, listeners>>
  BY <1>3 DEF Preview, StartPreview, Submit, Mine, PreviewTask
<1>5. UNCHANGED <<unseen, posted, toNotify, asked, camera, previewing, crashed, life,
                  created, current, mCameraId>>
  BY DEF Preview
<1>6. /\ exec'[current].tasks = Append(exec[current].tasks, PreviewTask)
      /\ exec'[current].pc = exec[current].pc /\ exec'[current].id = exec[current].id
      /\ \A d \in Controllers : d # current => exec'[d] = exec[d]
  BY <1>3, <1>4, Typed DEF NamedExec
<1>7. /\ Append(<<>>, PreviewTask) = <<PreviewTask>>
      /\ Append(<<OpenTask(o)>>, PreviewTask) = <<OpenTask(o), PreviewTask>>
  BY TwoTasks
<1>8. Before(o)'
  BY <1>1, <1>2, <1>4, <1>5, <1>6, <1>7 DEF Before, NotOpen, Mine
<1>9. Asking(o)'
  BY <1>2, <1>4, <1>5, <1>8 DEF Asking, Alive, NothingShown, OnlyOpen, NotOpen, Mine
<1>10. OthersQuiet'
  BY <1>4, <1>5, <1>6 DEF PatientInv, OthersQuiet, Quiet
<1>. QED  BY <1>2, <1>5, <1>9, <1>10, AskingGoesOn

(* What a controller has or waits for stays when the activity goes on.      *)
LEMMA LifeGoesOn ==
  ASSUME PatientInv, TypeInv', Alive, Alive', MainFree,
         UNCHANGED <<ctrl, exec, unseen, posted, listeners, toNotify, surface, asked, camera,
                     previewing, crashed, created, current, mCameraId, main>>
  PROVE  PatientInv' /\ ContractStep
<1>1. PICK o \in Opens : Asking(o) \/ Having(o)
  BY DEF PatientInv, Phases, Empty, Closing, MainFree
<1>2. Asking(o) => Asking(o)'
  BY DEF Asking, Before, After, NothingShown, OnlyOpen, NotOpen, Mine
<1>3. Having(o) => Having(o)'
  BY DEF Having, NothingShown, OnlyOpen, NotOpen, Mine
<1>4. OthersQuiet'
  BY DEF PatientInv, OthersQuiet, Quiet
<1>5. PatientInv'
  BY <1>1, <1>2, <1>3, <1>4 DEF PatientInv, Phases, Alive
<1>6. UNCHANGED <<Phase, HeldCameras, Shown>>
  BY DEF Phase, HeldCameras, Held, Shown
<1>. QED  BY <1>5, <1>6, SeesTheSame

(* onStop and the switch of a settled activity begin to close its camera.   *)
LEMMA CloseCameraCloses ==
  ASSUME PatientInv, TypeInv', Settled, Alive, NEW then \in {"stop", "switch"},
         CloseCamera(then),
         life' = IF then = "stop" THEN "stopped" ELSE "resumed",
         UNCHANGED <<exec, unseen, posted, toNotify, asked, camera, previewing, created,
                     current, mCameraId>>
  PROVE  PatientInv' /\ ContractStep
<1>1. PICK o \in Opens : Having(o)
  <2>1. PICK o \in Opens : Asking(o) \/ Having(o)
    BY DEF PatientInv, Phases, Empty, Closing, Settled, MainFree
  <2>2. ~Asking(o)
    <3>1. Quiet(current)
      BY <2>1, PhaseFacts, Typed DEF Settled, Quiet
    <3>. QED  BY <3>1 DEF Asking, Before, After, Quiet, Settled, MainFree
  <2>. QED  BY <2>1, <2>2
<1>2. life # "none" /\ o # None
  BY <1>1, PhaseFacts DEF Opens, None
<1>3. /\ posted = <<>> /\ toNotify = {} /\ Quiet(current)
  BY <1>2, Typed DEF Settled, MainFree, Quiet
<1>4. /\ Mine.mCamera = o /\ Mine.mListener /\ Mine.mSurfaceView /\ ~Mine.mClose
      /\ listeners[current] = 1 /\ previewing \subseteq {o} /\ ~Mine.isOpening
      /\ OnlyOpen(o)
  BY <1>1, <1>3 DEF Having, Quiet
<1>5. BeginClose(current) /\ main' = [pc |-> "release", then |-> then]
  BY <1>2, <1>4 DEF CloseCamera, MayClose, Mine
<1>6. /\ Mine'.mCamera = o /\ ~Mine'.isOpen /\ ~Mine'.isOpening
      /\ listeners'[current] = 0 /\ UNCHANGED crashed
      /\ \A d \in Controllers : d # current =>
           ctrl'[d] = ctrl[d] /\ listeners'[d] = listeners[d]
  BY <1>2, <1>4, <1>5, Typed DEF BeginClose, ControllerState, Mine
<1>7. OthersQuiet'
  BY <1>6 DEF PatientInv, OthersQuiet, Quiet
<1>8. Closing(o)'
  BY <1>3, <1>4, <1>5, <1>6 DEF Closing, Quiet, OnlyOpen, NotOpen
<1>9. PatientInv'
  BY <1>2, <1>6, <1>7, <1>8 DEF PatientInv, Phases
<1>10. Sees("closed", {}, {})'
  BY <1>8, ClosingSees
<1>11. Contract!Close
  BY <1>10 DEF Contract!Close, Sees, Phase, HeldCameras, Shown
<1>. QED  BY <1>9, <1>11 DEF ContractStep, Contract!Next

(* The camera is released.                                                 *)
LEMMA ReleaseEmpties ==
  ASSUME PatientInv, TypeInv', Release
  PROVE  PatientInv' /\ ContractStep
<1>1. main.pc = "release"
  BY DEF Release
<1>2. PICK o \in Opens : Closing(o)
  BY <1>1 DEF PatientInv, Phases, Empty, Asking, Before, After, Having
<1>3. life # "none" /\ o # None /\ current # None
  BY <1>2, PhaseFacts DEF Opens, None
<1>4. /\ camera' = [camera EXCEPT ![o] = "released"]
      /\ previewing' = previewing \ {o}
      /\ ctrl' = [ctrl EXCEPT ![current].mCamera = None, ![current].mSurfaceView = FALSE]
      /\ UNCHANGED crashed
  BY <1>2, <1>3 DEF Release, EndClose, Closing, Mine
<1>5. UNCHANGED <<exec, unseen, posted, listeners, toNotify, asked, life, created, current,
                  mCameraId>>
  BY DEF Release
<1>6. /\ Mine'.mCamera = None /\ Mine'.isOpen = Mine.isOpen
      /\ Mine'.isOpening = Mine.isOpening
      /\ \A d \in Controllers : d # current => ctrl'[d] = ctrl[d]
      /\ \A p \in Opens : NotOpen(p)'
  BY <1>2, <1>3, <1>4, <1>5, Typed
     DEF ControllerState, Mine, Closing, OnlyOpen, NotOpen
<1>7. main'.pc = IF main.then = "stop" THEN "free" ELSE "open"
  BY <1>3, Typed DEF Release, MainState
<1>8. Empty'
  BY <1>2, <1>4, <1>5, <1>6, <1>7 DEF Closing, Empty, NothingShown, Quiet, Alive, Mine
<1>9. OthersQuiet'
  BY <1>5, <1>6 DEF PatientInv, OthersQuiet, Quiet
<1>10. PatientInv'
  BY <1>4, <1>5, <1>8, <1>9 DEF PatientInv, Phases
<1>11. Sees("closed", {}, {}) /\ Sees("closed", {}, {})'
  BY <1>2, <1>8, ClosingSees, EmptySees
<1>12. UNCHANGED <<Phase, HeldCameras, Shown>>
  BY <1>11 DEF Sees
<1>. QED  BY <1>5, <1>10, <1>12, SeesTheSame

-----------------------------------------------------------------------------
(* The invariant, and the contract, step by step. *)

(* The process starts with nothing open.                                   *)
LEMMA PatientInit == Init => PatientInv
<1> SUFFICES ASSUME Init PROVE PatientInv
  OBVIOUS
<1>1. TypeInv
  BY TypeInit
<1>2. \A c \in Controllers : Quiet(c) /\ listeners[c] = 0 /\ ~ctrl[c].isOpening
  BY DEF Init, ControllerInit, NewController, Quiet
<1>3. Empty
  BY DEF Init, ControllerInit, Empty, NothingShown, NotOpen, Alive
<1>. QED
  BY <1>1, <1>2, <1>3 DEF PatientInv, OthersQuiet, Phases, Init, ControllerInit, None

(* A controller that is neither open nor opening is one that has nothing.   *)
LEMMA ClosedHasNothing ==
  ASSUME PatientInv, main.pc = "free",
         life = "none" \/ (~Mine.isOpen /\ ~Mine.isOpening)
  PROVE  Empty
BY DEF PatientInv, Phases, Asking, Having, Closing, Alive

(* The activity is created, shown, hidden, stopped, told to switch.        *)
LEMMA UserStep ==
  ASSUME PatientEnvironment, PatientInv, TypeInv', User
  PROVE  PatientInv' /\ ContractStep
<1>1. CASE OnCreate
  <2>1. Empty /\ Alive'
    BY <1>1, ClosedHasNothing DEF OnCreate, MainFree, Alive
  <2>. QED  BY <1>1, <2>1, InitCameraAsks DEF OnCreate
<1>2. CASE OnResume
  <2>1. main.pc = "free" /\ Alive' /\ MainFree
    BY <1>2 DEF OnResume, MainFree, Alive
  <2>2. CASE ~Mine.isOpen /\ ~Mine.isOpening
    <3>1. Empty /\ InitCamera
      BY <1>2, <2>1, <2>2, ClosedHasNothing DEF OnResume, Mine
    <3>. QED  BY <1>2, <2>1, <3>1, InitCameraAsks DEF OnResume
  <2>3. CASE ~(~Mine.isOpen /\ ~Mine.isOpening)
    <3>1. current # None
      BY <1>2, PhaseFacts DEF OnResume
    <3>2. Alive
      BY <2>1, <2>3, <3>1 DEF PatientInv, Phases, Empty, Asking, Having, Closing
    <3>. QED  BY <1>2, <2>1, <2>3, <3>2, LifeGoesOn DEF OnResume, Mine
  <2>. QED  BY <2>2, <2>3
<1>3. CASE OnPause
  BY <1>3, LifeGoesOn DEF OnPause, Alive, cvars
<1>4. CASE OnStop
  BY <1>4, CloseCameraCloses DEF OnStop, PatientEnvironment, Alive
<1>5. CASE ClickSwitch
  <2>1. CloseCamera("switch") /\ life' = "resumed" /\ Settled /\ Alive
    BY <1>5 DEF ClickSwitch, PatientEnvironment, Alive
  <2>. QED  BY <1>5, <2>1, CloseCameraCloses DEF ClickSwitch
<1>. QED  BY <1>1, <1>2, <1>3, <1>4, <1>5 DEF User

(* Every step keeps the invariant and is a step of the contract.           *)
LEMMA PatientStep ==
  ASSUME PatientEnvironment
  PROVE  PatientInv /\ [Next]_vars => PatientInv' /\ ContractStep
<1> SUFFICES ASSUME PatientInv, [Next]_vars PROVE PatientInv' /\ ContractStep
  OBVIOUS
<1>1. TypeInv'
  BY TypeStep DEF PatientInv
<1>2. ASSUME NEW c \in Controllers, Executor(c), UNCHANGED avars
      PROVE  PatientInv' /\ ContractStep
  BY <1>1, <1>2, TakeOpenAsks, CameraOpenNeverThrows, ExecutorStores, RevealOpens,
     TakePreviewPosts DEF Executor
<1>3. ASSUME NEW c \in Controllers, ServiceOpens(c) \/ SurfaceChanged(c), UNCHANGED avars
      PROVE  PatientInv' /\ ContractStep
  BY <1>1, <1>3, CameraOpensGrants, SurfaceChangedShows
<1>4. CASE RunPosted /\ UNCHANGED avars
  BY <1>1, <1>4, RunPostedListens
<1>5. CASE Release \/ SwitchOpens \/ Preview
  BY <1>1, <1>5, ReleaseEmpties, SwitchAsks, PreviewWaits
<1>6. CASE SurfaceAppears
  BY <1>1, <1>6, SurfaceAppearsTells
<1>7. CASE User
  BY <1>1, <1>7, UserStep
<1>8. CASE UNCHANGED vars
  <2>1. UNCHANGED <<ctrl, exec, unseen, posted, listeners, toNotify, surface, asked, camera,
                    previewing, crashed, life, created, current, mCameraId, main>>
    BY <1>8 DEF vars, cvars, avars
  <2>2. OthersQuiet'
    BY <2>1 DEF PatientInv, OthersQuiet, Quiet
  <2>3. Phases'
    BY <2>1 DEF PatientInv, Phases, Empty, Asking, Before, After, Having, Closing,
                NothingShown, Quiet, OnlyOpen, NotOpen, Alive, Mine
  <2>4. PatientInv'
    BY <1>1, <2>1, <2>2, <2>3 DEF PatientInv
  <2>5. UNCHANGED <<Phase, HeldCameras, Shown>>
    BY <2>1 DEF Phase, HeldCameras, Held, Shown
  <2>. QED  BY <2>1, <2>4, <2>5, SeesTheSame
<1>. QED  BY <1>2, <1>3, <1>4, <1>5, <1>6, <1>7, <1>8 DEF Next, System

-----------------------------------------------------------------------------
(* The invariant that says in which phase a patient activity is.            *)
THEOREM PatientPhases == PatientEnvironment => (Spec => []PatientInv)
<1> SUFFICES ASSUME PatientEnvironment PROVE Spec => []PatientInv
  OBVIOUS
<1>1. PatientInv /\ [Next]_vars => PatientInv'
  BY PatientStep
<1>. QED  BY <1>1, PatientInit, PTL DEF Spec

(* isOpening is never left behind: while it is set the executor has the     *)
(* open in its queue, in its hands, or yet to be seen.                      *)
THEOREM OpeningIsBacked == ASSUME PatientEnvironment PROVE Spec => []OpeningHasTask
<1>1. PatientInv => OpeningHasTask
  <2> SUFFICES ASSUME PatientInv, NEW c \in Controllers, ctrl[c].isOpening
               PROVE  \/ exec[c].pc # "idle"
                      \/ "isOpening" \in unseen[c]
                      \/ \E i \in DOMAIN exec[c].tasks : exec[c].tasks[i].kind = "open"
    BY DEF OpeningHasTask
  <2>1. c = current /\ current # None
    BY DEF PatientInv, OthersQuiet, Controllers, None
  <2>2. PICK o \in Opens : Asking(o)
    BY <2>1 DEF PatientInv, Phases, Empty, Having, Closing, Mine
  <2>3. CASE Before(o) /\ exec[c].pc = "idle"
    <3>1. exec[c].tasks = <<OpenTask(o)>> \/ exec[c].tasks = <<OpenTask(o), PreviewTask>>
      BY <2>1, <2>3 DEF Before
    <3>2. 1 \in DOMAIN exec[c].tasks /\ exec[c].tasks[1].kind = "open"
      BY <3>1 DEF OpenTask
    <3>. QED  BY <3>2
  <2>. QED  BY <2>1, <2>2, <2>3 DEF Asking, Before, After
<1>. QED  BY <1>1, PatientPhases, PTL

(* onStop gives the camera back, however the executor and the main thread   *)
(* shared the open before.                                                  *)
THEOREM StopReleases == ASSUME PatientEnvironment PROVE Spec => []StoppedReleases
<1>1. PatientInv => StoppedReleases
  BY DEF PatientInv, Phases, Empty, Asking, Having, Closing, Alive, NotOpen,
         StoppedReleases, Held
<1>. QED  BY <1>1, PatientPhases, PTL

(* When all is done the chosen camera is displayed on the surface, by an    *)
(* open controller with exactly one listener.                               *)
THEOREM ChoiceSettles == ASSUME PatientEnvironment PROVE Spec => []SettledShowsChoice
<1>1. PatientInv => SettledShowsChoice
  <2> SUFFICES ASSUME PatientInv, Settled, life \in {"resumed", "paused"}, surface
               PROVE  /\ ctrl[current].isOpen /\ ~ctrl[current].isOpening
                      /\ previewing = {ctrl[current].mCamera}
                      /\ asked[ctrl[current].mCamera] = mCameraId
                      /\ \A c \in Controllers : listeners[c] = IF c = current THEN 1 ELSE 0
    BY DEF SettledShowsChoice
  <2>1. PICK o \in Opens : Asking(o) \/ Having(o)
    BY DEF PatientInv, Phases, Empty, Closing, Alive, Settled, MainFree
  <2>2. Quiet(current) /\ posted = <<>> /\ toNotify = {} /\ main.pc = "free"
    BY Typed DEF Settled, Quiet, MainFree
  <2>3. Having(o) /\ exec[current].tasks = <<>>
    BY <2>1, <2>2 DEF Asking, Before, After, Quiet
  <2>4. listeners[current] = 1 /\ previewing = {o}
    BY <2>2, <2>3 DEF Having
  <2>. QED  BY <2>3, <2>4 DEF Having, Mine, PatientInv, OthersQuiet
<1>. QED  BY <1>1, PatientPhases, PTL

(* Camera1Controller as the activity uses it implements the interface, as   *)
(* Camera2Controller does: every step is a step of CameraContract or        *)
(* changes nothing it speaks of.                                            *)
THEOREM ContractIsImplemented ==
  ASSUME PatientEnvironment
  PROVE  Spec => ImplementsContract
<1>1. Init => Contract!Init
  <2> SUFFICES ASSUME Init PROVE Contract!Init
    OBVIOUS
  <2>1. mCameraId \in Cameras
    BY FirstCameraAssumption DEF Init
  <2>2. Empty
    BY DEF Init, ControllerInit, Empty, NothingShown, NotOpen, Alive
  <2>3. Sees("closed", {}, {})
    BY <2>2, EmptySees
  <2>. QED  BY <2>1, <2>3 DEF Contract!Init, Sees, Phase, HeldCameras, Shown
<1>2. PatientInv /\ [Next]_vars => [Contract!Next]_(Contract!cvars)
  BY PatientStep DEF ContractStep
<1>3. Spec => []PatientInv
  BY PatientPhases
<1>. QED  BY <1>1, <1>2, <1>3, PTL DEF Spec, ImplementsContract, Contract!Spec
=============================================================================
