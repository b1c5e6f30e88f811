# ACamera in TLA+

ACamera is an Android application: a camera activity over two generations of the camera
API, and, as library modules, a video player view over ijkplayer, a JNI wrapper of
libjpeg-turbo and a demo of libyuv, both vendored. This directory holds TLA+ models of the parts whose
correctness depends on the order of events, configurations of TLC that check them on small
instances, and proofs checked by TLAPS. Paths below are relative to the repository, with
`camera/` for `business/camera/src/main/java/com/alpha/camera/`, `player/` for
`base/videoplayer/src/main/java/com/alpha/videoplayer/`, `turbojpeg/` for
`base/turbojpeg/src/main/`, `libjpeg/` for `turbojpeg/cpp/libjpeg-turbo/` and `libyuv/` for
`base/libyuv/src/main/cpp/libyuv/`.

## The system

| Component | State | Operations | Interacts with |
|---|---|---|---|
| `camera/CameraActivity.kt` | `mCameraController`, `mCameraId`, the lifecycle | `onCreate`, `onResume`, `onStop`, switch button | one controller at a time, replaced by `onResume` when it is neither open nor opening |
| `camera/camera/camera2/Camera2Controller.kt` | `isOpen`, `isOpening`, device, session, size, image reader, two flags about the surface | `openCamera`, `startPreview`, `closeCamera`, coroutines, `surfaceCreated` | camera service (answers on `CameraThread`), main looper, surface |
| `camera/camera/camera1/Camera1Controller.kt` | `isOpen`, `isOpening`, `mClose`, `mCamera`, `mSurfaceView`, listener | the same, over an executor of one thread | camera service (blocking calls), executor, main looper, surface |
| `camera/camera/widget/AutoFitSurfaceView.kt` | origin, aspect size, `needMove` | `setAspectRatio`, `onMeasure`, `onLayout` | called by both controllers, laid out by its parent |
| `player/video/MVideoPlayer.kt` | `status`, `isStart`, `isLoading` | `init`, `setDataSource`, `prepare`, `start`, `pause`, `stop`, `release`, listeners | native player (events posted to the main looper), controller, view |
| `player/video/MVideoController.kt`, `VideoController.kt` | button, overlays, timer | callbacks of the player, button, timer thread | player and view |
| `player/video/MVideoView.kt` | buffering flag, progress, saved texture, screen mode | stop, release, seek, full screen, window and texture callbacks | owns the player, hosts the texture view |
| `player/video/NiceTextureView.java` | video size, rotation | `adaptVideoSize`, `setRotation`, `onMeasure` | view and its parents |
| `player/util/ActivityManager.java`, `NiceUtil.java` | stack of activities, densities, old UI flags | add, remove, finish; density; hide and restore bars; formatting | full screen of the view |
| `turbojpeg/cpp/jni/turbo-jpeg-jni.cpp`, `TurboJpegJni.java` | handles, pinned arrays, native buffers | 14 native calls | one TurboJPEG instance per handle |
| `libjpeg/turbojpeg.c` | an instance: compress and decompress object, error manager; `errStr` of the whole library | header, decompress, to YUV, decode YUV, compress, from YUV, encode YUV, transform | libjpeg; every thread through `errStr` |
| `libjpeg/jdapistd.c`, `jdmainct.c`, `jdsample.c` | workspace, two pointer lists, conversion buffer, counters | read rows, skip rows | client, coefficient controller |
| `libjpeg/jchuff.c`, `jdhuff.c` | statistics, tables, bit buffer | gather, encode, decode a symbol | each other through the bytes of a scan |
| `libjpeg/jcphuff.c`, `jdphuff.c` | EOB run, correction bits, coefficients so far | encode and decode an MCU of a scan, suspend | the same, over six scans |
| `libjpeg/jdmarker.c` | unread marker, next number expected | find, read and resynchronize to restart markers | entropy decoder |
| `libjpeg/transupp.c` | coefficient arrays, crop, iMCUs | flip, turn, crop, trim, grey | `tjTransform` |
| `libyuv/source/convert_to_i420.cc` with `convert.cc`, `rotate.cc`, `scale.cc` | locals, one buffer | `ConvertToI420` | demo |
| `turbojpeg/.../AssetFileExtraction`, `ImageUtil`, `CloseUtil` | none | file copies | tests |
| `turbojpeg/cpp/demo`, `base/libyuv/.../demo.cpp` | locals | sequential conversions | libjpeg-turbo, libyuv |
| `app/.../App.kt`, `MainActivity.kt`, `CameraApp.kt`, `baselib` | list of components | forwards application callbacks; asks for the permission | starts `CameraActivity` |

What is hard here is time. An open takes as long as the camera service likes; meanwhile the
user leaves, comes back or presses the switch button. The surface may exist before or after
the device does. Camera 1 writes plain fields from another thread. The native player posts
what happened a moment ago to a looper in which a pause or a stop may be waiting. And an
error can come at every one of those steps. In the native code it is history and geometry: an
error leaves with longjmp from any depth and the handle is used again; rows, bits and
coefficients wait in buffers that outlive a call; sizes are odd, and the last iMCU is partial.
What makes each component correct:

- **Controllers with the activity**: one device at most is held; a stopped activity holds
  none; no device is lost without being closed; the flags `isOpen` and `isOpening`, by which
  `onResume` decides, are true to the facts; the camera chosen last is eventually shown; no
  lifecycle order ends in an exception.
- **Player with its view**: no call of the native player in a state that throws; nothing
  plays unasked; a wish to play is not lost; the button and the timer tell what the player
  does; the player draws on the texture on the screen.
- **Views**: the picture keeps its proportions, stays within what the parent gives, in the
  middle, over every history of sizes and layouts.
- **TurboJPEG**: a handle is good for the next call however the last one ended; what the
  caller gets is the result of its own call; an error text explains the call that failed.
- **libjpeg-turbo**: what is decoded is what was coded, row by row, symbol by symbol, scan by
  scan; what is lost on the way costs what was lost and is warned of; a transform is the
  composition of its elementary steps.
- **libyuv**: every sample of the planes comes from the pixel that belongs there.

## Modules

| Module | Models | Extends |
|---|---|---|
| `Camera2Controller` | Camera2Controller.kt: fields, coroutines, looper, service callbacks | |
| `Camera2Activity` | CameraActivity.kt above Android M; its properties | `Camera2Controller` |
| `CameraContract` | the promise of the interface CameraController.kt, whatever the implementation | |
| `Camera2_proofs` | theorems of `Camera2Activity` | `Camera2Activity` |
| `Camera1Controller` | Camera1Controller.kt and the executor of ThreadPoolUtil.kt | |
| `Camera1Activity` | CameraActivity.kt up to Android M; its properties | `Camera1Controller` |
| `Camera1_proofs` | theorems of `Camera1Activity` | `Camera1Activity` |
| `VideoPlayer` | MVideoPlayer.kt over the native player, with its controller and timer | |
| `VideoView` | MVideoView.kt, the client and the user; the properties | `VideoPlayer` |
| `Video_proofs` | theorems of `VideoView` | `VideoView` |
| `AutoFitSurfaceView`, `NiceTextureView` | the two views that fit a picture into a space | |
| `Views_proofs` | theorems of the two views | both |
| `JpegObject` | libjpeg's compress and decompress object as turbojpeg.c drives them, call by call | |
| `TurboJpeg` | turbo-jpeg-jni.cpp over turbojpeg.c: the calls on one handle; the properties | `JpegObject` |
| `TurboJpeg_proofs` | theorems of `TurboJpeg`: idle handles, calls that succeed, no picture for another, failures are explained | `TurboJpeg` |
| `JpegRows` | reading and skipping rows (jdapistd.c, jdmainct.c, jdsample.c) | |
| `RowReader` | what libjpeg promises of it, whatever the buffers | |
| `JpegHuffman` | optimal tables, the bits of a scan, the decoder (jchuff.c, jdhuff.c) | |
| `JpegProgressive` | progressive scans with suspension and restarts (jcphuff.c, jdphuff.c) | |
| `JpegRestart` | restart markers and resynchronization over a lossy channel (jdmarker.c, jdhuff.c) | |
| `JpegRestart_proofs` | theorem of `JpegRestart` | `JpegRestart` |
| `JpegTransform` | lossless transforms (transupp.c, tjTransform) | |
| `JpegPictures_proofs` | theorems of `JpegRows`, with and without context rows, and of `JpegTransform` | both |
| `YuvConvert` | ConvertToI420 and what it calls (convert.cc, rotate.cc, scale.cc), down to addresses | |
| `YuvConvert_proofs` | theorem of `YuvConvert` | `YuvConvert` |
| `MCCamera1`, `MCCamera2`, `MCVideo`, `MCViews`, `MCNative` | values for the constants | the modules they check |

Every operator that only exists to be put in place of another, to see that a property
notices, is introduced by a comment "Mutant of ...". The specifications never use one.

### Camera2Controller, Camera2Activity

A coroutine is a record in `job`, with a program counter `pc` over its suspension points.
`openCamera` on the main thread sets `isOpening` and launches one (`Opening`, `Launch`); it
then runs on the main looper, a FIFO `mainQueue`, in the pieces between two suspensions:

    launched --StartOpen--> opening --OnOpened--> opened --ResumeOpened--> ratio --RatioPosted-->
    ratioSet --CreateSession--> configuring --OnConfigured--> configured --ResumeConfigured--> done

`ResumeOpened` goes straight to `done` when the surface does not exist yet, leaving
`needCreateCaptureSession` set; `SurfaceCreated` then launches a coroutine of kind
`"surface"` that enters at `ratio`. Each piece is one action and contains every
assignment the code makes before the next suspension. Failures are further actions of the
same points: `ReadParamsThrows`, `OpenThrows`, `OnOpenError`, `OnDisconnected`,
`OnLateError`, `CreateSessionThrows`, `OnConfigureFailed`, `RepeatingThrows`; the constant
`Faults` says which of them a run allows. The service is external: a device is named by the
job that opened it, the state in `device` follows what CameraDevice documents (a new open of
a camera evicts the older device), a session by the job that created it.

An image size is one number. `readParams` only replaces a size by one larger in both
dimensions, so the sizes it ever compares are ordered. The conversion of frames in
`onImageAvailable` never runs (`previewCallback` is a `val` that is null), the operations
marked TODO do nothing: neither is modelled.

`Camera2Activity` adds the handlers, each of which runs as a whole on the main thread when
the looper is free: `OnCreate`, `OnResume`, `OnStop` and `ClickSwitch` (close, turn the id,
open, start the preview). `Habits` says what a user or device may do besides the patient
one: stop (`stopWhileBusy`) or switch (`switchWhileBusy`) while an open is under way, and
the device may answer before the surface exists: of any controller (`deviceFirst`) or, with
`coldStart`, of the first one of the process only. A user of the latter habit does not come
back to an activity whose device was first, because the callback of that controller would
outlive it, which is one of the divergences below.

### Camera1Controller, Camera1Activity

Each controller has an executor with a queue and a thread; the task of `openCamera` is cut
at the plain fields it writes: `TakeOpen`, `CameraOpens`, `StoreCamera`, `SetFlags`. The
fields are neither volatile nor guarded, so `ctrl` holds what the main thread sees, and
`unseen` what the executor wrote and the main thread may not see yet. `Reveal` shows a write
at any time, in program order unless the fault `reorder` is allowed, and at the latest when
the executor synchronises with the main looper by posting. `closeCamera` is cut where it
reads a field the executor writes: `BeginClose`, then `EndClose`. `takePicture` has no
caller and registers listeners of its own; it is left out, which is why this component is
"partly" modelled. The habit `fastOpen` lets Camera.open return before the main thread has
reached `startPreview` in the same handler.

### CameraContract

The interface seen by the activity: `closed`, `opening`, `open`, the cameras held at the
service and those displayed. Both activities implement it under the patient environment
(`ImplementsContract`), by the mapping at the end of each activity module. `camera` is
mapped to `mCameraId`. In the Camera 1 module a camera whose `closeCamera` has begun counts
as given back, because close is one step of the contract.

### VideoPlayer, VideoView

`p` holds the fields of MVideoPlayer, `ijk` the state of the native player, `events` the
events the latter has posted and the main looper has not delivered. The native player is a
binary; its states are those the documentation of Android's MediaPlayer gives and the calls
of MVideoPlayer presuppose, a call in a wrong one sets `crashed`. The native actions
(`NativePrepared`, `NativeRendering`, ...) change `ijk` and post; the listeners (`OnPrepared`,
`OnRendering`, ...) take the oldest event later. The views of the controller are one record,
of which only what a user acts upon is kept: the button, the timer, whether the bar is
there, the overlay. `tick` is a runnable of the timer thread waiting in the looper:
stopping the timer does not remove it.

`setDataSource` and `prepare` are two steps. With the fault `noSource` the native player may
refuse the source with an IOException, which `setDataSource` prints and forgets: the player
stays idle, `status` says nothing, and the `prepareAsync` of a later `prepare` throws.
`source.given` keeps what became of the call since the player was made or reset.

`VideoView` adds the view's own reaction to the events, `updateProgress` for a live stream,
full screen (the texture view leaves its window and comes back), attach and detach with the
release of the saved texture. A client goes by `status` and `hasPrepared`; nothing in the
repository calls the view, so it is the client the two queries are made for. It gives a source
once for each player it made or stopped and then prepares it; it cannot see whether the
source was refused. `Habits`:
`raceEvents` lets it act while events wait, `pauseStopped` lets it pause a stopped player,
`resetInTransit` lets it stop or init the player while the container is between two parents.

`COMPLETE` and `ERROR` are both 6 in the code and in the module. Options, the messages and
`showController`, which nothing calls, are left out.

### AutoFitSurfaceView, NiceTextureView

`setAspectRatio` and `adaptVideoSize` only request a layout; a `Traversal` of the main
looper measures and lays out later, with other requests in between. Sizes are small
integers. The ratio of the preview is an exact fraction where the code has a float: the
products next to a half may be rounded to either side (`Rounded`), and the properties hold
for both. Constants of `MCViews`: parents that are portrait, square and landscape, camera
sizes 4:3, 16:9, square and odd, videos that differ in one side, all measure modes.

The surface view stands in the FrameLayout of `activity_camera.xml`, which puts it at its top
left corner. `setAspectRatio` needs a first layout, because both controllers call it
when the surface exists.

### JpegObject, TurboJpeg

A call of the JNI layer is one action, because the calls on a handle come one after the
other. Inside it, a record `s` passes through the calls into libjpeg the function makes, each
an operator of `JpegObject` that maps the record before to the record after. `s.jump` says
that an error is on its way to the caller's setjmp: every later operator then leaves the record
alone until the function's own label, `BailoutC`, `BailoutD` or a bare return, is reached. That
is how longjmp is modelled, and why the order of the operators is the order of the code.

`this` is the instance with the state of both objects (`cstate`, `dstate`: the
`global_state` of libjpeg), what the marker reader remembers, the header in the object,
and the error manager. `Pictures` are classes of JPEG pictures by how far they are
read: header good, warned of, without SOI, broken or cut; too big or not; three components in a
known sampling, four, or an unknown one; data good, damaged or an error. Every call ranges
over the pictures, a fault of the arguments, the flag TJFLAG_STOPONWARNING, and, after a
failed decode has left freed memory behind, over what that memory holds (`Luck`). Handles
of other threads appear as `OtherFails`: they share `errStr` and nothing else.

`last` keeps of the last call what the properties compare: what it answered, what stopped
it, whose header it worked on, and whether at its beginning the handle was clean and the
picture sound. `Clean` is what a failure of `tjDecompressHeader3`, `tjDecompressToYUV2` or
`tjDecodeYUV` destroys: the decompress object idle, and with its own marker reader.

### JpegRows, RowReader

The workspace, the two pointer lists ("funny pointers") and the conversion buffer are
functions from places to the number of the row that is there, so a row of pixels shows which
rows of which component it was made from. `Read` and `Skip` are the two library calls
with any number of rows. `ImplementsRowReader` says that all of it gives the client the rows of
`RowReader`, each once, in order, each from its right neighbours. `SkipsAnyhow` FALSE keeps to
skips that do not end within an iMCU row and do not follow one another when the picture has no
context rows; with TRUE the run `jpeg_skip_rows` finds the divergence below.

### JpegHuffman, JpegProgressive, JpegRestart

`JpegHuffman` has one scan: statistics to table (`FinishPassGather`), the derived
tables, the bytes with stuffing and marker (`EncodeScan`), then one symbol at a time through
the bit buffer and the lookahead table (`DecodeSymbol`). `JpegProgressive` has six scans over
the coefficients, an action per MCU of either side; `DecodeSuspends` is a call that finds
only part of the MCU's items arrived. What a scan becomes in bytes is the subject of the
former only. In `JpegRestart` the two sides run at once over a wire that loses markers,
spoils them, loses data or repeats a part; a data token is an MCU, `MaxAhead` says how far
the bit buffer runs ahead of the decoder, and the marker it meets there is `unread`.
`history` and the fields `marked` and `whole` are for the properties only.

### JpegTransform, YuvConvert

A DCT block is its place in the source with what became of it (transposed, mirrored), so an
output shows which blocks it consists of. `Execute` writes the outputs of one call in order;
they share the source arrays, and a horizontal flip alone in its call is made in place.
`OutputsAreComposed` compares the index arithmetic of each routine with the elementary steps
its comment names, `TurnsThePicture` with the geometry of samples.

In `YuvConvert` every sample of a plane is the set of addresses it was made from; strides,
offsets and the 16.16 arithmetic of halving are the code's. `Holds` says independently, from
the format's layout, what pixel and component an address holds. `PictureConverted` brings the
two together. `Fits` names what a call must keep to for the code to be right, and
`ConversionsAssumption` asks it of every call that the code does not refuse; what happens to
the others is under the known divergences.

### MCNative

The native components share no state, so `MCNative` puts them side by side: `which` is chosen
at first, only that component takes steps, and `Pinned` keeps the initial choices of the
others at one value. One run then checks all of them, and a property of a component is true of
its initial state elsewhere.

## Runs

All with two workers, seconds each but `camera2_any` (half a minute) and `native` (three
minutes).

| Run | States | Question |
|---|---|---|
| `camera2_patient` | 1,401 | With a user who waits and a service that works, the first device before or after its surface: one device, none when stopped, the chosen camera shown eventually, readers of a size the camera has, no exception, no device dropped, the contract implemented |
| `camera2_any` | 1,848,022 | Every habit, every fault: types, the device field never stale, never shared, `isOpening` backed by a request unless an open has failed |
| `camera2_close_while_opening` | violation | `closeCamera` during an open does not close the camera |
| `camera1_patient` | 954 | As for Camera 2, with one listener on the surface and `isOpening` backed by a task |
| `camera1_any` | 148,847 | Every habit, failed opens, reordered writes: `mCamera` never a released camera |
| `camera1_close_before_listener` | violation | `closeCamera` before the posted runnable: NullPointerException |
| `video_any` | 291,504 | Any client at any time, errors and refused sources included: no call that throws but preparing after a refused source, nothing unasked, timer with button, nothing left for the next source |
| `video_patient` | 71,944 | A client that lets events arrive: wishes fulfilled, button honest, surface given, a start honoured |
| `views` | 139,860 | Every order of ratios, videos, turns, new parents and layouts: undistorted, within the space, in the middle |
| `texture_shared_side` | violation | A video that shares one side with the last one |
| `native` | 587,612 | Each native component by itself: handles idle and calls right after any history, errors explained; rows in place; codes decoded and cheapest; scans that add up; losses contained; transforms composed; frames converted |
| `jpeg_skip_rows` | violation | Skips within an iMCU row or twice in a row, without context rows |

### Bounds

- Camera 2: `MaxControllers` and `MaxJobs` bound what the activity may create. A controller
  only meets another by being replaced, so two suffice for every interaction between an old
  and a new one, and `camera2_patient` takes four to see what restarts accumulate. A
  coroutine interferes with those of its controller through its fields only; three of
  them (two opens and a surface job, or three opens) give every pair in every order, with a
  third to overwrite what the two left. Two cameras: with more, a switch behaves the same.
  Each has an output size that the other lacks.
- Camera 1: two controllers and three opens under every habit, three and five for the
  patient user, for the same reasons; each controller has its own executor.
- Video: three waiting events (two for the patient client): one event to race with, one
  before and one after it. `MaxProgress = 2` lets a live stream be at its start, on its way
  and at its end.
- Views: the history a view keeps is its last ratio or video, so the graph is complete after
  a few steps (depth 8).

- TurboJPEG: no bound at all; ten pictures, one per way of being read, and the
  graph is complete. A handle's state is finite because texts and headers are kept by kind.
- Rows: one to three row groups per iMCU row and pictures up to 16 rows high without context
  rows, two or three and up to 20 with them: at least three iMCU rows, so a first, a last and
  those in between, the last one partial in every way. Reads of up to `MaxLines` = 3 rows, skips of any number.
- Huffman: five symbols with every statistics over `MCCounts`, scans of up to two symbols;
  codes are limited to `MaxLength` = 3 bits so that lengths must be shortened, the lookahead is
  2 so that codes are longer than it, bytes have 2 bits so that every alignment and stuffing
  comes.
- Progressive: blocks of six coefficients, three with every combination of five patterns
  and five with every combination of two, so runs of empty blocks cross several blocks; `Split` = 1 and
  `LastRun` = 2 so that long runs of zeros need their symbol; restart interval none or 2.
- Transform: pictures of two to six blocks a side (`DctSize` = 2), partial and full, four
  samplings and grey, all eight transforms, four crops, and every pair of outputs.
- Restart: `Segments` = 6 of `Interval` = 2 MCUs with `Numbers` = 5 for 8 markers: five is the
  least for which the two numbers ahead, the two behind and the one expected differ. Bursts of
  `MaxBurst` = 3 lost markers are one more than the decoder makes good. `MaxWire` = 2 tokens
  are under way; a suspended decoder sees every prefix anyway.
- Conversion: eight sizes with odd and even, positive and negative, degenerate sides; four
  crops each; every format and rotation, in place or not, as far as `Fits` admits them. Sizes at
  which 16.16 places drift are the subject of the theorem.

Every bound is a guard (`created < MaxControllers`, `nextJob < MaxJobs`, `opens < MaxOpens`,
`Len(events) < MaxEvents`, `Len(wire) < MaxWire`, `enc.burst < MaxBurst`), never a truncation
of what happens. When a bound is used up, the activity can only pause and stop, hence
`CHECK_DEADLOCK FALSE` in the camera configurations; a crashed process stops as well. The
native run has it because scans, conversions and pictures end, the video runs because a
process whose player threw stops. The view runs check deadlock.

### Fairness

`FairSpec` is weakly fair to the system's steps: a looper delivers what is posted, the
camera service and the native player answer, an executor runs its tasks, a visible view
gets its surface or texture. Each is what Android's threads guarantee to a process in the
foreground. Nothing is assumed of users, of failures, or of the client; the progress
properties allow for the user leaving or choosing again. The runs without liveness use
`Spec`. The native modules need no fairness: what they promise is about calls that return.

## What is proved

Everything here is checked by TLAPS with no assumption beyond those the modules name.

`Camera2_proofs` (bounds in Nat, `OutputSizes` a function on `Cameras`, the first camera a
camera), for every number of controllers, coroutines and cameras:

- `TypeCorrect`: `Spec => []TypeOK`. `TypeOK` is inductive because it includes what the
  coroutines need to name things: a coroutine is past `idle` exactly if it was launched, has
  an owner from then on, names the device of the session it waits for, and the looper holds
  launched ones only (`JobOK`). One lemma per group of actions, `TypeStep` combines them.
- `DevicesOwned`: `Spec => []DeviceOwned`, under every habit and fault. Alone it is not
  inductive: a coroutine that is resumed with its device writes it to the field, so one must
  know that the device a suspended coroutine was answered with was granted and not closed
  (`Granted`), and that a device in a field was already handed over, so that no coroutine
  hands it over again (`Delivered`). `DeviceInv` is the conjunction.
- `NoDeviceLost`: without `switchWhileBusy`, a device leaves its field only by being
  closed. The invariant `SoleInv` adds that an open under way is the only one of its
  controller, whose field is empty meanwhile (`Sole`), and that a controller not created yet
  has neither coroutine nor callback (`OwnersCreated`). With the habit the statement is
  false, and TLC finds the trace.
- `OpeningIsBacked`: `Spec => []OpeningHasRequest`, under every habit and fault. One must know
  which request backs the flag: `OpeningInv` says that only the current controller is ever
  opening, since `onResume` waits for the flag, so that its last request is the last of the
  process and no eviction can silence it, and that the request was not resumed yet
  (`BackedBy`), which keeps `closeCamera` away from its device.

The remaining properties of `camera2_patient` are false of an impatient user, so they are
proved for the run's environment: `PatientEnvironment` allows no fault and no habit but
`coldStart`. `PatientPhases` says that everything the process can be is one of three phases:
nothing held and nothing under way (`Nothing`), one coroutine on its way to a device, known
piece by piece (`Asking`), or one device held and at most one coroutine, or one callback, on its
way to show it (`Having`). Each handler and each piece leads from a phase into a phase.
`ColdStartOnly` keeps track of the one callback the habit wakes. From this one invariant
follow `OneDeviceAtATime`, `StopReleases`, `ReaderAlwaysFits`, `NoCrash` and
`ContractIsImplemented`: `Spec => ImplementsContract`, where each phase is seen as one of the
contract's (`AskingSees` and its companions) and each action as a step of the contract or
a stutter.

`Camera1_proofs` (bounds in Nat, the first camera a camera), for every number of controllers
and calls of `openCamera`:

- `TypeCorrect`: `Spec => []TypeOK`, from `TypeInv`, which adds that a task that opens and an
  executor that opens name their call, that the listener a controller removes is registered
  (`listeners` never falls below zero), and that a handler is under way for an activity only.
- `FieldIsLive`: `Spec => []FieldNotReleased`, under every habit and fault, also when the
  executor's writes are seen out of order. The field alone is not enough: the executor
  carries a camera from `Camera.open` to the field, and the main thread may release the
  field's camera at any moment between. `OwnerInv` follows each call of `openCamera` from the
  queue (`Waiting`) over `got` to the field (`Live`): a waiting call has no camera and is at
  one controller (`WaitingOK`), a live camera is open and of one controller (`LiveOK`), no
  queue holds a call twice and the field never names the camera still to be stored in it
  (`LocalOK`). Most steps give a controller nothing new (`NothingNew`); `OpenCameraOwner`,
  `CameraOpensOwner` and `EndCloseOwner` are the three that do.

For the patient user (`PatientEnvironment`: no habit, no fault) the argument is that of Camera 2
with one phase more, since closing takes two steps of the main thread: `Empty`, `Asking`,
`Having`, `Closing`. `Asking` follows the task through the queue and the executor, and says for
each field the task writes whether the main thread sees it yet (`Before`, `After`); the
listener's runnable may be in the queue, in the looper or done in `Having`. From `PatientInv`
follow `OpeningIsBacked` (`OpeningHasTask`), `StopReleases` (`StoppedReleases`),
`ChoiceSettles` (`SettledShowsChoice`) and `ContractIsImplemented` (`ImplementsContract`).

`Video_proofs` (a queue bound in Nat, a positive length of a live stream). For every set of
habits and faults:

- `VideoTypeCorrect`, `StatusProtects` (`ThrowsOnlyUnsourced`), `PlaysOnlyWhenAsked`
  (`NothingUnasked`), `TimerFollowsButton` (`TimerWithIcon`) and `NothingLeftOver`
  (`FreshWhenIdle`), all from one invariant, `VideoInv`. The five are not inductive by
  themselves. An event of the previous data source could set status or the view's counts on
  an idle player: `IdleIsQuiet` says that an idle player has nothing posted. And a client
  that trusts status could prepare a player that is not idle or start a released one:
  `StatusIdle` ties status INIT and STOP to an idle player and a released one to INIT. Of the
  data source status says nothing; `SourceInv` says that an idle player for which
  `setDataSource` was called is one that refused, so a `prepare` that throws has a swallowed
  IOException behind it. The same invariant gives `TakenSourcesNeverThrow`: without the fault
  `noSource`, `NeverCrashes` holds. What
  the controller's callbacks do to button and timer is one lemma, `ViewsTyped`.

And without the habits that break them (see the known divergences):

- `DrawsOnTheTexture` (`SurfaceGiven`), without `resetInTransit`: a texture that is saved has
  been given to the player and is given only once, so the surface must be live as long as
  the texture is saved, also while no texture is on the screen (`SurfaceInv`).
- `NoWishIsLeftOver` (`WishFulfilled`) and `ButtonIsHonest` (`IconHonest`), without `raceEvents`
  and `pauseStopped`, errors included. `WishInv` says for each state of the native player which
  events can still be on their way, and that a player that rests with none on its way has
  rested long enough for its status and `isStart` to say so.

`Views_proofs`, for all finite sizes and ratios the modules' assumptions admit:

- `TextureKeepsProportions`: `TextureViewSpec => []TextureFits`. A view without a layout due has
  the size `onMeasure` finds for the present video and parent (`TextureInv`); that this size
  is undistorted and within its space is arithmetic of truncating quotients
  (`Truncated`, `HeightKept`, `WidthKept`, `FitVideoFits`).
- `SurfaceKeepsProportions`: `SurfaceViewSpec => []FrameFits`, when the parent keeps its size
  (`~Resizes`; else it is false). The view's size was calculated for its last camera
  from the size it first had, and a view with no layout due stands in the middle of it
  (`FrameInv`). `AspectFits` is the arithmetic, for every rounding `Rounded` admits
  (`RoundedQuotient`), `Halves` that of the move.

`TurboJpeg_proofs`, for every nonempty set of pictures (`PicturesAssumption`):

- `HandleStaysIdle`: `TurboJpegSpec => []TurboJpegTypeOK`, whose second half is the point: the
  compress object is idle between two calls and the decompress object at most past a header.
  Every function is a composition of operators, and each operator has a lemma that says what
  of the objects it keeps (`Keeps`: the record well typed, the same uses, no object appears or
  vanishes; `SameC`, `SameD`: the state of an object unchanged). Reading a header leaves the object INHEADER or READY
  (`ReadHeaderReads`); anything may be left by reading an image or writing one, and the labels
  bailout make it idle (`BailoutCIdle`, `BailoutDIdle`). One lemma per function (`Header3Idle` to
  `TransformIdle`) chains these, `ReturnStep` carries the result into the state.
- `SoundCallsSucceed`: `TurboJpegSpec => []SoundCallSucceeds`. It needs the first theorem (the
  compress object is idle when the call begins) and shows for each function that on a clean
  object nothing on the way raises an error: `SoundHeader` and `SoundImage` for the decompress
  object, whatever the reader, the header, raw_data_out and the end-of-image flag were
  before; `GivenHeader` for the header written by hand; `SoundDefaults` and `SoundWrite` for the compress
  object, whatever raw_data_in was before.
- `PicturesNotMixed`: `TurboJpegSpec => []OwnPicture`. It rests on the types of the first theorem,
  as the last does, and gives each piece of a call one lemma. Nearly every piece leaves the header in
  the object and what the call has got as they are, and a stopped call stopped (`Leaves`).
  Reading a header is the exception (`Took`): a call it does not stop holds the header of the
  picture it was given, unless the stubs keep the one that was there. So nothing need be known
  of the states before the call beyond their types: whatever an earlier error left is overwritten
  or stops the call.
- `ErrorsExplained`: `TurboJpegSpec => []ErrorExplained`. Each piece keeps two facts
  (`Tells`). `Told`: an instance error is a THROW whose text is in the instance, and a call
  that was stopped or warned has its reason in `errStr`. `Fresh`: when the error manager has
  counted a warning, that warning is in `errStr`, because only the first of a picture is
  written. `Fresh` holds from the header on, since a decompress object in state START resets
  the count; one that an aborted header left elsewhere does not, which is why the property
  asks for a clean handle.

`JpegPictures_proofs`, for every set of pictures of any height and any number of row groups in an
iMCU row (`ShapesAssumption`), and every number of rows a client asks for:

- `RowsInOrder`: `RowsSpec => ImplementsRowReader` when `SkipsAnyhow` is FALSE, which is the
  precondition of a skip without context rows that the code does not check; skips with context rows
  are free. The invariant has two parts, as `context` chooses between two controllers.
- Without context rows, `RowsInv` says where the decompressor is: output_scanline is the first
  line of the iMCU row in the buffer, plus the row groups used up, plus the rows of the current
  group that were given; a row group is begun only of a full buffer, whose pointers lead to the
  rows of that iMCU row as far as the picture goes (`InStep`); the rows to go are what is left of
  the picture. After a read, though not after a skip, a buffer is full only if a row of it was
  given (`AfterRead`), and that is why the lines left in the iMCU row end where the next one begins
  (`LeftOver`). `Loads`, `Fills`, `Upsamples` and `Reads` take a read apart, `Increments` and
  `Skips` a skip; the lines of an iMCU row are a product of two unknowns, so `Quotient` and
  `PlaceInRow` do the division.
- With context rows, `MixedInv` says in which of five places the decompressor can stand before a
  line (`AtLine`): at the beginning (`Fresh`); within an iMCU row (`Working`), the pointers to its row groups and their
  neighbours in order (`Clear`), with the last one cut off below (`Ongoing`); with the last row group of an iMCU row
  still to be given, and the next one not yet read (`Switched`) or read already
  (`Postponing`); or at the first line of an iMCU row read ahead (`Ready`). Both lists have one
  pointer for each place of the workspace (`OnePlace`), and the list that was not
  in use leads to the last two row groups of the list that was (`ListFacts`,
  `WrapFacts`): so a new iMCU row is loaded around the rows still needed (`LoadsMixed`, `OtherList`), and
  what is above and below a row group is there (`RowAround`). `SetBottom` repeats the last
  row (`ClampedRows`, `Bottom`). A row of pixels in the conversion buffer outlives the call
  (`SecondRight`). `ProcessesMixed`, `PreparesMixed` and `PostponedMixed` go through the three states of the
  controller, `ReadsMixed` through a call. A skip leaves the iMCU row at its end, wherever it
  was (`Leaves`), jumps, and reads at least one row before the client reads: that row is mixed
  with what the workspace happens to hold, the next one is right again (`ReadsJumped`), and this
  is why the code jumps over one line less than it could.

`JpegRestart_proofs`, for every number and length of segments, any number of marker numbers
from five on, and every size of the wire and of the buffer ahead (`RestartAssumption`):

- `LossContained`: `RestartSpec => []LossIsContained`. What the decoder does with a marker
  depends on its number alone, which several segments share. So the invariant (`RestartInv`,
  that is `Holds`) says where every token is in the scan (`Places`): `Carries` says that the
  tokens under way lead, one by one, from the place of the decoder (`At`) to a place the sender
  has not left by more than two markers (`Sends`). Two markers that are there are then at most
  three segments apart, and five numbers are enough to tell the next from the last two
  (`NumberFacts`). The loop of `jpeg_resync_to_restart` ends because each pass shortens the wire
  or suspends (`ScannedOnStays`); `ReadSeeks`, `ProcessSeeks` and `LoadSeeks` carry the place
  through a call, and what the bit buffer holds is of the segment of the decoder (`BitsFit`). This part is given up when a third marker in a row goes missing. The
  warning has an invariant of its own (`Straight`): until the caller is warned, what is shown,
  loaded and under way is in the order of the picture, and the picture shown is behind
  the one sent as soon as something is missing from it. It cannot catch up, so at the end it
  would need an MCU past the last. The lemmas come in pairs, `...Contains` for
  the first part and `...Straight` for the second. Numbers are counted down in sets
  (`LeastNumber`, `Reached`), as an induction over a predicate is beyond the provers, and
  remainders are compared by `OneQuotient`.

`JpegPictures_proofs` too, for every size of picture and DCT block, every sampling in which Y is
not subsampled, and every sequence of outputs asked for at once (`TransformAssumption`):

- `TransformsCompose`: `TransformSpec => []OutputsAreComposed`. The outputs share the arrays a
  flip in place overwrites, so `TransformInv` says that the outputs so far were made of the
  picture as it was read and that the arrays still hold it while an output is to be written:
  a flip in place is the only output of its call (`WrittenFromSource`, for which
  swapping the rows and then moving what is kept must give what the other routine gives). The rest is
  index arithmetic: a window that begins with an iMCU has its blocks in the padded
  arrays, turned or not, reduced to grey or not (`WindowFits`, `PaddedFits`, `OutputFits`),
  and there each routine is the composition of its steps (`UprightComposed`, `TurnedComposed`).
- `PictureTurned`: `TransformSpec => []TurnsThePicture`. A perfect or trimmed output has no block
  that its routine would leave unmirrored (`FullUnitsStay`, `PerfectSides`, `AllMirrored`), and a
  block that is mirrored as a whole shows the right samples (`MovedBlock`, `SampleTurned`).

`YuvConvert_proofs`, for every set of calls that `ConversionsAssumption` admits: twelve formats,
frames and crops of any size, also upside down, four rotations, in place or not:

- `PictureRight`: `YuvSpec => []PictureConverted`. The code rotates in one of two places, while
  it converts or when it copies the buffer. So the invariant (`YuvInv`) speaks of planes that are
  right but for the rotation (`Upright`), which the buffer holds, and says of the result that it is
  such planes turned (`TurnedFrom`). `TurnedRight` leads from there to the property: luma goes
  where `Source` says, and of the pixels a sample of chroma is shown with, the first stays
  one of them in every rotation, also where an odd side leaves less than a pair. What remains is
  `ConvertedUpright` and `OnePassTurned`, one lemma per format. Each computes the address a sample is read from
  (`LumaAddress`, `ChromaAddress`, `PairAddress`), through crop, stride and negative height, and what
  the layout says is there: the address must be seen not to be beyond its plane, and its quotient by the
  stride to be the row (`OneQuotient`). The formats with more chroma than I420 are scaled:
  `StepFacts` bounds what the 16.16 step loses by being rounded, `CentreFacts` and
  `StartFacts` that no place, the last one included, is more than a sample off
  (`ScaledBeside`), which is where the conditions on sizes in `Fits` come from.

The other properties are checked by TLC only:

- what holds under fairness (`ChoiceIsShown`, `StartIsHonoured`);
- what is about recursive data: `JpegHuffman` and `JpegProgressive` declare recursive operators,
  so no theorem can be about them (`DecodesWhatWasCoded`, `CheapestCode`, `ScansAddUp`) or
  about `MCNative`.

## Known divergences

Four violations are runs of this project, because a comment or a document of the repository
says otherwise. The modules state further properties that the code breaks; a run of
the same specification with the constants given here shows each. They are not part of the
runs above because the same step of the code is behind several of them.

| Property | Module | Constants | What happens |
|---|---|---|---|
| `CloseReleases` | `Camera2Activity` | `stopWhileBusy` | run `camera2_close_while_opening` |
| `CloseSurvives` | `Camera1Activity` | `stopWhileBusy` | run `camera1_close_before_listener` |
| `TextureShowsVideo` | `MCViews` | videos sharing a side | run `texture_shared_side` |
| `RowsInPlace` | `JpegRows` | `SkipsAnyhow = TRUE` | run `jpeg_skip_rows`; only djpeg.c calls `jpeg_skip_scanlines` |
| `OpeningIsTrue` | `Camera2Activity` | fault `openThrows` | the catch of a failed open clears `isOpen` only: `isOpening` stays set and `onResume` never tries again |
| `OpenIsTrue` | `Camera2Activity` | fault `configFails` | the device stays open, `isOpen` is false, `onResume` opens a second one |
| `OpensGivenId` | `Camera2Activity` | `switchWhileBusy` | two opens answered in the other order leave the earlier choice in the field |
| `ClosedStaysQuiet`, `NeverCrashes` | `Camera2Activity` | `deviceFirst`; the former with five coroutines | the surface wakes the callback of a controller that was closed, which uses its closed device |
| `OpeningIsTrue` | `Camera1Activity` | fault `openFails`; or `stopWhileBusy`, `fastOpen` | the flag of a failed or closed open is not cleared |
| `CloseReleases` | `Camera1Activity` | `stopWhileBusy` | `mCamera` is still null when `closeCamera` looks, the camera opens afterwards |
| `PreviewStarts` | `Camera1Activity` | `fastOpen` | `startPreview` finds the camera open and only registers a listener: a surface that exists already never calls it |
| `OpenIsTrue` | `Camera1Activity` | every habit | the flags of an open whose camera was closed meanwhile |
| `WishFulfilled` | `VideoView` | `raceEvents` | a pause before a waiting first-frame event leaves `PLAY_START` on a paused player |
| `NeverCrashes` | `VideoView` | fault `noSource` | `setDataSource` (MVideoPlayer.kt:122) prints the IOException, `status` stays INIT or STOP, and `prepare` calls `prepareAsync` on a player without a source, which throws |
| `IconHonest` | `VideoView` | `pauseStopped` | pausing a stopped player makes start show playing |
| `SurfaceGiven` | `VideoView` | `resetInTransit` | a player stopped while the container moves gets no surface again |
| `OriginIsParent`, `FrameFits` | `AutoFitSurfaceView` | `Resizes = TRUE` | the parent's size is measured before the first ratio only, the view is moved once per ratio |
| `WarningIsRecoverable` | `TurboJpeg` | as in `native` | turbojpeg.h:433 calls a warning non-fatal, but `tjGetErrorCode` answers it also when an error followed the warning or the warning stopped the call, and there is no picture |

Others were met while reading the native code and are outside the inputs of the runs, or
about a wording:

- jdapistd.c:372–375 says how many rows a skip at the end of a picture counts; the code
  (396–399) returns 0 there.
- libjpeg.txt:505–508 wants an object aborted after an error; `tjDecompressHeader3` and
  `tjDecompressToYUV2` return and leave it, so the next call on the handle fails once.
- Three JNI functions answer −2 for an error where TurboJpegJni.java:82 says −1.
- TJXOPT_TRIM keeps a partial block when the picture or the crop is smaller than an iMCU in
  the mirrored direction; `TurnsThePicture` leaves this case out.
- Codes whose length had to be limited need not be the cheapest; a rarer symbol may get a
  shorter code. A table made from statistics counts every symbol it has at least once.
- A scan part that comes twice, together with losses, can go without a warning; a burst of
  more than two lost markers spreads damage into other intervals, as jdmarker.c says of its
  scheme.
- `ConvertToI420` with YUY2 or UYVY and an odd `crop_x` swaps U and V, while convert.h:480
  recommends `(src_width - dst_width) / 2`, which may be odd. With MJPG it ignores
  `crop_x` and `crop_y` (convert.h:479–489). In place (`dst_y` equal to the sample) with a
  rotation of I420, YV12, NV12 or NV21 it rotates twice, against the comment at
  convert_to_i420.cc:74–75. The chroma of a frame one pixel wide is taken, not filtered.
- `ScalePlaneVertical` (scale_common.cc:1022), which `ConvertToI420` reaches with I422 and YV16, and
  with I444 and YV24 one pixel wide, finds its rows by adding up a step in 16.16 that was rounded
  down. At some odd heights (545 is the first, 719 and 1079 are others) the last place falls before the
  row it should begin with, and the row above has a part in the chroma, at most a quarter.
  Even heights and all below 545 have no such row (`InStep`). The other formats are not scaled, and
  those that are need sizes below 32768, as 16.16 has 15 bits for a place.
- In the libyuv demo, `y_size + (y_size + 1) >> 2` allocates half of the Y plane, by
  precedence; its fixed size has no odd width, for which its chroma stride would be wrong.

## What is not modelled

- Most of the repository's lines are vendored: libyuv with a row function for each of six
  processors, libjpeg-turbo with its assembler and SIMD, gtest, ijkplayer as binaries. What is
  modelled of the first two is their control. The rest is arithmetic on samples without state
  (DCT, colours, quantization, scaling, the ARGB conversions), which a model checker can only
  repeat, or is not reached from the calls the repository makes (arithmetic coding,
  command line programs, virtual arrays on disk). So the share of all lines that the modules stand for
  stays small.
- Of libjpeg-turbo's modelled parts: merged upsampling, two-pass quantization, cropping of
  scanlines, the arithmetic of interpolation, extra bits of sequential coefficients,
  interleaved scans, markers copied by a transform.
- `decode_mcu_fast` (jdhuff.c:661–745), which decodes an MCU without checking the buffer while enough
  bytes are in it and hands the MCU to `decode_mcu_slow` when it meets a marker. `HuffDecode` is
  the slow path, `jpeg_huff_decode` with its lookahead.
- Of `tjTransform`: `customFilter` (turbojpeg.c:1946–1974), a callback of the caller that may change
  coefficients, and with `TJXOP_NONE` the arrays of the picture itself, which later outputs read;
  the JNI wrapper leaves it null. And `TJXOPT_NOOUTPUT` (turbojpeg.c:1933–1944, 1975), which the wrapper
  passes on: the coefficients are transformed and no file is written.
- The arrays `GetByteArrayElements` pins and never releases, the native buffers that are never
  freed, the `ImageReader` a second open leaves unclosed: leaks, which grow with every call by
  what the source shows and need no model.
- What the video view does where nothing says what it should: the timer after an error,
  a live stream past its maximum.
- The demos and the file utilities: sequential code.
- `ActivityManager`'s stack and densities and most of `NiceUtil`: no caller in the
  repository. `App`, `MainActivity`, `AppComponentManager`: a handful of states.
- Configuration changes and `onDestroy`: the activity handles neither; a recreated activity
  is a new process state with nothing shared but the camera service.
- Exposure, flash, focus and capture: TODO stubs in both controllers.

## Plan

Done, in this order: the Camera 2 controller and activity with the contract, its theorems,
Camera 1 against the same contract and its theorems, the video player and view with their theorems, the two
fitting views with their theorems, the TurboJPEG handles with four theorems, the stateful parts of libjpeg-turbo,
the theorem about rows, the lossless transforms with their theorems, the
theorem about restart markers, ConvertToI420 with its theorem. Left:

1. An abstract player (idle, preparing, playing, paused, released) that `VideoView` implements
   under the patient client.
