-------------------------- MODULE TurboJpeg_proofs --------------------------
(***************************************************************************)
(* Theorems of TurboJpeg, for every set of JPEG pictures: the objects are    *)
(* idle between calls and a sound call succeeds; then, through every error, *)
(* what a call leaves to its client: whose picture it works on, and the     *)
(* text that explains its failure.                                          *)
(***************************************************************************)
EXTENDS TurboJpeg, TLAPS

(* The record of a call under way. *)
Calls == [this : Instances, errStr : Texts, jump : BOOLEAN,
          why : {"nothing", "warning", "error"}, got : Images]

(* What a call into libjpeg keeps: the uses of the instance, and that an     *)
(* object exists exactly if it existed before.                              *)
Keeps(s, t) ==
    /\ t \in Calls
    /\ t.this.init = s.this.init
    /\ t.this.cstate = "none" <=> s.this.cstate = "none"
    /\ t.this.dstate = "none" <=> s.this.dstate = "none"

SameC(s, t) == t.this.cstate = s.this.cstate
SameD(s, t) == t.this.dstate = s.this.dstate

-----------------------------------------------------------------------------
(* The error manager. *)

(* An error stops the call and leaves both objects where they are.         *)
LEMMA ErrorExitKeeps ==
    ASSUME NEW s \in Calls
    PROVE  /\ Keeps(s, ErrorExit(s)) /\ SameC(s, ErrorExit(s)) /\ SameD(s, ErrorExit(s))
           /\ ErrorExit(s).jump
  BY DEF Calls, Keeps, SameC, SameD, ErrorExit, Texts

(* A warning leaves both objects where they are.                           *)
LEMMA WarnKeeps ==
    ASSUME NEW s \in Calls
    PROVE  Keeps(s, Warn(s)) /\ SameC(s, Warn(s)) /\ SameD(s, Warn(s))
  BY DEF Calls, Keeps, SameC, SameD, Warn, Texts, Instances

-----------------------------------------------------------------------------
(* The decompress object. *)

(* An aborted decompress object is in START, its header still there.       *)
LEMMA DAbortTyped ==
    ASSUME NEW s \in Calls
    PROVE  /\ DAbort(s) \in Calls /\ SameC(s, DAbort(s))
           /\ DAbort(s).this.init = s.this.init /\ DAbort(s).this.dstate = "start"
           /\ DAbort(s).jump = s.jump /\ DAbort(s).this.header = s.this.header
           /\ DAbort(s).this.warning = s.this.warning
  BY DEF Calls, SameC, DAbort, Instances, DStates

(* A header is read from START or INHEADER, and leaves the object INHEADER  *)
(* or, if no error stopped it, READY.                                       *)
Reads(s, t) ==
    /\ Keeps(s, t) /\ SameC(s, t)
    /\ t.this.dstate \in {s.this.dstate, "inheader", "ready"}
    /\ ~t.jump => t.this.dstate = "ready"

(* initial_setup makes the object READY or fails.                          *)
LEMMA InitialSetupReads ==
    ASSUME NEW s \in Calls, NEW luck \in BOOLEAN, s.this.dstate # "none"
    PROVE  Reads(s, InitialSetup(s, luck))
<1> DEFINE t == [s EXCEPT !.this.dstate = "ready", !.this.rawOut = FALSE]
<1>1. Reads(s, t)
  BY DEF Calls, Keeps, SameC, Reads, Instances, DStates
<1>2. Reads(s, ErrorExit(s))
  BY ErrorExitKeeps DEF Reads, SameD
<1> QED BY <1>1, <1>2 DEF InitialSetup

(* Data that ends before SOS is an error, with or without stopOnWarning.   *)
LEMMA EndOfDataReads ==
    ASSUME NEW s \in Calls
    PROVE  Reads(s, EndOfData(s))
<1> DEFINE u == [s EXCEPT !.this.reader = "inside"]
           t == Warn(u)
           v == [t EXCEPT !.this.eoi = TRUE]
<1>1. u \in Calls /\ Keeps(s, u) /\ SameC(s, u) /\ SameD(s, u)
  BY DEF Calls, Keeps, SameC, SameD, Instances
<1>2. Keeps(u, t) /\ SameC(u, t) /\ SameD(u, t)
  BY <1>1, WarnKeeps
<1>3. v \in Calls /\ Keeps(t, v) /\ SameC(t, v) /\ SameD(t, v)
  BY <1>2 DEF Calls, Keeps, SameC, SameD, Instances
<1>4. Keeps(v, ErrorExit(v)) /\ SameC(v, ErrorExit(v)) /\ SameD(v, ErrorExit(v)) /\ ErrorExit(v).jump
  BY <1>3, ErrorExitKeeps
<1>5. EndOfData(s) = IF t.jump THEN t ELSE ErrorExit(v)
  BY DEF EndOfData
<1> HIDE DEF u, t, v
<1> QED BY <1>1, <1>2, <1>3, <1>4, <1>5 DEF Reads, Keeps, SameC, SameD

(* The markers are read to SOS, or the call stops in the header.           *)
LEMMA ReadMarkersReads ==
    ASSUME NEW s \in Calls, NEW pic \in Images, NEW luck \in BOOLEAN, s.this.dstate # "none"
    PROVE  Reads(s, ReadMarkers(s, pic, luck))
<1> DEFINE sos == [s EXCEPT !.this.reader = "inside", !.this.header = pic, !.this.freed = FALSE]
           stuck == [s EXCEPT !.this.reader = "stuck"]
           warned == Warn(sos)
<1>1. sos \in Calls /\ Keeps(s, sos) /\ SameC(s, sos) /\ SameD(s, sos)
  BY DEF Calls, Keeps, SameC, SameD, Instances
<1>2. stuck \in Calls /\ Keeps(s, stuck) /\ SameC(s, stuck) /\ SameD(s, stuck)
  BY DEF Calls, Keeps, SameC, SameD, Instances
<1>3. Keeps(sos, warned) /\ SameC(sos, warned) /\ SameD(sos, warned)
  BY <1>1, WarnKeeps
<1>4. Reads(sos, InitialSetup(sos, luck)) /\ Reads(warned, InitialSetup(warned, luck))
  BY <1>1, <1>3, InitialSetupReads DEF Keeps, SameD
<1>5. Reads(s, ErrorExit(s)) /\ Reads(stuck, ErrorExit(stuck)) /\ Reads(s, EndOfData(s))
  BY <1>2, ErrorExitKeeps, EndOfDataReads DEF Reads, SameD
<1>6. ReadMarkers(s, pic, luck) \in
        {ErrorExit(s), ErrorExit(stuck), EndOfData(s), InitialSetup(warned, luck),
         InitialSetup(sos, luck)} \/ (warned.jump /\ ReadMarkers(s, pic, luck) = warned)
  BY DEF ReadMarkers
<1> HIDE DEF sos, stuck, warned
<1>7. CASE warned.jump /\ ReadMarkers(s, pic, luck) = warned
  BY <1>1, <1>3, <1>7 DEF Reads, Keeps, SameC, SameD
<1>8. CASE ReadMarkers(s, pic, luck) \in {InitialSetup(warned, luck), InitialSetup(sos, luck)}
  BY <1>1, <1>3, <1>4, <1>8 DEF Reads, Keeps, SameC, SameD
<1>9. CASE ReadMarkers(s, pic, luck) \in {ErrorExit(s), ErrorExit(stuck), EndOfData(s)}
  BY <1>2, <1>5, <1>9 DEF Reads, Keeps, SameC, SameD
<1> QED BY <1>6, <1>7, <1>8, <1>9

(* The same with the stubs of tjDecodeYUVPlanes.                           *)
LEMMA ConsumeHeaderReads ==
    ASSUME NEW s \in Calls, NEW pic \in Images, NEW luck \in BOOLEAN, s.this.dstate # "none"
    PROVE  Reads(s, ConsumeHeader(s, pic, luck))
<1>1. Reads(s, ErrorExit(s))
  BY ErrorExitKeeps DEF Reads, SameD
<1> QED BY <1>1, ReadMarkersReads, InitialSetupReads DEF ConsumeHeader

(* A call that was not stopped before jpeg_read_header and is not stopped    *)
(* by it has an object that is READY.                                       *)
LEMMA ReadHeaderReads ==
    ASSUME NEW s \in Calls, NEW pic \in Images, NEW luck \in BOOLEAN
    PROVE  /\ Keeps(s, ReadHeader(s, pic, luck)) /\ SameC(s, ReadHeader(s, pic, luck))
           /\ ReadHeader(s, pic, luck).this.dstate \in {s.this.dstate, "inheader", "ready"}
           /\ ~ReadHeader(s, pic, luck).jump => ReadHeader(s, pic, luck).this.dstate = "ready"
<1> DEFINE t == [ResetInput(s) EXCEPT !.this.dstate = "inheader"]
<1>1. CASE s.jump
  BY <1>1 DEF ReadHeader, Keeps, SameC, Calls
<1>2. CASE ~s.jump /\ s.this.dstate = "start"
  <2>1. t \in Calls /\ Keeps(s, t) /\ SameC(s, t) /\ t.this.dstate = "inheader"
    BY <1>2 DEF ResetInput, Calls, Keeps, SameC, Instances, DStates
  <2>2. Reads(t, ConsumeHeader(t, pic, luck))
    BY <2>1, ConsumeHeaderReads
  <2>3. ReadHeader(s, pic, luck) = ConsumeHeader(t, pic, luck)
    BY <1>2 DEF ReadHeader
  <2> HIDE DEF t
  <2> QED BY <2>1, <2>2, <2>3 DEF Reads, Keeps, SameC
<1>3. CASE ~s.jump /\ s.this.dstate = "inheader"
  <2>1. ReadHeader(s, pic, luck) = ConsumeHeader(s, pic, luck)
    BY <1>3 DEF ReadHeader
  <2> QED BY <1>3, <2>1, ConsumeHeaderReads DEF Reads
<1>4. CASE ~s.jump /\ s.this.dstate \notin {"start", "inheader"}
  <2>1. ReadHeader(s, pic, luck) = ErrorExit(s)
    BY <1>4 DEF ReadHeader
  <2> QED BY <2>1, ErrorExitKeeps DEF SameD
<1> QED BY <1>1, <1>2, <1>3, <1>4

(* Reading an image may stop in any state, but begins only with an object. *)
LEMMA ReadImageKeeps ==
    ASSUME NEW s \in Calls, NEW running \in DStates \ {"none"}, NEW raw \in BOOLEAN
    PROVE  Keeps(s, ReadImage(s, running, raw)) /\ SameC(s, ReadImage(s, running, raw))
<1> DEFINE t == [s EXCEPT !.this.dstate = running]
           u == [t EXCEPT !.this.dstate = "stopping"]
           damaged == Warn(t)
           r == ReadImage(s, running, raw)
<1>1. CASE s.jump
  BY <1>1 DEF ReadImage, Keeps, SameC, Calls
<1>2. CASE ~s.jump /\ (s.this.dstate # "ready" \/ s.this.rawOut # raw)
  <2>1. r = ErrorExit(s)
    BY <1>2 DEF ReadImage
  <2> HIDE DEF r
  <2> QED BY <2>1, ErrorExitKeeps DEF r
<1>3. CASE ~s.jump /\ s.this.dstate = "ready" /\ s.this.rawOut = raw
  <2>1. /\ t \in Calls /\ Keeps(s, t) /\ SameC(s, t)
        /\ u \in Calls /\ Keeps(s, u) /\ SameC(s, u)
    BY <1>3 DEF Calls, Keeps, SameC, Instances, DStates
  <2>2. Keeps(t, damaged) /\ SameC(t, damaged)
    BY <2>1, WarnKeeps
  <2>3. /\ Keeps(t, ErrorExit(t)) /\ SameC(t, ErrorExit(t))
        /\ Keeps(u, ErrorExit(u)) /\ SameC(u, ErrorExit(u))
    BY <2>1, ErrorExitKeeps
  <2>4. /\ DAbort(t) \in Calls /\ DAbort(t).this.init = t.this.init
        /\ SameC(t, DAbort(t)) /\ DAbort(t).this.dstate = "start"
        /\ DAbort(damaged) \in Calls /\ DAbort(damaged).this.init = damaged.this.init
        /\ SameC(damaged, DAbort(damaged)) /\ DAbort(damaged).this.dstate = "start"
    BY <2>1, <2>2, DAbortTyped DEF Keeps
  <2>5. r \in {ErrorExit(u), ErrorExit(t), damaged, DAbort(damaged), DAbort(t)}
    BY <1>3 DEF ReadImage
  <2> HIDE DEF r, t, u, damaged
  <2>6. Keeps(s, r) /\ SameC(s, r)
    BY <1>3, <2>1, <2>2, <2>3, <2>4, <2>5 DEF Keeps, SameC
  <2> QED BY <2>6 DEF r
<1> QED BY <1>1, <1>2, <1>3 DEF Calls

-----------------------------------------------------------------------------
(* The compress object. *)

(* The destination leaves both objects where they are.                     *)
LEMMA MemDestKeeps ==
    ASSUME NEW s \in Calls, NEW noRealloc \in BOOLEAN
    PROVE  Keeps(s, MemDest(s, noRealloc)) /\ SameD(s, MemDest(s, noRealloc)) /\ SameC(s, MemDest(s, noRealloc))
<1>1. Keeps(s, s) /\ SameD(s, s) /\ SameC(s, s)
  BY DEF Keeps, SameD, SameC
<1> QED BY <1>1, ErrorExitKeeps DEF MemDest

(* So do the parameters.                                                   *)
LEMMA SetCompDefaultsKeeps ==
    ASSUME NEW s \in Calls, NEW raw \in BOOLEAN
    PROVE  /\ Keeps(s, SetCompDefaults(s, raw)) /\ SameD(s, SetCompDefaults(s, raw))
           /\ SameC(s, SetCompDefaults(s, raw))
  BY DEF SetCompDefaults, Calls, Keeps, SameD, SameC, Instances

(* An aborted compress object is in START.                                 *)
LEMMA CAbortTyped ==
    ASSUME NEW s \in Calls
    PROVE  /\ CAbort(s) \in Calls /\ SameD(s, CAbort(s)) /\ CAbort(s).this.init = s.this.init
           /\ CAbort(s).this.cstate = "start"
  BY DEF CAbort, Calls, SameD, Instances, CStates

(* A compression may stop in the middle, but begins only with an object. *)
LEMMA WriteImageKeeps ==
    ASSUME NEW s \in Calls, NEW image, NEW raw \in BOOLEAN
    PROVE  Keeps(s, WriteImage(s, image, raw)) /\ SameD(s, WriteImage(s, image, raw))
<1> DEFINE running == IF s.this.rawIn THEN "raw" ELSE "scanning"
           t == [s EXCEPT !.this.cstate = running, !.this.warned = FALSE]
           u == [s EXCEPT !.this.warned = FALSE]
           r == WriteImage(s, image, raw)
<1>1. CASE s.jump
  BY <1>1 DEF WriteImage, Keeps, SameD, Calls
<1>2. CASE ~s.jump /\ s.this.cstate # "start"
  <2>1. r = ErrorExit(s)
    BY <1>2 DEF WriteImage
  <2> HIDE DEF r
  <2> QED BY <2>1, ErrorExitKeeps DEF r
<1>3. CASE ~s.jump /\ s.this.cstate = "start"
  <2>1. /\ t \in Calls /\ Keeps(s, t) /\ SameD(s, t)
        /\ u \in Calls /\ Keeps(s, u) /\ SameD(s, u)
    BY <1>3 DEF Calls, Keeps, SameD, Instances, CStates
  <2>2. r \in {ErrorExit(u), ErrorExit(t), CAbort(t)}
    BY <1>3 DEF WriteImage
  <2> HIDE DEF r, t, u
  <2>3. Keeps(s, r) /\ SameD(s, r)
    BY <1>3, <2>1, <2>2, ErrorExitKeeps, CAbortTyped DEF Keeps, SameD
  <2> QED BY <2>3 DEF r
<1> QED BY <1>1, <1>2, <1>3 DEF Calls

(* The same for the coefficients of a transformation.                      *)
LEMMA WriteCoefficientsKeeps ==
    ASSUME NEW s \in Calls, NEW image
    PROVE  Keeps(s, WriteCoefficients(s, image)) /\ SameD(s, WriteCoefficients(s, image))
<1> DEFINE t == [s EXCEPT !.this.cstate = "wrcoefs", !.this.rawIn = FALSE, !.this.warned = FALSE]
           r == WriteCoefficients(s, image)
<1>1. CASE s.jump
  BY <1>1 DEF WriteCoefficients, Keeps, SameD, Calls
<1>2. CASE ~s.jump /\ s.this.cstate # "start"
  <2>1. r = ErrorExit(s)
    BY <1>2 DEF WriteCoefficients
  <2> HIDE DEF r
  <2> QED BY <2>1, ErrorExitKeeps DEF r
<1>3. CASE ~s.jump /\ s.this.cstate = "start"
  <2>1. t \in Calls /\ Keeps(s, t) /\ SameD(s, t)
    BY <1>3 DEF Calls, Keeps, SameD, Instances, CStates
  <2>2. r \in {ErrorExit(t), CAbort(t)}
    BY <1>3 DEF WriteCoefficients
  <2> HIDE DEF r, t
  <2>3. Keeps(s, r) /\ SameD(s, r)
    BY <1>3, <2>1, <2>2, ErrorExitKeeps, CAbortTyped DEF Keeps, SameD
  <2> QED BY <2>3 DEF r
<1> QED BY <1>1, <1>2, <1>3 DEF Calls

-----------------------------------------------------------------------------
(* The functions of turbojpeg.c: whatever happens in between, they leave an  *)
(* idle compress object and a decompress object that is at most past a      *)
(* header.                                                                  *)
Idle(s) ==
    /\ s.this.cstate \in {"none", "start"}
    /\ s.this.dstate \in {"none", "start", "inheader", "ready"}

(* What no state of the objects depends on. *)
Same(s, t) == Keeps(s, t) /\ SameC(s, t) /\ SameD(s, t)

(* A piece that does nothing.                                              *)
LEMMA SameOnes ==
    ASSUME NEW s \in Calls
    PROVE  Same(s, s)
  BY DEF Same, Keeps, SameC, SameD

(* What keeps the record well typed.                                       *)
LEMMA Typed ==
    ASSUME NEW s, NEW t, Keeps(s, t) \/ Same(s, t)
    PROVE  t \in Calls
  BY DEF Same, Keeps

(* GET_INSTANCE and the entry of the wrappers change no object.            *)
LEMMA EnterSame ==
    ASSUME NEW s \in Calls
    PROVE  Same(s, Enter(s)) /\ Same(s, EnterWrapper(s))
  BY DEF Same, Enter, EnterWrapper, Calls, Keeps, SameC, SameD, Instances

(* stopOnWarning changes no object.                                        *)
LEMMA StopOnSame ==
    ASSUME NEW s \in Calls, NEW stop \in BOOLEAN
    PROVE  Same(s, StopOn(s, stop))
  BY DEF Same, StopOn, Calls, Keeps, SameC, SameD, Instances

(* THROW changes no object, and stops a call whose condition holds.        *)
LEMMA ThrowIfSame ==
    ASSUME NEW s \in Calls, NEW bad \in BOOLEAN
    PROVE  /\ Same(s, ThrowIf(s, bad))
           /\ ~ThrowIf(s, bad).jump => ~s.jump /\ ~bad
<1> DEFINE t == [s EXCEPT !.this.text = "error", !.this.isInstanceError = TRUE,
                          !.errStr = "error", !.why = "error", !.jump = TRUE]
<1>1. Same(s, t) /\ t.jump
  BY DEF Same, Calls, Keeps, SameC, SameD, Instances, Texts
<1>2. CASE bad /\ ~s.jump
  BY <1>1, <1>2 DEF ThrowIf
<1>3. CASE ~(bad /\ ~s.jump)
  BY <1>3, SameOnes DEF ThrowIf
<1> QED BY <1>2, <1>3

(* The checks of the instance change no object.                            *)
LEMMA CheckedSame ==
    ASSUME NEW s \in Calls, NEW use, NEW badArgs \in BOOLEAN
    PROVE  Same(s, Checked(s, use, badArgs))
  BY ThrowIfSame DEF Checked

(* To note the picture changes no object.                                  *)
LEMMA GotSame ==
    ASSUME NEW s \in Calls
    PROVE  Same(s, Got(s))
  BY DEF Same, Got, Calls, Keeps, SameC, SameD, Instances

(* Same composes.                                                          *)
LEMMA SameSame ==
    ASSUME NEW s \in Calls, NEW t, NEW u, Same(s, t), Same(t, u)
    PROVE  Same(s, u)
  BY DEF Same, Keeps, SameC, SameD

(* The beginning of a function changes no object.                          *)
LEMMA EnterStopSame ==
    ASSUME NEW s \in Calls, NEW stop \in BOOLEAN
    PROVE  Same(s, StopOn(Enter(s), stop))
<1>1. Same(s, Enter(s))
  BY EnterSame
<1>2. Enter(s) \in Calls
  BY <1>1 DEF Same, Keeps
<1>3. Same(Enter(s), StopOn(Enter(s), stop))
  BY <1>2, StopOnSame
<1> QED BY <1>1, <1>3, SameSame

(* Nor do its checks.                                                      *)
LEMMA EnterCheckedSame ==
    ASSUME NEW s \in Calls, NEW stop \in BOOLEAN, NEW use, NEW badArgs \in BOOLEAN
    PROVE  Same(s, Checked(StopOn(Enter(s), stop), use, badArgs))
<1> DEFINE t == StopOn(Enter(s), stop)
<1>1. Same(s, t) /\ t \in Calls
  BY EnterStopSame DEF Same, Keeps
<1>2. Same(t, Checked(t, use, badArgs))
  BY <1>1, CheckedSame
<1> HIDE DEF t
<1>3. Same(s, Checked(t, use, badArgs))
  BY <1>1, <1>2, SameSame
<1> QED BY <1>3 DEF t

(* The label bailout makes the compress object idle.                       *)
LEMMA BailoutCIdle ==
    ASSUME NEW s \in Calls
    PROVE  /\ Keeps(s, BailoutC(s)) /\ SameD(s, BailoutC(s))
           /\ BailoutC(s).this.cstate \in {"none", "start"}
  BY DEF BailoutC, CAbort, Calls, Keeps, SameD, Instances, CStates

(* The label bailout makes the decompress object idle.                     *)
LEMMA BailoutDIdle ==
    ASSUME NEW s \in Calls
    PROVE  /\ Keeps(s, BailoutD(s)) /\ SameC(s, BailoutD(s))
           /\ BailoutD(s).this.dstate \in {"none", "start"}
  BY DEF BailoutD, DAbort, Calls, Keeps, SameC, Instances, DStates

(* tjDecompressHeader3, which returns at once when the header is an error. *)
LEMMA Header3Idle ==
    ASSUME NEW s \in Calls, NEW badArgs \in BOOLEAN, NEW pic \in Images, NEW luck \in BOOLEAN,
           Idle(s)
    PROVE  Keeps(s, Header3(s, badArgs, pic, luck)) /\ Idle(Header3(s, badArgs, pic, luck))
<1> DEFINE c == Checked(Enter(s), "decompress", badArgs)
           a == ReadHeader(c, pic, luck)
           t == ThrowIf(DAbort(a), OddLayout(a))
<1>1. Same(s, c)
  BY EnterSame, CheckedSame, SameSame DEF Same, Keeps
<1>2. /\ Keeps(c, a) /\ SameC(c, a) /\ a.this.dstate \in {c.this.dstate, "inheader", "ready"}
      /\ ~a.jump => a.this.dstate = "ready"
  BY <1>1, ReadHeaderReads DEF Same, Keeps
<1>3. /\ DAbort(a) \in Calls /\ SameC(a, DAbort(a)) /\ DAbort(a).this.init = a.this.init
      /\ DAbort(a).this.dstate = "start"
  BY <1>2, DAbortTyped DEF Keeps
<1>4. Same(DAbort(a), t) /\ Same(t, Got(t))
  BY <1>3, ThrowIfSame, GotSame DEF OddLayout, Same, Keeps
<1>5. Header3(s, badArgs, pic, luck) = IF a.jump THEN a ELSE Got(t)
  BY DEF Header3
<1> HIDE DEF c, a, t
<1> QED BY <1>1, <1>2, <1>3, <1>4, <1>5 DEF Same, Keeps, SameC, SameD, Idle

(* tjDecompress2, in which nothing escapes the label bailout.              *)
LEMMA Decompress2Idle ==
    ASSUME NEW s \in Calls, NEW badArgs \in BOOLEAN, NEW pic \in Images, NEW tooSmall \in BOOLEAN,
           NEW stop \in BOOLEAN, NEW luck \in BOOLEAN, Idle(s)
    PROVE  /\ Keeps(s, Decompress2(s, badArgs, pic, tooSmall, stop, luck))
           /\ Idle(Decompress2(s, badArgs, pic, tooSmall, stop, luck))
<1> DEFINE a == Checked(StopOn(Enter(s), stop), "decompress", badArgs)
           h == ReadHeader(a, pic, luck)
           b == ThrowIf(h, tooSmall)
           c == ReadImage(b, "scanning", FALSE)
           r == BailoutD(Got(c))
<1>1. Same(s, a)
  BY EnterCheckedSame
<1>2. Keeps(a, h) /\ SameC(a, h)
  BY <1>1, ReadHeaderReads DEF Same, Keeps
<1>3. Same(h, b)
  BY <1>2, ThrowIfSame DEF Keeps
<1>4. Keeps(b, c) /\ SameC(b, c)
  <2>1. b \in Calls /\ "scanning" \in DStates \ {"none"}
    BY <1>3 DEF Same, Keeps, DStates
  <2> QED BY <2>1, ReadImageKeeps
<1>5. Same(c, Got(c))
  BY <1>4, GotSame DEF Keeps
<1>6. Keeps(Got(c), r) /\ SameC(Got(c), r) /\ r.this.dstate \in {"none", "start"}
  BY <1>5, BailoutDIdle DEF Same, Keeps
<1>7. Decompress2(s, badArgs, pic, tooSmall, stop, luck) = r
  BY DEF Decompress2
<1> HIDE DEF a, h, b, c, r
<1> QED BY <1>1, <1>2, <1>3, <1>4, <1>5, <1>6, <1>7 DEF Same, Keeps, SameC, SameD, Idle

RawOut(s) == [s EXCEPT !.this.rawOut = TRUE]

(* raw_data_out is not a state of the object.                              *)
LEMMA RawOutSame ==
    ASSUME NEW s \in Calls
    PROVE  Same(s, RawOut(s))
  BY DEF RawOut, Same, Keeps, SameC, SameD, Calls, Instances

(* tjDecompressToYUVPlanes, which begins on an object that is READY.       *)
LEMMA ToYUVPlanesIdle ==
    ASSUME NEW s \in Calls, NEW tooSmall \in BOOLEAN, NEW stop \in BOOLEAN, Idle(s)
    PROVE  Keeps(s, ToYUVPlanes(s, tooSmall, stop)) /\ Idle(ToYUVPlanes(s, tooSmall, stop))
<1> DEFINE a == Checked(StopOn(Enter(s), stop), "decompress", FALSE)
           b == ThrowIf(a, OddLayout(a) \/ tooSmall \/ a.this.header.layout = "cmyk")
           c == IF b.jump THEN b ELSE RawOut(b)
           d == ReadImage(c, "raw", TRUE)
           r == BailoutD(Got(d))
<1>1. Same(s, a)
  BY EnterCheckedSame
<1>2. Same(a, b)
  BY <1>1, ThrowIfSame DEF Same, Keeps, OddLayout
<1>3. Same(b, c)
  BY <1>2, RawOutSame, SameOnes DEF Same, Keeps
<1>4. Keeps(c, d) /\ SameC(c, d)
  <2>1. c \in Calls /\ "raw" \in DStates \ {"none"}
    BY <1>3 DEF Same, Keeps, DStates
  <2> QED BY <2>1, ReadImageKeeps
<1>5. Same(d, Got(d))
  BY <1>4, GotSame DEF Keeps
<1>6. Keeps(Got(d), r) /\ SameC(Got(d), r) /\ r.this.dstate \in {"none", "start"}
  BY <1>5, BailoutDIdle DEF Same, Keeps
<1>7. ToYUVPlanes(s, tooSmall, stop) = r
  BY DEF ToYUVPlanes, RawOut
<1> HIDE DEF a, b, c, d, r
<1> QED BY <1>1, <1>2, <1>3, <1>4, <1>5, <1>6, <1>7 DEF Same, Keeps, SameC, SameD, Idle

(* tjDecompressToYUV2, with two ways out that abort nothing.               *)
LEMMA ToYUV2Idle ==
    ASSUME NEW s \in Calls, NEW badArgs \in BOOLEAN, NEW pic \in Images, NEW tooSmall \in BOOLEAN,
           NEW stop \in BOOLEAN, NEW luck \in BOOLEAN, Idle(s)
    PROVE  /\ Keeps(s, ToYUV2(s, badArgs, pic, tooSmall, stop, luck))
           /\ Idle(ToYUV2(s, badArgs, pic, tooSmall, stop, luck))
<1> DEFINE a == ThrowIf(StopOn(Enter(s), stop), badArgs)
           b == ReadHeader(a, pic, luck)
           c == ThrowIf(b, OddLayout(b) \/ tooSmall)
           r == ToYUV2(s, badArgs, pic, tooSmall, stop, luck)
<1>1. Same(s, a)
  BY EnterStopSame, ThrowIfSame, SameSame DEF Same, Keeps
<1>2. Keeps(a, b) /\ SameC(a, b) /\ b.this.dstate \in {a.this.dstate, "inheader", "ready"}
  BY <1>1, ReadHeaderReads DEF Same, Keeps
<1>3. Same(b, c)
  BY <1>2, ThrowIfSame DEF Keeps, OddLayout
<1>4. Idle(b) /\ Idle(c) /\ Keeps(s, b) /\ Keeps(s, c)
  <2> HIDE DEF a, b, c
  <2> QED BY <1>1, <1>2, <1>3 DEF Same, Keeps, SameC, SameD, Idle
<1>5. Same(c, StopOn(c, FALSE))
  BY <1>4, StopOnSame DEF Keeps
<1>6. Keeps(c, ToYUVPlanes(c, tooSmall, stop)) /\ Idle(ToYUVPlanes(c, tooSmall, stop))
  <2>1. c \in Calls
    BY <1>4 DEF Keeps
  <2> HIDE DEF c
  <2> QED BY <1>4, <2>1, ToYUVPlanesIdle
<1>7. r \in {StopOn(c, FALSE), b, ToYUVPlanes(c, tooSmall, stop)}
  BY DEF ToYUV2
<1> HIDE DEF a, b, c, r
<1>8. Keeps(s, r) /\ Idle(r)
  BY <1>4, <1>5, <1>6, <1>7 DEF Same, Keeps, SameC, SameD, Idle
<1> QED BY <1>8 DEF r

(* The header that tjDecodeYUVPlanes writes by hand, with the stubs. *)
ByHand(s, image) ==
    [s EXCEPT !.this.header = image, !.this.freed = FALSE, !.this.stubs = TRUE]
Stubs(s, old) == [s EXCEPT !.this.stubs = old]

(* The header written by hand changes no state.                            *)
LEMMA ByHandSame ==
    ASSUME NEW s \in Calls, NEW image \in Images
    PROVE  Same(s, ByHand(s, image))
  BY DEF ByHand, Same, Keeps, SameC, SameD, Calls, Instances

(* Nor does putting the marker reader back.                                *)
LEMMA StubsSame ==
    ASSUME NEW s \in Calls, NEW old \in BOOLEAN
    PROVE  Same(s, Stubs(s, old)) /\ Stubs(s, old).jump = s.jump
  BY DEF Stubs, Same, Keeps, SameC, SameD, Calls, Instances

(* The wrappers of the YUV functions change no object.                     *)
LEMMA WrapperSame ==
    ASSUME NEW s \in Calls, NEW badArgs \in BOOLEAN
    PROVE  Same(s, ThrowIf(EnterWrapper(s), badArgs))
<1> DEFINE t == EnterWrapper(s)
<1>1. Same(s, t) /\ t \in Calls
  BY EnterSame DEF Same, Keeps
<1>2. Same(t, ThrowIf(t, badArgs))
  BY <1>1, ThrowIfSame
<1> HIDE DEF t
<1>3. Same(s, ThrowIf(t, badArgs))
  BY <1>1, <1>2, SameSame
<1> QED BY <1>3 DEF t

(* tjDecodeYUV.                                                            *)
LEMMA DecodeYUVIdle ==
    ASSUME NEW s \in Calls, NEW badArgs \in BOOLEAN, NEW image \in Images, NEW cmyk \in BOOLEAN,
           NEW stop \in BOOLEAN, NEW luck \in BOOLEAN, Idle(s)
    PROVE  /\ Keeps(s, DecodeYUV(s, badArgs, image, cmyk, stop, luck))
           /\ Idle(DecodeYUV(s, badArgs, image, cmyk, stop, luck))
<1> DEFINE wrap == ThrowIf(EnterWrapper(s), badArgs)
           k == Checked(StopOn(Enter(wrap), stop), "decompress", FALSE)
           a == ThrowIf(k, cmyk)
           b == ByHand(a, image)
           c == ReadHeader(b, image, luck)
           d == Stubs(c, a.this.stubs)
           e == DAbort(d)
           r == DecodeYUV(s, badArgs, image, cmyk, stop, luck)
<1>1. Same(s, wrap) /\ wrap \in Calls
  <2>1. Same(s, wrap)
    BY WrapperSame
  <2> QED BY <2>1, Typed
<1>2. Same(wrap, k) /\ k \in Calls
  <2>1. Same(wrap, k)
    BY <1>1, EnterCheckedSame
  <2> QED BY <2>1, Typed
<1>3. Same(k, a) /\ a \in Calls
  <2>1. Same(k, a)
    BY <1>2, ThrowIfSame
  <2> QED BY <2>1, Typed
<1>4. Same(a, b) /\ b \in Calls
  <2>1. Same(a, b)
    BY <1>3, ByHandSame
  <2> QED BY <2>1, Typed
<1>5. Keeps(b, c) /\ SameC(b, c) /\ (~c.jump => c.this.dstate = "ready") /\ c \in Calls
  <2>1. Keeps(b, c) /\ SameC(b, c) /\ (~c.jump => c.this.dstate = "ready")
    BY <1>4, ReadHeaderReads
  <2> QED BY <2>1, Typed
<1>6. Same(c, d) /\ d.jump = c.jump
  <2>1. c \in Calls /\ a.this.stubs \in BOOLEAN
    BY <1>3, <1>5 DEF Same, Keeps, Calls, Instances
  <2> QED BY <2>1, StubsSame
<1>7. e \in Calls /\ SameC(d, e) /\ e.this.init = d.this.init /\ e.this.dstate = "start"
  BY <1>6, DAbortTyped DEF Same, Keeps
<1>8. Same(e, Got(e))
  BY <1>7, GotSame
<1>9. /\ Keeps(a, BailoutD(a)) /\ SameC(a, BailoutD(a)) /\ BailoutD(a).this.dstate \in {"none", "start"}
      /\ Keeps(c, BailoutD(c)) /\ SameC(c, BailoutD(c)) /\ BailoutD(c).this.dstate \in {"none", "start"}
      /\ Keeps(Got(e), BailoutD(Got(e))) /\ SameC(Got(e), BailoutD(Got(e)))
      /\ BailoutD(Got(e)).this.dstate \in {"none", "start"}
  BY <1>3, <1>5, <1>8, BailoutDIdle DEF Same, Keeps
<1>10. r \in {wrap, BailoutD(a), BailoutD(c)} \/ (~c.jump /\ r = BailoutD(Got(e)))
  BY DEF DecodeYUV, ByHand, Stubs
<1> HIDE DEF wrap, k, a, b, c, d, e, r
<1>11. Keeps(s, a) /\ Idle(a) /\ Keeps(s, c) /\ SameC(s, c)
  BY <1>1, <1>2, <1>3, <1>4, <1>5 DEF Same, Keeps, SameC, SameD, Idle
<1>12. CASE r \in {wrap, BailoutD(a), BailoutD(c)}
  <2>1. Keeps(s, r) /\ Idle(r)
    BY <1>1, <1>9, <1>11, <1>12 DEF Same, Keeps, SameC, SameD, Idle
  <2> QED BY <2>1 DEF r
<1>13. CASE ~c.jump /\ r = BailoutD(Got(e))
  <2>1. Keeps(s, r) /\ Idle(r)
    BY <1>5, <1>6, <1>7, <1>8, <1>9, <1>11, <1>13 DEF Same, Keeps, SameC, SameD, Idle
  <2> QED BY <2>1 DEF r
<1> QED BY <1>10, <1>12, <1>13 DEF r

(* tjCompress2 and tjCompressFromYUVPlanes, which leave the decompress     *)
(* object alone.                                                           *)
LEMMA CompressIdle ==
    ASSUME NEW s \in Calls, NEW badArgs \in BOOLEAN, NEW image, NEW stop \in BOOLEAN,
           NEW raw \in BOOLEAN, Idle(s)
    PROVE  /\ Keeps(s, Compress(s, badArgs, image, stop, raw))
           /\ Idle(Compress(s, badArgs, image, stop, raw))
<1> DEFINE a == Checked(StopOn(Enter(s), stop), "compress", badArgs)
           m == MemDest(a, image = "noBuffer")
           b == SetCompDefaults(m, raw)
           c == WriteImage(b, image, raw)
           r == BailoutC(c)
<1>1. Same(s, a) /\ a \in Calls
  <2>1. Same(s, a)
    BY EnterCheckedSame
  <2> QED BY <2>1, Typed
<1>2. Same(a, m) /\ m \in Calls
  <2>1. Same(a, m)
    BY <1>1, MemDestKeeps DEF Same
  <2> QED BY <2>1, Typed
<1>3. Same(m, b) /\ b \in Calls
  <2>1. Same(m, b)
    BY <1>2, SetCompDefaultsKeeps DEF Same
  <2> QED BY <2>1, Typed
<1>4. Keeps(b, c) /\ SameD(b, c) /\ c \in Calls
  <2>1. Keeps(b, c) /\ SameD(b, c)
    BY <1>3, WriteImageKeeps
  <2> QED BY <2>1, Typed
<1>5. Keeps(c, r) /\ SameD(c, r) /\ r.this.cstate \in {"none", "start"} /\ r \in Calls
  <2>1. Keeps(c, r) /\ SameD(c, r) /\ r.this.cstate \in {"none", "start"}
    BY <1>4, BailoutCIdle
  <2> QED BY <2>1, Typed
<1>6. Compress(s, badArgs, image, stop, raw) = r
  BY DEF Compress
<1> HIDE DEF a, m, b, c, r
<1> QED BY <1>1, <1>2, <1>3, <1>4, <1>5, <1>6 DEF Same, Keeps, SameC, SameD, Idle

(* tjCompressFromYUV.                                                      *)
LEMMA CompressFromYUVIdle ==
    ASSUME NEW s \in Calls, NEW badArgs \in BOOLEAN, NEW image, NEW stop \in BOOLEAN, Idle(s)
    PROVE  /\ Keeps(s, CompressFromYUV(s, badArgs, image, stop))
           /\ Idle(CompressFromYUV(s, badArgs, image, stop))
<1> DEFINE wrap == ThrowIf(EnterWrapper(s), badArgs)
           r == Compress(wrap, FALSE, image, stop, TRUE)
<1>1. Same(s, wrap) /\ wrap \in Calls
  <2>1. Same(s, wrap)
    BY WrapperSame
  <2> QED BY <2>1, Typed
<1>2. wrap \in Calls /\ Idle(wrap) /\ Keeps(s, wrap)
  <2> HIDE DEF wrap
  <2> QED BY <1>1 DEF Same, Keeps, SameC, SameD, Idle
<1>3. Keeps(wrap, r) /\ Idle(r) /\ r \in Calls
  <2>1. Keeps(wrap, r) /\ Idle(r)
    BY <1>2, CompressIdle
  <2> QED BY <2>1, Typed
<1>4. CompressFromYUV(s, badArgs, image, stop) \in {wrap, r}
  BY DEF CompressFromYUV
<1> HIDE DEF wrap, r
<1> QED BY <1>2, <1>3, <1>4 DEF Keeps, Idle

Unwarned(s) == [s EXCEPT !.this.warned = FALSE]

(* reset_error_mgr changes no object.                                      *)
LEMMA UnwarnedSame ==
    ASSUME NEW s \in Calls
    PROVE  Same(s, Unwarned(s))
  BY DEF Unwarned, Same, Keeps, SameC, SameD, Calls, Instances

(* tjEncodeYUV3.                                                           *)
LEMMA EncodeYUVIdle ==
    ASSUME NEW s \in Calls, NEW badArgs \in BOOLEAN, NEW image, NEW cmyk \in BOOLEAN,
           NEW stop \in BOOLEAN, Idle(s)
    PROVE  /\ Keeps(s, EncodeYUV(s, badArgs, image, cmyk, stop))
           /\ Idle(EncodeYUV(s, badArgs, image, cmyk, stop))
<1> DEFINE wrap == ThrowIf(EnterWrapper(s), badArgs)
           k == Checked(StopOn(Enter(wrap), stop), "compress", FALSE)
           a == ThrowIf(k, cmyk)
           b == SetCompDefaults(a, FALSE)
           c == ThrowIf(b, b.this.cstate # "start")
           d == Unwarned(c)
           x == ErrorExit(d)
           e == CAbort(d)
           r == EncodeYUV(s, badArgs, image, cmyk, stop)
<1>1. Same(s, wrap) /\ wrap \in Calls
  <2>1. Same(s, wrap)
    BY WrapperSame
  <2> QED BY <2>1, Typed
<1>2. Same(wrap, k) /\ k \in Calls
  <2>1. Same(wrap, k)
    BY <1>1, EnterCheckedSame
  <2> QED BY <2>1, Typed
<1>3. Same(k, a) /\ a \in Calls
  <2>1. Same(k, a)
    BY <1>2, ThrowIfSame
  <2> QED BY <2>1, Typed
<1>4. Same(a, b) /\ b \in Calls
  <2>1. Same(a, b)
    BY <1>3, SetCompDefaultsKeeps DEF Same
  <2> QED BY <2>1, Typed
<1>5. Same(b, c) /\ (~c.jump => b.this.cstate = "start") /\ c \in Calls
  <2>1. Same(b, c) /\ (~c.jump => b.this.cstate = "start")
    BY <1>4, ThrowIfSame
  <2> QED BY <2>1, Typed
<1>6. Same(c, d) /\ d \in Calls
  <2>1. Same(c, d)
    BY <1>5, UnwarnedSame
  <2> QED BY <2>1, Typed
<1>7. Same(d, x) /\ x \in Calls
  <2>1. Same(d, x)
    BY <1>6, ErrorExitKeeps DEF Same
  <2> QED BY <2>1, Typed
<1>8. e \in Calls /\ SameD(d, e) /\ e.this.init = d.this.init /\ e.this.cstate = "start"
  BY <1>6, CAbortTyped DEF Same, Keeps
<1>9. /\ Keeps(c, BailoutC(c)) /\ SameD(c, BailoutC(c)) /\ BailoutC(c).this.cstate \in {"none", "start"}
      /\ Keeps(x, BailoutC(x)) /\ SameD(x, BailoutC(x)) /\ BailoutC(x).this.cstate \in {"none", "start"}
      /\ Keeps(e, BailoutC(e)) /\ SameD(e, BailoutC(e)) /\ BailoutC(e).this.cstate \in {"none", "start"}
  BY <1>5, <1>7, <1>8, BailoutCIdle
<1>10. r \in {wrap, BailoutC(c)} \/ (~c.jump /\ r \in {BailoutC(x), BailoutC(e)})
  BY DEF EncodeYUV, Unwarned
<1> HIDE DEF wrap, k, a, b, c, d, x, e, r
<1>11. Same(s, b) /\ Same(s, c) /\ Same(s, x)
  BY <1>1, <1>2, <1>3, <1>4, <1>5, <1>6, <1>7 DEF Same, Keeps, SameC, SameD
<1>12. ~c.jump => Keeps(s, e) /\ SameD(s, e)
  BY <1>5, <1>6, <1>8, <1>11 DEF Same, Keeps, SameC, SameD
<1>13. Keeps(s, r) /\ Idle(r)
  BY <1>1, <1>9, <1>10, <1>11, <1>12 DEF Same, Keeps, SameC, SameD, Idle
<1> QED BY <1>13 DEF r

RawInOff(s) == [s EXCEPT !.this.rawIn = FALSE]

(* raw_data_in is not a state of the object.                               *)
LEMMA RawInOffSame ==
    ASSUME NEW s \in Calls
    PROVE  Same(s, RawInOff(s))
  BY DEF RawInOff, Same, Keeps, SameC, SameD, Calls, Instances

(* tjTransform, which has both objects under way.                          *)
LEMMA TransformIdle ==
    ASSUME NEW s \in Calls, NEW pic \in Images, NEW how, NEW stop \in BOOLEAN,
           NEW luck \in BOOLEAN, Idle(s)
    PROVE  Keeps(s, Transform(s, pic, how, stop, luck)) /\ Idle(Transform(s, pic, how, stop, luck))
<1> DEFINE k == Checked(StopOn(Enter(s), stop), "compress", how = "bad")
           a == Checked(k, "decompress", FALSE)
           b == ReadHeader(a, pic, luck)
           c == ThrowIf(b, OddLayout(b) \/ how = "imperfect")
           d == IF how = "crop" /\ ~c.jump THEN ErrorExit(c) ELSE c
           e == ReadImage(d, "stopping", FALSE)
           dest == MemDest(e, how = "noBuffer")
           w == WriteCoefficients(dest, how)
           f == IF how # "noOutput" THEN w ELSE IF e.jump THEN e ELSE RawInOff(e)
           g == Got(f)
           h == BailoutC(g)
           r == BailoutD(h)
<1>1. Same(s, k) /\ k \in Calls
  <2>1. Same(s, k)
    BY EnterCheckedSame
  <2> QED BY <2>1, Typed
<1>2. Same(k, a) /\ a \in Calls
  <2>1. Same(k, a)
    BY <1>1, CheckedSame
  <2> QED BY <2>1, Typed
<1>3. Keeps(a, b) /\ b \in Calls
  <2>1. Keeps(a, b)
    BY <1>2, ReadHeaderReads
  <2> QED BY <2>1, Typed
<1>4. Same(b, c) /\ c \in Calls
  <2>1. Same(b, c)
    BY <1>3, ThrowIfSame DEF OddLayout
  <2> QED BY <2>1, Typed
<1>5. Keeps(c, d) /\ d \in Calls
  <2>1. Keeps(c, d)
    BY <1>4, ErrorExitKeeps, SameOnes DEF Same
  <2> QED BY <2>1, Typed
<1>6. Keeps(d, e) /\ e \in Calls
  <2>1. d \in Calls /\ "stopping" \in DStates \ {"none"}
    BY <1>5 DEF Keeps, DStates
  <2>2. Keeps(d, e)
    BY <2>1, ReadImageKeeps
  <2> QED BY <2>2, Typed
<1>7. Same(e, dest) /\ dest \in Calls
  <2>1. Same(e, dest)
    BY <1>6, MemDestKeeps DEF Same
  <2> QED BY <2>1, Typed
<1>8. Keeps(dest, w) /\ w \in Calls
  <2>1. Keeps(dest, w)
    BY <1>7, WriteCoefficientsKeeps
  <2> QED BY <2>1, Typed
<1>9. Keeps(e, f) /\ f \in Calls
  <2>1. Same(e, RawInOff(e)) /\ Keeps(e, e)
    BY <1>6, RawInOffSame DEF Keeps
  <2> HIDE DEF e, dest, w
  <2> QED BY <1>7, <1>8, <2>1 DEF Same, Keeps
<1>10. Same(f, g) /\ g \in Calls
  <2>1. Same(f, g)
    BY <1>9, GotSame
  <2> QED BY <2>1, Typed
<1>11. Keeps(g, h) /\ h.this.cstate \in {"none", "start"} /\ h \in Calls
  <2>1. Keeps(g, h) /\ h.this.cstate \in {"none", "start"}
    BY <1>10, BailoutCIdle
  <2> QED BY <2>1, Typed
<1>12. Keeps(h, r) /\ SameC(h, r) /\ r.this.dstate \in {"none", "start"} /\ r \in Calls
  <2>1. Keeps(h, r) /\ SameC(h, r) /\ r.this.dstate \in {"none", "start"}
    BY <1>11, BailoutDIdle
  <2> QED BY <2>1, Typed
<1>13. Transform(s, pic, how, stop, luck) = r
  BY DEF Transform, RawInOff
<1> HIDE DEF k, a, b, c, d, e, dest, w, f, g, h, r
<1> QED BY <1>1, <1>2, <1>3, <1>4, <1>5, <1>6, <1>9, <1>10, <1>11, <1>12, <1>13
           DEF Same, Keeps, SameC, Idle

-----------------------------------------------------------------------------
(* The actions. *)

(* A call begins with the objects the last one left.                       *)
LEMMA CallTyped ==
    ASSUME TurboJpegTypeOK
    PROVE  /\ Call \in Calls /\ Idle(Call) /\ Call.this.init = this.init
           /\ Call.this.cstate = this.cstate /\ Call.this.dstate = this.dstate
  BY DEF TurboJpegTypeOK, Call, Calls, Idle, Aged, Instances, Images, NoImage, Texts

(* What a method leaves, when its function leaves idle objects. *)
LEMMA ReturnStep ==
    ASSUME TurboJpegTypeOK, NEW op \in Ops, NEW asked, NEW sound \in BOOLEAN,
           NEW s \in Calls, NEW error \in {-1, -2}, Keeps(Call, s), Idle(s),
           Return(op, asked, sound, s, error)
    PROVE  TurboJpegTypeOK'
<1>1. /\ s.this.init = this.init /\ (s.this.cstate = "none" <=> this.cstate = "none")
      /\ (s.this.dstate = "none" <=> this.dstate = "none")
  BY CallTyped DEF Keeps
<1>2. this' \in Instances /\ errStr' \in Texts
  BY DEF Return, Calls
<1>3. last' \in Results
  BY DEF Return, Calls, Results, Clean
<1>4. this'.cstate = IF "compress" \in this'.init THEN "start" ELSE "none"
  BY <1>1 DEF Return, TurboJpegTypeOK, Idle
<1>5. this'.dstate \in IF "decompress" \in this'.init THEN {"start", "inheader", "ready"} ELSE {"none"}
  BY <1>1 DEF Return, TurboJpegTypeOK, Idle
<1> QED BY <1>2, <1>3, <1>4, <1>5 DEF TurboJpegTypeOK

(* A new instance.                                                         *)
LEMMA CreateStep ==
    ASSUME TurboJpegTypeOK, NEW uses \in {{"compress"}, {"decompress"}, {"compress", "decompress"}},
           Create(uses)
    PROVE  TurboJpegTypeOK'
<1>1. /\ this'.init = uses
      /\ this'.cstate = IF "compress" \in uses THEN "start" ELSE "none"
      /\ this'.dstate = IF "decompress" \in uses THEN "start" ELSE "none"
  BY DEF Create, NewInstance
<1>2. this' \in Instances
  <2>1. NewInstance \in Instances
    BY DEF NewInstance, NoImage, Instances, CStates, DStates, Images, Texts
  <2>2. uses \in SUBSET {"compress", "decompress"}
    OBVIOUS
  <2>3. \A c \in CStates, d \in DStates :
          [NewInstance EXCEPT !.init = uses, !.cstate = c, !.dstate = d] \in Instances
    BY <2>1, <2>2 DEF Instances
  <2> QED BY <2>3 DEF Create, CStates, DStates
<1>3. errStr' \in Texts /\ last' \in Results
  BY DEF TurboJpegTypeOK, Create, NoCall, Results, Ops, DecompressOps
<1> QED BY <1>1, <1>2, <1>3 DEF TurboJpegTypeOK

(* No instance.                                                            *)
LEMMA DestroyStep ==
    ASSUME TurboJpegTypeOK, Destroy
    PROVE  TurboJpegTypeOK'
  BY DEF TurboJpegTypeOK, Destroy, NewInstance, NoCall, Instances, CStates, DStates, Images, Texts,
         Results, Ops, DecompressOps

(* The steps that touch neither object.                                    *)
LEMMA OtherSteps ==
    ASSUME TurboJpegTypeOK, Refused \/ TjGetErrorStr2 \/ OtherFails
    PROVE  TurboJpegTypeOK'
<1>1. CASE Refused
  BY <1>1 DEF TurboJpegTypeOK, Refused, NoCall, Results, Ops, DecompressOps
<1>2. CASE TjGetErrorStr2
  BY <1>2 DEF TurboJpegTypeOK, TjGetErrorStr2, NoCall, Results, Ops, DecompressOps, Instances
<1>3. CASE OtherFails
  BY <1>3 DEF TurboJpegTypeOK, OtherFails, Texts
<1> QED BY <1>1, <1>2, <1>3

(* The inputs of the methods are typed, and none is the picture of no call.  *)
LEMMA PictureTypes ==
    /\ \A flaw, pic : pic \in PicturesFor(flaw) => pic \in Images /\ pic # NoImage
    /\ \A image \in YUVImages : image \in Images /\ image # NoImage
    /\ Luck \subseteq BOOLEAN /\ \A pic : Stops(pic) \subseteq BOOLEAN
<1>1. \A flaw, pic : pic \in PicturesFor(flaw) => pic \in Pictures
  BY PicturesAssumption DEF PicturesFor
<1>2. \A pic \in Pictures : pic \in Images /\ pic # NoImage
  BY PicturesAssumption DEF Images, PictureType, NoImage
<1>3. \A image \in YUVImages : image \in Images /\ image # NoImage
  BY DEF Images, YUVImages, NoImage
<1> QED BY <1>1, <1>2, <1>3 DEF Luck, Stops

(* Every method with arguments is a function of turbojpeg.c, called on idle  *)
(* objects.                                                                 *)
LEMMA MethodStep ==
    ASSUME TurboJpegTypeOK,
           \/ TjDecompressHeader3 \/ TjDecompress2 \/ TjDecompressToYUV2 \/ TjDecodeYUV
           \/ TjCompress2 \/ TjCompressFromYUV \/ TjEncodeYUV3 \/ TjTransform
    PROVE  TurboJpegTypeOK'
<1>p. /\ \A flaw, pic : pic \in PicturesFor(flaw) => pic \in Images
      /\ YUVImages \subseteq Images /\ Luck \subseteq BOOLEAN
      /\ \A pic : Stops(pic) \subseteq BOOLEAN
  BY PictureTypes
<1>1. CASE TjDecompressHeader3
  <2> SUFFICES ASSUME NEW flaw \in {"none", "bad"}, NEW luck \in Luck, NEW pic \in PicturesFor(flaw),
                      Return("header", pic, flaw = "none" /\ Sound(pic) /\ Is("decompress"),
                             Header3(Call, flaw = "bad", pic, luck), -1)
               PROVE  TurboJpegTypeOK'
    BY <1>1 DEF TjDecompressHeader3
  <2> DEFINE t == Header3(Call, flaw = "bad", pic, luck)
             sound == flaw = "none" /\ Sound(pic) /\ Is("decompress")
  <2>1. Keeps(Call, t) /\ Idle(t)
    BY <1>p, CallTyped, Header3Idle
  <2>2. t \in Calls /\ sound \in BOOLEAN /\ "header" \in Ops
    BY <2>1, Typed DEF Ops, DecompressOps
  <2>3. Return("header", pic, sound, t, -1)
    OBVIOUS
  <2> HIDE DEF t, sound
  <2> QED BY <2>1, <2>2, <2>3, ReturnStep
<1>2. CASE TjDecompress2
  <2> SUFFICES ASSUME NEW flaw \in {"none", "bad", "small"}, NEW luck \in Luck, NEW pic \in PicturesFor(flaw), NEW stop \in Stops(pic),
                      Return("decompress", pic, flaw = "none" /\ Sound(pic) /\ Is("decompress"),
                             Decompress2(Call, flaw = "bad", pic, flaw = "small", stop, luck), -1)
               PROVE  TurboJpegTypeOK'
    BY <1>2 DEF TjDecompress2
  <2> DEFINE t == Decompress2(Call, flaw = "bad", pic, flaw = "small", stop, luck)
             sound == flaw = "none" /\ Sound(pic) /\ Is("decompress")
  <2>1. Keeps(Call, t) /\ Idle(t)
    BY <1>p, CallTyped, Decompress2Idle
  <2>2. t \in Calls /\ sound \in BOOLEAN /\ "decompress" \in Ops
    BY <2>1, Typed DEF Ops, DecompressOps
  <2>3. Return("decompress", pic, sound, t, -1)
    OBVIOUS
  <2> HIDE DEF t, sound
  <2> QED BY <2>1, <2>2, <2>3, ReturnStep
<1>3. CASE TjDecompressToYUV2
  <2> SUFFICES ASSUME NEW flaw \in {"none", "bad", "small"}, NEW luck \in Luck, NEW stop \in BOOLEAN, NEW pic \in PicturesFor(flaw),
                      Return("toYUV", pic, flaw = "none" /\ Sound(pic),
                             ToYUV2(Call, flaw = "bad", pic, flaw = "small", stop, luck), -1)
               PROVE  TurboJpegTypeOK'
    BY <1>3 DEF TjDecompressToYUV2
  <2> DEFINE t == ToYUV2(Call, flaw = "bad", pic, flaw = "small", stop, luck)
             sound == flaw = "none" /\ Sound(pic)
  <2>1. Keeps(Call, t) /\ Idle(t)
    BY <1>p, CallTyped, ToYUV2Idle
  <2>2. t \in Calls /\ sound \in BOOLEAN /\ "toYUV" \in Ops
    BY <2>1, Typed DEF Ops, DecompressOps
  <2>3. Return("toYUV", pic, sound, t, -1)
    OBVIOUS
  <2> HIDE DEF t, sound
  <2> QED BY <2>1, <2>2, <2>3, ReturnStep
<1>4. CASE TjDecodeYUV
  <2> SUFFICES ASSUME NEW flaw \in {"none", "bad", "cmyk"}, NEW luck \in Luck, NEW image \in YUVImages,
                      Return("decode", image, flaw = "none" /\ ~image.huge /\ Is("decompress"),
                             DecodeYUV(Call, flaw = "bad", image, flaw = "cmyk", FALSE, luck), -2)
               PROVE  TurboJpegTypeOK'
    BY <1>4 DEF TjDecodeYUV
  <2> DEFINE t == DecodeYUV(Call, flaw = "bad", image, flaw = "cmyk", FALSE, luck)
             sound == flaw = "none" /\ ~image.huge /\ Is("decompress")
  <2>1. Keeps(Call, t) /\ Idle(t)
    BY <1>p, CallTyped, DecodeYUVIdle
  <2>2. t \in Calls /\ sound \in BOOLEAN /\ "decode" \in Ops
    BY <2>1, Typed DEF Ops, DecompressOps
  <2>3. Return("decode", image, sound, t, -2)
    OBVIOUS
  <2> HIDE DEF t, sound
  <2> QED BY <2>1, <2>2, <2>3, ReturnStep
<1>5. CASE TjCompress2
  <2> SUFFICES ASSUME NEW bad \in BOOLEAN, NEW image \in {"ok", "huge", "noBuffer", "noMemory"},
                      Return("compress", NoImage, ~bad /\ image = "ok" /\ Is("compress"),
                             Compress(Call, bad, image, FALSE, FALSE), -1)
               PROVE  TurboJpegTypeOK'
    BY <1>5 DEF TjCompress2
  <2> DEFINE t == Compress(Call, bad, image, FALSE, FALSE)
             sound == ~bad /\ image = "ok" /\ Is("compress")
  <2>1. Keeps(Call, t) /\ Idle(t)
    BY <1>p, CallTyped, CompressIdle
  <2>2. t \in Calls /\ sound \in BOOLEAN /\ "compress" \in Ops
    BY <2>1, Typed DEF Ops, DecompressOps
  <2>3. Return("compress", NoImage, sound, t, -1)
    OBVIOUS
  <2> HIDE DEF t, sound
  <2> QED BY <2>1, <2>2, <2>3, ReturnStep
<1>6. CASE TjCompressFromYUV
  <2> SUFFICES ASSUME NEW bad \in BOOLEAN, NEW image \in {"ok", "huge", "noBuffer", "noMemory"},
                      Return("compressYUV", NoImage, ~bad /\ image = "ok" /\ Is("compress"),
                             CompressFromYUV(Call, bad, image, FALSE), -2)
               PROVE  TurboJpegTypeOK'
    BY <1>6 DEF TjCompressFromYUV
  <2> DEFINE t == CompressFromYUV(Call, bad, image, FALSE)
             sound == ~bad /\ image = "ok" /\ Is("compress")
  <2>1. Keeps(Call, t) /\ Idle(t)
    BY <1>p, CallTyped, CompressFromYUVIdle
  <2>2. t \in Calls /\ sound \in BOOLEAN /\ "compressYUV" \in Ops
    BY <2>1, Typed DEF Ops, DecompressOps
  <2>3. Return("compressYUV", NoImage, sound, t, -2)
    OBVIOUS
  <2> HIDE DEF t, sound
  <2> QED BY <2>1, <2>2, <2>3, ReturnStep
<1>7. CASE TjEncodeYUV3
  <2> SUFFICES ASSUME NEW bad \in BOOLEAN, NEW cmyk \in BOOLEAN, NEW image \in {"ok", "huge"},
                      Return("encode", NoImage, ~bad /\ ~cmyk /\ image = "ok" /\ Is("compress"),
                             EncodeYUV(Call, bad, image, cmyk, FALSE), -2)
               PROVE  TurboJpegTypeOK'
    BY <1>7 DEF TjEncodeYUV3
  <2> DEFINE t == EncodeYUV(Call, bad, image, cmyk, FALSE)
             sound == ~bad /\ ~cmyk /\ image = "ok" /\ Is("compress")
  <2>1. Keeps(Call, t) /\ Idle(t)
    BY <1>p, CallTyped, EncodeYUVIdle
  <2>2. t \in Calls /\ sound \in BOOLEAN /\ "encode" \in Ops
    BY <2>1, Typed DEF Ops, DecompressOps
  <2>3. Return("encode", NoImage, sound, t, -2)
    OBVIOUS
  <2> HIDE DEF t, sound
  <2> QED BY <2>1, <2>2, <2>3, ReturnStep
<1>8. CASE TjTransform
  <2> SUFFICES ASSUME NEW how \in {"none", "bad", "imperfect", "crop", "noOutput", "noBuffer", "noMemory"}, NEW luck \in Luck, NEW pic \in PicturesFor(how), NEW stop \in Stops(pic),
                      Return("transform", pic, how \in {"none", "noOutput"} /\ Sound(pic) /\ Is("decompress") /\ Is("compress"),
                             Transform(Call, pic, how, stop, luck), -1)
               PROVE  TurboJpegTypeOK'
    BY <1>8 DEF TjTransform
  <2> DEFINE t == Transform(Call, pic, how, stop, luck)
             sound == how \in {"none", "noOutput"} /\ Sound(pic) /\ Is("decompress") /\ Is("compress")
  <2>1. Keeps(Call, t) /\ Idle(t)
    BY <1>p, CallTyped, TransformIdle
  <2>2. t \in Calls /\ sound \in BOOLEAN /\ "transform" \in Ops
    BY <2>1, Typed DEF Ops, DecompressOps
  <2>3. Return("transform", pic, sound, t, -1)
    OBVIOUS
  <2> HIDE DEF t, sound
  <2> QED BY <2>1, <2>2, <2>3, ReturnStep
<1> QED BY <1>1, <1>2, <1>3, <1>4, <1>5, <1>6, <1>7, <1>8

(* The invariant is inductive as it stands.                                *)
LEMMA TypeStep ==
    ASSUME TurboJpegTypeOK, [TurboJpegNext]_tjvars
    PROVE  TurboJpegTypeOK'
<1>1. CASE TurboJpegNext
  BY <1>1, CreateStep, DestroyStep, OtherSteps, MethodStep DEF TurboJpegNext
<1>2. CASE UNCHANGED tjvars
  BY <1>2 DEF tjvars, TurboJpegTypeOK
<1> QED BY <1>1, <1>2

(* It holds before the first handle is made.                               *)
LEMMA TypeInit ==
    ASSUME TurboJpegInit
    PROVE  TurboJpegTypeOK
  BY DEF TurboJpegInit, TurboJpegTypeOK, NewInstance, NoImage, NoCall, Instances, CStates, DStates,
         Images, Texts, Results, Ops, DecompressOps

(* Whatever pictures a client passes and however its calls end, the compress *)
(* object is idle between two calls and the decompress object at most past  *)
(* a header; neither exists that the handle was not made with (turbojpeg.c, *)
(* the labels bailout).                                                     *)
THEOREM HandleStaysIdle == TurboJpegSpec => []TurboJpegTypeOK
<1>1. TurboJpegInit => TurboJpegTypeOK
  BY TypeInit
<1>2. TurboJpegTypeOK /\ [TurboJpegNext]_tjvars => TurboJpegTypeOK'
  BY TypeStep
<1> QED BY <1>1, <1>2, PTL DEF TurboJpegSpec

-----------------------------------------------------------------------------
(* A call under way that nothing has gone wrong with. *)
Good(s) == s \in Calls /\ ~s.jump /\ ~s.this.warning

(* What of the instance the next call of libjpeg goes by. *)
Alike(s, t) ==
    /\ t.this.init = s.this.init /\ t.this.stubs = s.this.stubs
    /\ SameC(s, t) /\ SameD(s, t)

(* A function begins without a warning and leaves the objects alone.       *)
LEMMA GoodEnter ==
    ASSUME NEW s \in Calls, ~s.jump, NEW stop \in BOOLEAN
    PROVE  /\ Good(Enter(s)) /\ Alike(s, Enter(s))
           /\ Good(StopOn(Enter(s), stop)) /\ Alike(s, StopOn(Enter(s), stop))
  BY DEF StopOn, Enter, Good, Alike, SameC, SameD, Calls, Instances

(* So does a wrapper whose arguments fit.                                  *)
LEMMA GoodWrapper ==
    ASSUME NEW s \in Calls, ~s.jump
    PROVE  /\ ThrowIf(EnterWrapper(s), FALSE) \in Calls /\ ~ThrowIf(EnterWrapper(s), FALSE).jump
           /\ Alike(s, ThrowIf(EnterWrapper(s), FALSE))
  BY DEF ThrowIf, EnterWrapper, Alike, SameC, SameD, Calls, Instances

(* Checks that find nothing do nothing.                                    *)
LEMMA GoodChecked ==
    ASSUME NEW s, NEW use
    PROVE  /\ ThrowIf(s, FALSE) = s
           /\ use \in s.this.init => Checked(s, use, FALSE) = s
  BY DEF ThrowIf, Checked

(* A clean object reads the header of a sound picture. *)
Ready(s, pic) ==
    /\ Good(s) /\ s.this.dstate = "ready" /\ s.this.header = pic
    /\ ~s.this.rawOut /\ ~s.this.stubs

(* jpeg_read_header on a clean object, whatever the reader remembers.      *)
LEMMA SoundHeader ==
    ASSUME NEW s, Good(s), NEW pic \in Images, NEW luck \in BOOLEAN, Sound(pic),
           s.this.dstate = "start", ~s.this.stubs
    PROVE  /\ Ready(ReadHeader(s, pic, luck), pic) /\ SameC(s, ReadHeader(s, pic, luck))
           /\ ReadHeader(s, pic, luck).this.init = s.this.init
<1> DEFINE t == [ResetInput(s) EXCEPT !.this.dstate = "inheader"]
           sos == [t EXCEPT !.this.reader = "inside", !.this.header = pic, !.this.freed = FALSE]
           r == [sos EXCEPT !.this.dstate = "ready", !.this.rawOut = FALSE]
<1>1. /\ t \in Calls /\ ~t.this.eoi /\ ~t.this.stubs /\ t.this.reader = "fresh"
      /\ ~t.jump /\ ~t.this.warning /\ SameC(s, t) /\ t.this.init = s.this.init
  BY DEF Good, ResetInput, SameC, Calls, Instances, DStates
<1>2. /\ sos \in Calls /\ ~sos.this.freed /\ sos.this.header = pic /\ ~sos.this.stubs
      /\ ~sos.jump /\ ~sos.this.warning /\ SameC(s, sos) /\ sos.this.init = s.this.init
  BY <1>1 DEF SameC, Calls, Instances
<1>3. /\ r \in Calls /\ r.this.header = pic /\ ~r.this.stubs /\ r.this.dstate = "ready" /\ ~r.this.rawOut
      /\ ~r.jump /\ ~r.this.warning /\ SameC(s, r) /\ r.this.init = s.this.init
  <2> HIDE DEF t, sos
  <2>1. r \in Calls
    BY <1>2 DEF Calls, Instances, DStates
  <2>2. /\ r.this.header = sos.this.header /\ r.this.stubs = sos.this.stubs /\ r.this.dstate = "ready"
        /\ ~r.this.rawOut /\ r.jump = sos.jump /\ r.this.warning = sos.this.warning
        /\ r.this.init = sos.this.init /\ r.this.cstate = sos.this.cstate
    BY <1>2 DEF Calls, Instances
  <2> HIDE DEF r
  <2> QED BY <1>2, <2>1, <2>2 DEF SameC
<1>4. ReadHeader(s, pic, luck) = ConsumeHeader(t, pic, luck)
  BY DEF ReadHeader, Good
<1>5. ConsumeHeader(t, pic, luck) = InitialSetup(sos, luck)
  BY <1>1 DEF ConsumeHeader, ReadMarkers, Sound
<1>6. InitialSetup(sos, luck) = r
  BY <1>2 DEF InitialSetup, Sound
<1> HIDE DEF t, sos, r
<1> QED BY <1>3, <1>4, <1>5, <1>6 DEF Ready, Good

(* And the picture, if it takes the data it has set the object up for. *)
LEMMA SoundImage ==
    ASSUME NEW s, NEW pic, Good(s), s.this.dstate = "ready", s.this.header = pic, ~s.this.stubs,
           Sound(pic), NEW running \in DStates, NEW raw \in BOOLEAN, s.this.rawOut = raw
    PROVE  /\ Good(ReadImage(s, running, raw)) /\ ReadImage(s, running, raw).this.header = pic
           /\ SameC(s, ReadImage(s, running, raw))
           /\ ReadImage(s, running, raw).this.init = s.this.init
<1> DEFINE t == [s EXCEPT !.this.dstate = running]
<1>1. t \in Calls /\ ~t.jump /\ ~t.this.warning /\ t.this.header = pic /\ SameC(s, t) /\ t.this.init = s.this.init
  BY DEF Good, SameC, Calls, Instances
<1>2. ReadImage(s, running, raw) = DAbort(t)
  BY DEF ReadImage, Good, Sound
<1> HIDE DEF t
<1> QED BY <1>1, <1>2, DAbortTyped DEF Good, SameC

(* What is done about the objects afterwards does not change the answer. *)
LEMMA AnswerKept ==
    ASSUME NEW s, Good(s)
    PROVE  /\ Good(BailoutC(s)) /\ BailoutC(s).got = s.got /\ BailoutC(s).this.header = s.this.header
           /\ Good(BailoutD(s)) /\ BailoutD(s).got = s.got
           /\ Good(Got(s)) /\ Got(s).got = s.this.header
           /\ Good(DAbort(s)) /\ DAbort(s).this.header = s.this.header
<1>1. Good(BailoutC(s)) /\ BailoutC(s).got = s.got /\ BailoutC(s).this.header = s.this.header
  BY DEF Good, BailoutC, CAbort, Calls, Instances, CStates
<1>2. Good(BailoutD(s)) /\ BailoutD(s).got = s.got
  BY DEF Good, BailoutD, DAbort, Calls, Instances, DStates
<1>3. Good(Got(s)) /\ Got(s).got = s.this.header
  BY DEF Good, Got, Calls, Instances
<1>4. Good(DAbort(s)) /\ DAbort(s).this.header = s.this.header
  BY DEF Good, DAbort, Calls, Instances, DStates
<1> QED BY <1>1, <1>2, <1>3, <1>4

(* A call that works on a picture: it succeeds, and the picture is its own. *)
Works(s, pic) == Good(s) /\ s.got = pic

(* A call on an object that is idle and reads its markers itself. *)
CleanCall(s) == s \in Calls /\ ~s.jump /\ s.this.dstate = "start" /\ ~s.this.stubs

(* tjDecompressHeader3 on a sound picture.                                 *)
LEMMA Header3Works ==
    ASSUME NEW s, CleanCall(s), "decompress" \in s.this.init, NEW pic \in Images, Sound(pic),
           NEW luck \in BOOLEAN
    PROVE  Works(Header3(s, FALSE, pic, luck), pic)
<1> DEFINE c == Enter(s)
           a == ReadHeader(c, pic, luck)
           t == DAbort(a)
<1>1. Good(c) /\ Alike(s, c)
  BY GoodEnter DEF CleanCall
<1>2. Ready(a, pic)
  BY <1>1, SoundHeader DEF CleanCall, Alike, SameD
<1>3. Good(t) /\ t.this.header = pic
  BY <1>2, AnswerKept DEF Ready
<1>4. Checked(c, "decompress", FALSE) = c
  BY <1>1, GoodChecked DEF Alike
<1>5. OddLayout(a) = FALSE
  BY <1>2 DEF OddLayout, Ready, Sound
<1>6. Header3(s, FALSE, pic, luck) = Got(t)
  BY <1>2, <1>4, <1>5, GoodChecked DEF Header3, Ready, Good
<1> HIDE DEF c, a, t
<1> QED BY <1>3, <1>6, AnswerKept DEF Works

(* tjDecompress2 on a sound picture.                                       *)
LEMMA Decompress2Works ==
    ASSUME NEW s, CleanCall(s), "decompress" \in s.this.init, NEW pic \in Images, Sound(pic),
           NEW stop \in BOOLEAN, NEW luck \in BOOLEAN
    PROVE  Works(Decompress2(s, FALSE, pic, FALSE, stop, luck), pic)
<1> DEFINE c == StopOn(Enter(s), stop)
           a == ReadHeader(c, pic, luck)
           i == ReadImage(a, "scanning", FALSE)
<1>1. Good(c) /\ Alike(s, c)
  BY GoodEnter DEF CleanCall
<1>2. Ready(a, pic)
  BY <1>1, SoundHeader DEF CleanCall, Alike, SameD
<1>3. Good(i) /\ i.this.header = pic
  <2>1. "scanning" \in DStates
    BY DEF DStates
  <2>2. /\ Good(a) /\ a.this.dstate = "ready" /\ a.this.header = pic /\ ~a.this.stubs
        /\ a.this.rawOut = FALSE
    <3> HIDE DEF a
    <3> QED BY <1>2 DEF Ready, Good, Calls, Instances
  <2> DEFINE raw == FALSE
  <2>3. raw \in BOOLEAN /\ a.this.rawOut = raw
    BY <2>2
  <2> HIDE DEF raw, a
  <2>4. Good(ReadImage(a, "scanning", raw)) /\ ReadImage(a, "scanning", raw).this.header = pic
    BY <2>1, <2>2, <2>3, SoundImage
  <2> QED BY <2>4 DEF raw
<1>4. Decompress2(s, FALSE, pic, FALSE, stop, luck) = BailoutD(Got(i))
  BY <1>1, GoodChecked DEF Decompress2, Alike
<1> HIDE DEF c, a, i
<1>5. Works(Got(i), pic)
  BY <1>3, AnswerKept DEF Works
<1> QED BY <1>4, <1>5, AnswerKept DEF Works

(* tjDecompressToYUVPlanes after the header of a sound picture.            *)
LEMMA ToYUVPlanesWorks ==
    ASSUME NEW s, NEW pic, Ready(s, pic), Sound(pic), "decompress" \in s.this.init,
           NEW stop \in BOOLEAN
    PROVE  Works(ToYUVPlanes(s, FALSE, stop), pic)
<1> DEFINE a == StopOn(Enter(s), stop)
           c == RawOut(a)
           i == ReadImage(c, "raw", TRUE)
<1>1. Good(a) /\ Alike(s, a) /\ a.this.header = pic
  <2>1. Good(a) /\ Alike(s, a)
    BY GoodEnter DEF Ready, Good
  <2>2. a.this.header = pic
    BY DEF StopOn, Enter, Ready, Good, Calls, Instances
  <2> QED BY <2>1, <2>2
<1>2. /\ Good(c) /\ c.this.dstate = "ready" /\ c.this.header = pic /\ ~c.this.stubs
      /\ c.this.rawOut = TRUE
  <2> HIDE DEF a
  <2> QED BY <1>1 DEF RawOut, Ready, Good, Alike, SameD, Calls, Instances
<1>3. Good(i) /\ i.this.header = pic
  <2>1. "raw" \in DStates
    BY DEF DStates
  <2> HIDE DEF c
  <2> QED BY <1>2, <2>1, SoundImage
<1>4. Checked(a, "decompress", FALSE) = a
  BY <1>1, GoodChecked DEF Alike
<1>5. (OddLayout(a) \/ FALSE \/ a.this.header.layout = "cmyk") = FALSE
  BY <1>1 DEF OddLayout, Sound
<1>6. ToYUVPlanes(s, FALSE, stop) = BailoutD(Got(i))
  BY <1>1, <1>4, <1>5, GoodChecked DEF ToYUVPlanes, RawOut, Good
<1> HIDE DEF a, c, i
<1>7. Works(Got(i), pic)
  BY <1>3, AnswerKept DEF Works
<1> QED BY <1>6, <1>7, AnswerKept DEF Works

(* tjDecompressToYUV2 on a sound picture.                                  *)
LEMMA ToYUV2Works ==
    ASSUME NEW s, CleanCall(s), "decompress" \in s.this.init, NEW pic \in Images, Sound(pic),
           NEW stop \in BOOLEAN, NEW luck \in BOOLEAN
    PROVE  Works(ToYUV2(s, FALSE, pic, FALSE, stop, luck), pic)
<1> DEFINE a == StopOn(Enter(s), stop)
           b == ReadHeader(a, pic, luck)
<1>1. Good(a) /\ Alike(s, a)
  BY GoodEnter DEF CleanCall
<1>2. Ready(b, pic) /\ b.this.init = a.this.init
  BY <1>1, SoundHeader DEF CleanCall, Alike, SameD
<1>3. (OddLayout(b) \/ FALSE) = FALSE
  BY <1>2 DEF OddLayout, Ready, Sound
<1>4. ToYUV2(s, FALSE, pic, FALSE, stop, luck) = ToYUVPlanes(b, FALSE, stop)
  BY <1>1, <1>2, <1>3, GoodChecked DEF ToYUV2, Good, Ready
<1> HIDE DEF a, b
<1> QED BY <1>1, <1>2, <1>4, ToYUVPlanesWorks DEF Alike

(* The header written by hand is not too big: with the stubs it is set up   *)
(* at once.                                                                 *)
LEMMA GivenHeader ==
    ASSUME NEW s, Good(s), NEW image \in Images, NEW luck \in BOOLEAN, ~image.huge,
           s.this.dstate = "start"
    PROVE  Good(ReadHeader(ByHand(s, image), image, luck))
           /\ ReadHeader(ByHand(s, image), image, luck).this.header = image
<1> DEFINE b == ByHand(s, image)
           t == [ResetInput(b) EXCEPT !.this.dstate = "inheader"]
           r == [t EXCEPT !.this.dstate = "ready", !.this.rawOut = FALSE]
<1>1. b \in Calls /\ b.this.header = image /\ ~b.this.freed /\ b.this.stubs /\ ~b.jump
      /\ ~b.this.warning /\ b.this.dstate = "start"
  BY DEF ByHand, Good, Calls, Instances
<1>2. t \in Calls /\ t.this.header = image /\ ~t.this.freed /\ t.this.stubs /\ ~t.jump
      /\ ~t.this.warning /\ ~t.this.eoi
  <2> HIDE DEF b
  <2> QED BY <1>1 DEF ResetInput, Calls, Instances, DStates
<1>3. r \in Calls /\ r.this.header = image /\ ~r.jump /\ ~r.this.warning
  <2> HIDE DEF t
  <2> QED BY <1>2 DEF Calls, Instances, DStates
<1>4. ReadHeader(b, image, luck) = ConsumeHeader(t, image, luck)
  <2> HIDE DEF b
  <2> QED BY <1>1 DEF ReadHeader, t
<1>5. ConsumeHeader(t, image, luck) = r
  <2> HIDE DEF t
  <2> QED BY <1>2 DEF ConsumeHeader, InitialSetup, r
<1> HIDE DEF b, t, r
<1> QED BY <1>3, <1>4, <1>5 DEF Good, b

(* tjDecodeYUV on a picture that is not too big.                           *)
LEMMA DecodeYUVWorks ==
    ASSUME NEW s, CleanCall(s), "decompress" \in s.this.init, NEW image \in Images, ~image.huge,
           NEW stop \in BOOLEAN, NEW luck \in BOOLEAN
    PROVE  Works(DecodeYUV(s, FALSE, image, FALSE, stop, luck), image)
<1> DEFINE wrap == ThrowIf(EnterWrapper(s), FALSE)
           a == StopOn(Enter(wrap), stop)
           c == ReadHeader(ByHand(a, image), image, luck)
           d == Stubs(c, a.this.stubs)
           e == DAbort(d)
<1>1. wrap \in Calls /\ ~wrap.jump /\ Alike(s, wrap)
  BY GoodWrapper DEF CleanCall
<1>2. Good(a) /\ Alike(wrap, a)
  <2> HIDE DEF wrap
  <2> QED BY <1>1, GoodEnter
<1>3. "decompress" \in a.this.init /\ a.this.dstate = "start"
  BY <1>1, <1>2 DEF Alike, SameD, CleanCall
<1>4. Good(c) /\ c.this.header = image
  <2> HIDE DEF a
  <2> QED BY <1>2, <1>3, GivenHeader
<1>5. Good(d) /\ d.this.header = image
  <2>1. a.this.stubs \in BOOLEAN
    BY <1>2 DEF Good, Calls, Instances
  <2> HIDE DEF a, c
  <2> QED BY <1>4, <2>1 DEF Stubs, Good, Calls, Instances
<1>6. DecodeYUV(s, FALSE, image, FALSE, stop, luck) = BailoutD(Got(e))
  <2>1. ThrowIf(Checked(a, "decompress", FALSE), FALSE) = a
    BY <1>3, GoodChecked
  <2>2. ~wrap.jump /\ ~a.jump /\ ~c.jump
    BY <1>1, <1>2, <1>4 DEF Good
  <2> QED BY <2>1, <2>2 DEF DecodeYUV, ByHand, Stubs
<1> HIDE DEF wrap, a, c, d, e
<1>7. Good(e) /\ e.this.header = image
  BY <1>5, AnswerKept DEF e
<1>8. Works(Got(e), image)
  BY <1>7, AnswerKept DEF Works
<1> QED BY <1>6, <1>8, AnswerKept DEF Works

-----------------------------------------------------------------------------
(* The same of the compress object. *)

(* The parameters of a compression, whatever raw_data_in was.              *)
LEMMA SoundDefaults ==
    ASSUME NEW s, Good(s), NEW raw \in BOOLEAN
    PROVE  /\ MemDest(s, FALSE) = s
           /\ Good(SetCompDefaults(s, raw)) /\ SetCompDefaults(s, raw).this.rawIn = raw
           /\ SameC(s, SetCompDefaults(s, raw))
  BY DEF Good, MemDest, SetCompDefaults, SameC, Calls, Instances

(* A picture is written in the mode its parameters were set for.           *)
LEMMA SoundWrite ==
    ASSUME NEW s, Good(s), s.this.cstate = "start", NEW raw \in BOOLEAN, s.this.rawIn = raw
    PROVE  Good(WriteImage(s, "ok", raw))
<1> DEFINE t == [s EXCEPT !.this.cstate = IF s.this.rawIn THEN "raw" ELSE "scanning",
                          !.this.warned = FALSE]
<1>1. t \in Calls /\ ~t.jump /\ ~t.this.warning
  BY DEF Good, Calls, Instances, CStates
<1>2. WriteImage(s, "ok", raw) = CAbort(t)
  BY DEF WriteImage, Good
<1>3. Good(CAbort(t))
  <2> HIDE DEF t
  <2> QED BY <1>1 DEF CAbort, Good, Calls, Instances, CStates
<1> QED BY <1>2, <1>3

(* Coefficients are written whatever the mode was.                         *)
LEMMA SoundCoefficients ==
    ASSUME NEW s, Good(s), s.this.cstate = "start"
    PROVE  /\ Good(WriteCoefficients(s, "none"))
           /\ WriteCoefficients(s, "none").this.header = s.this.header
<1> DEFINE t == [s EXCEPT !.this.cstate = "wrcoefs", !.this.rawIn = FALSE, !.this.warned = FALSE]
<1>1. t \in Calls /\ ~t.jump /\ ~t.this.warning /\ t.this.header = s.this.header
  BY DEF Good, Calls, Instances, CStates
<1>2. WriteCoefficients(s, "none") = CAbort(t)
  BY DEF WriteCoefficients, Good
<1>3. Good(CAbort(t)) /\ CAbort(t).this.header = t.this.header
  <2> HIDE DEF t
  <2> QED BY <1>1 DEF CAbort, Good, Calls, Instances, CStates
<1> QED BY <1>1, <1>2, <1>3

(* tjCompress2 and tjCompressFromYUVPlanes on a picture that fits.         *)
LEMMA CompressWorks ==
    ASSUME NEW s \in Calls, ~s.jump, s.this.cstate = "start", "compress" \in s.this.init,
           NEW stop \in BOOLEAN, NEW raw \in BOOLEAN
    PROVE  Good(Compress(s, FALSE, "ok", stop, raw))
<1> DEFINE a == StopOn(Enter(s), stop)
           b == SetCompDefaults(a, raw)
           w == WriteImage(b, "ok", raw)
<1>1. Good(a) /\ Alike(s, a)
  BY GoodEnter
<1>2. MemDest(a, FALSE) = a /\ Good(b) /\ b.this.rawIn = raw /\ SameC(a, b)
  <2> HIDE DEF a
  <2> QED BY <1>1, SoundDefaults
<1>3. b.this.cstate = "start"
  BY <1>1, <1>2 DEF Alike, SameC
<1>4. Good(w)
  <2> HIDE DEF b
  <2> QED BY <1>2, <1>3, SoundWrite
<1>5. Compress(s, FALSE, "ok", stop, raw) = BailoutC(w)
  BY <1>1, <1>2, GoodChecked DEF Compress, Alike
<1> HIDE DEF w
<1> QED BY <1>4, <1>5, AnswerKept

(* tjCompressFromYUV on a picture that fits.                               *)
LEMMA CompressFromYUVWorks ==
    ASSUME NEW s \in Calls, ~s.jump, s.this.cstate = "start", "compress" \in s.this.init,
           NEW stop \in BOOLEAN
    PROVE  Good(CompressFromYUV(s, FALSE, "ok", stop))
<1> DEFINE wrap == ThrowIf(EnterWrapper(s), FALSE)
<1>1. wrap \in Calls /\ ~wrap.jump /\ Alike(s, wrap)
  BY GoodWrapper
<1>2. CompressFromYUV(s, FALSE, "ok", stop) = Compress(wrap, FALSE, "ok", stop, TRUE)
  BY <1>1 DEF CompressFromYUV
<1> DEFINE raw == TRUE
<1>3. Compress(wrap, FALSE, "ok", stop, TRUE) = Compress(wrap, FALSE, "ok", stop, raw) /\ raw \in BOOLEAN
  OBVIOUS
<1> HIDE DEF wrap, raw
<1>4. Good(Compress(wrap, FALSE, "ok", stop, raw))
  BY <1>1, <1>3, CompressWorks DEF Alike, SameC
<1> QED BY <1>2, <1>3, <1>4

(* tjEncodeYUV3 on a picture that fits.                                    *)
LEMMA EncodeYUVWorks ==
    ASSUME NEW s \in Calls, ~s.jump, s.this.cstate = "start", "compress" \in s.this.init,
           NEW stop \in BOOLEAN
    PROVE  Good(EncodeYUV(s, FALSE, "ok", FALSE, stop))
<1> DEFINE raw == FALSE
           wrap == ThrowIf(EnterWrapper(s), FALSE)
           a == StopOn(Enter(wrap), stop)
           b == SetCompDefaults(a, raw)
           d == Unwarned(b)
           e == CAbort(d)
<1>0. raw \in BOOLEAN
  OBVIOUS
<1>1. wrap \in Calls /\ ~wrap.jump /\ Alike(s, wrap)
  BY GoodWrapper
<1>2. Good(a) /\ Alike(wrap, a)
  <2> HIDE DEF wrap
  <2> QED BY <1>1, GoodEnter
<1>3. Good(b) /\ SameC(a, b)
  <2> HIDE DEF a, raw
  <2> QED BY <1>0, <1>2, SoundDefaults
<1>4. b.this.cstate = "start"
  BY <1>1, <1>2, <1>3 DEF Alike, SameC
<1>5. EncodeYUV(s, FALSE, "ok", FALSE, stop) = BailoutC(e)
  <2>1. ThrowIf(Checked(a, "compress", FALSE), FALSE) = a
    BY <1>1, <1>2, GoodChecked DEF Alike
  <2>2. (b.this.cstate # "start") = FALSE
    BY <1>4
  <2>3. ThrowIf(b, b.this.cstate # "start") = b
    BY <2>2, GoodChecked
  <2>4. ~wrap.jump /\ ~b.jump
    BY <1>1, <1>3 DEF Good
  <2> QED BY <2>1, <2>3, <2>4 DEF EncodeYUV, Unwarned
<1> HIDE DEF wrap, a, b, raw
<1>6. Good(d)
  BY <1>3 DEF d, Unwarned, Good, Calls, Instances
<1> HIDE DEF d
<1>7. Good(e)
  BY <1>6 DEF e, CAbort, Good, Calls, Instances, CStates
<1> HIDE DEF e
<1> QED BY <1>5, <1>7, AnswerKept

(* tjTransform of a sound picture that is not cropped.                     *)
LEMMA TransformWorks ==
    ASSUME NEW s, CleanCall(s), s.this.cstate = "start", "decompress" \in s.this.init,
           "compress" \in s.this.init, NEW pic \in Images, Sound(pic),
           NEW how \in {"none", "noOutput"}, NEW stop \in BOOLEAN, NEW luck \in BOOLEAN
    PROVE  Works(Transform(s, pic, how, stop, luck), pic)
<1> DEFINE a == StopOn(Enter(s), stop)
           b == ReadHeader(a, pic, luck)
           raw == FALSE
           e == ReadImage(b, "stopping", raw)
           f == IF how = "none" THEN WriteCoefficients(e, how) ELSE RawInOff(e)
<1>1. Good(a) /\ Alike(s, a)
  BY GoodEnter DEF CleanCall
<1>2. Ready(b, pic) /\ SameC(a, b)
  BY <1>1, SoundHeader DEF CleanCall, Alike, SameD
<1>3. Good(e) /\ e.this.header = pic /\ SameC(b, e)
  <2>1. "stopping" \in DStates
    BY DEF DStates
  <2>2. raw \in BOOLEAN /\ Good(b) /\ b.this.dstate = "ready" /\ b.this.header = pic
        /\ ~b.this.stubs /\ b.this.rawOut = raw
    <3> HIDE DEF b
    <3> QED BY <1>2 DEF Ready, Good, Calls, Instances
  <2> HIDE DEF raw, b
  <2> QED BY <2>1, <2>2, SoundImage
<1>4. e.this.cstate = "start"
  BY <1>1, <1>2, <1>3 DEF Alike, SameC
<1>5. Good(f) /\ f.this.header = pic
  <2> HIDE DEF e
  <2>1. CASE how = "none"
    BY <2>1, <1>3, <1>4, SoundCoefficients
  <2>2. CASE how # "none"
    BY <2>2, <1>3 DEF RawInOff, Good, Calls, Instances
  <2> QED BY <2>1, <2>2
<1>6. Transform(s, pic, how, stop, luck) = BailoutD(BailoutC(Got(f)))
  <2>1. Checked(Checked(a, "compress", how = "bad"), "decompress", FALSE) = a
    <3>1. (how = "bad") = FALSE
      OBVIOUS
    <3> HIDE DEF a
    <3> QED BY <1>1, <3>1, GoodChecked DEF Alike
  <2>2. ThrowIf(b, OddLayout(b) \/ how = "imperfect") = b
    <3>1. (OddLayout(b) \/ how = "imperfect") = FALSE
      BY <1>2 DEF OddLayout, Ready, Sound
    <3> HIDE DEF b
    <3> QED BY <3>1, GoodChecked
  <2>3. MemDest(e, how = "noBuffer") = e
    <3>1. (how = "noBuffer") = FALSE
      OBVIOUS
    <3> HIDE DEF e
    <3> QED BY <3>1, <1>3, SoundDefaults
  <2>4. ~e.jump
    BY <1>3 DEF Good
  <2>5. how # "crop" /\ (how = "none" <=> how # "noOutput")
    OBVIOUS
  <2> QED BY <2>1, <2>2, <2>3, <2>4, <2>5 DEF Transform, RawInOff
<1> HIDE DEF a, b, e, f
<1>7. Works(Got(f), pic)
  BY <1>5, AnswerKept DEF Works
<1> DEFINE g == Got(f)
           h == BailoutC(g)
<1>8. Good(g) /\ g.got = pic
  BY <1>7 DEF Works
<1> HIDE DEF g
<1>9. Good(h) /\ h.got = pic
  BY <1>8, AnswerKept
<1> HIDE DEF h
<1>10. Works(BailoutD(h), pic)
  BY <1>9, AnswerKept DEF Works
<1> QED BY <1>6, <1>10 DEF g, h

-----------------------------------------------------------------------------
(* The answers. *)

(* What a clean handle gives to a call. *)
LEMMA CleanCallReady ==
    ASSUME TurboJpegTypeOK, Clean(this)
    PROVE  /\ Is("decompress") => CleanCall(Call)
           /\ Is("compress") => Call.this.cstate = "start"
           /\ ~Call.jump
<1>1. Call \in Calls /\ Call.this.cstate = this.cstate /\ Call.this.dstate = this.dstate
  BY CallTyped
<1>2. ~Call.jump /\ Call.this.stubs = this.stubs
  BY DEF Call, TurboJpegTypeOK, Instances
<1> QED BY <1>1, <1>2 DEF TurboJpegTypeOK, Clean, CleanCall, Is

(* What the client is told, when nothing went wrong.                       *)
LEMMA SoundReturn ==
    ASSUME NEW op, NEW asked, NEW sound \in BOOLEAN, NEW s, NEW error,
           Return(op, asked, sound, s, error),
           Clean(this) /\ sound => Good(s),
           Clean(this) /\ sound /\ op \in DecompressOps => s.got = asked /\ asked # NoImage
    PROVE  SoundCallSucceeds'
<1> SUFFICES ASSUME last'.clean, last'.sound
             PROVE  last'.ret = 0 /\ (last'.op \in DecompressOps => last'.got = "own")
  BY DEF SoundCallSucceeds, Failed
<1>1. Clean(this) /\ sound /\ last'.op = op
  BY DEF Return
<1>2. ~s.jump /\ ~s.this.warning
  BY <1>1 DEF Good
<1>3. last'.ret = 0
  BY <1>2 DEF Return
<1>4. op \in DecompressOps => last'.got = "own"
  BY <1>1 DEF Return
<1> QED BY <1>1, <1>3, <1>4

(* Every method with arguments: what makes it sound is what its function   *)
(* needs.                                                                  *)
LEMMA SoundMethodStep ==
    ASSUME TurboJpegTypeOK,
           \/ TjDecompressHeader3 \/ TjDecompress2 \/ TjDecompressToYUV2 \/ TjDecodeYUV
           \/ TjCompress2 \/ TjCompressFromYUV \/ TjEncodeYUV3 \/ TjTransform
    PROVE  SoundCallSucceeds'
<1> DEFINE no == FALSE
<1>0. no \in BOOLEAN /\ no = FALSE
  OBVIOUS
<1> HIDE DEF no
<1>p. /\ \A flaw, pic : pic \in PicturesFor(flaw) => pic \in Images /\ pic # NoImage
      /\ \A image \in YUVImages : image \in Images /\ image # NoImage
      /\ Luck \subseteq BOOLEAN /\ \A pic : Stops(pic) \subseteq BOOLEAN
  BY PictureTypes
<1>c. /\ Call \in Calls /\ Call.this.init = this.init
      /\ Clean(this) => /\ Is("decompress") => CleanCall(Call)
                        /\ Is("compress") => Call.this.cstate = "start"
                        /\ ~Call.jump
  BY CallTyped, CleanCallReady
<1>1. CASE TjDecompressHeader3
  <2> SUFFICES ASSUME NEW flaw \in {"none", "bad"}, NEW luck \in Luck, NEW pic \in PicturesFor(flaw),
                      Return("header", pic,
                             flaw = "none" /\ Sound(pic) /\ Is("decompress"),
                             Header3(Call, flaw = "bad", pic, luck), -1)
               PROVE  SoundCallSucceeds'
    BY <1>1 DEF TjDecompressHeader3
  <2> DEFINE t == Header3(Call, flaw = "bad", pic, luck)
             sound == flaw = "none" /\ Sound(pic) /\ Is("decompress")
  <2>1. ASSUME Clean(this), sound
        PROVE  Good(t) /\ t.got = pic
    <3>1. /\ CleanCall(Call) /\ "decompress" \in Call.this.init /\ Sound(pic)
          /\ pic \in Images /\ luck \in BOOLEAN
      BY <2>1, <1>p, <1>c DEF Is
    <3>2. t = Header3(Call, FALSE, pic, luck)
      BY <2>1, <1>0
    <3> HIDE DEF t
    <3> QED BY <3>1, <3>2, <1>0, Header3Works DEF Works
  <2>2. sound \in BOOLEAN /\ Return("header", pic, sound, t, -1)
    OBVIOUS
  <2>3. pic # NoImage
    BY <1>p
  <2> HIDE DEF t, sound
  <2> QED BY <2>1, <2>2, <2>3, SoundReturn
<1>2. CASE TjDecompress2
  <2> SUFFICES ASSUME NEW flaw \in {"none", "bad", "small"}, NEW luck \in Luck,
                      NEW pic \in PicturesFor(flaw), NEW stop \in Stops(pic),
                      Return("decompress", pic,
                             flaw = "none" /\ Sound(pic) /\ Is("decompress"),
                             Decompress2(Call, flaw = "bad", pic, flaw = "small", stop, luck), -1)
               PROVE  SoundCallSucceeds'
    BY <1>2 DEF TjDecompress2
  <2> DEFINE t == Decompress2(Call, flaw = "bad", pic, flaw = "small", stop, luck)
             sound == flaw = "none" /\ Sound(pic) /\ Is("decompress")
  <2>1. ASSUME Clean(this), sound
        PROVE  Good(t) /\ t.got = pic
    <3>1. /\ CleanCall(Call) /\ "decompress" \in Call.this.init /\ Sound(pic)
          /\ pic \in Images /\ luck \in BOOLEAN /\ stop \in BOOLEAN
      BY <2>1, <1>p, <1>c DEF Is
    <3>2. t = Decompress2(Call, FALSE, pic, FALSE, stop, luck)
      BY <2>1, <1>0
    <3>3. Works(Decompress2(Call, FALSE, pic, FALSE, stop, luck), pic)
      BY <3>1, Decompress2Works
    <3> QED BY <3>2, <3>3 DEF Works
  <2>2. sound \in BOOLEAN /\ Return("decompress", pic, sound, t, -1)
    OBVIOUS
  <2>3. pic # NoImage
    BY <1>p
  <2> HIDE DEF t, sound
  <2> QED BY <2>1, <2>2, <2>3, SoundReturn
<1>3. CASE TjDecompressToYUV2
  <2> SUFFICES ASSUME NEW flaw \in {"none", "bad", "small"}, NEW luck \in Luck, NEW stop \in BOOLEAN,
                      NEW pic \in PicturesFor(flaw), Is("decompress"),
                      Return("toYUV", pic,
                             flaw = "none" /\ Sound(pic),
                             ToYUV2(Call, flaw = "bad", pic, flaw = "small", stop, luck), -1)
               PROVE  SoundCallSucceeds'
    BY <1>3 DEF TjDecompressToYUV2
  <2> DEFINE t == ToYUV2(Call, flaw = "bad", pic, flaw = "small", stop, luck)
             sound == flaw = "none" /\ Sound(pic)
  <2>1. ASSUME Clean(this), sound
        PROVE  Good(t) /\ t.got = pic
    <3>1. /\ CleanCall(Call) /\ "decompress" \in Call.this.init /\ Sound(pic)
          /\ pic \in Images /\ luck \in BOOLEAN /\ stop \in BOOLEAN
      BY <2>1, <1>p, <1>c DEF Is
    <3>2. t = ToYUV2(Call, FALSE, pic, FALSE, stop, luck)
      BY <2>1, <1>0
    <3>3. Works(ToYUV2(Call, FALSE, pic, FALSE, stop, luck), pic)
      BY <3>1, ToYUV2Works
    <3> QED BY <3>2, <3>3 DEF Works
  <2>2. sound \in BOOLEAN /\ Return("toYUV", pic, sound, t, -1)
    OBVIOUS
  <2>3. pic # NoImage
    BY <1>p
  <2> HIDE DEF t, sound
  <2> QED BY <2>1, <2>2, <2>3, SoundReturn
<1>4. CASE TjDecodeYUV
  <2> SUFFICES ASSUME NEW flaw \in {"none", "bad", "cmyk"}, NEW luck \in Luck, NEW image \in YUVImages,
                      Return("decode", image,
                             flaw = "none" /\ ~image.huge /\ Is("decompress"),
                             DecodeYUV(Call, flaw = "bad", image, flaw = "cmyk", FALSE, luck), -2)
               PROVE  SoundCallSucceeds'
    BY <1>4 DEF TjDecodeYUV
  <2> DEFINE t == DecodeYUV(Call, flaw = "bad", image, flaw = "cmyk", FALSE, luck)
             sound == flaw = "none" /\ ~image.huge /\ Is("decompress")
  <2>1. ASSUME Clean(this), sound
        PROVE  Good(t) /\ t.got = image
    <3>1. /\ CleanCall(Call) /\ "decompress" \in Call.this.init /\ ~image.huge
          /\ image \in Images /\ luck \in BOOLEAN
      BY <2>1, <1>p, <1>c DEF Is
    <3>2. t = DecodeYUV(Call, FALSE, image, FALSE, no, luck)
      BY <2>1, <1>0
    <3> HIDE DEF t
    <3> QED BY <3>1, <3>2, <1>0, DecodeYUVWorks DEF Works
  <2>2. sound \in BOOLEAN /\ Return("decode", image, sound, t, -2)
    OBVIOUS
  <2>3. image # NoImage
    BY <1>p
  <2> HIDE DEF t, sound
  <2> QED BY <2>1, <2>2, <2>3, SoundReturn
<1>5. CASE TjCompress2
  <2> SUFFICES ASSUME NEW bad \in BOOLEAN, NEW image \in {"ok", "huge", "noBuffer", "noMemory"},
                      Return("compress", NoImage,
                             ~bad /\ image = "ok" /\ Is("compress"),
                             Compress(Call, bad, image, FALSE, FALSE), -1)
               PROVE  SoundCallSucceeds'
    BY <1>5 DEF TjCompress2
  <2> DEFINE t == Compress(Call, bad, image, FALSE, FALSE)
             sound == ~bad /\ image = "ok" /\ Is("compress")
  <2>1. ASSUME Clean(this), sound
        PROVE  Good(t)
    <3>1. /\ Call \in Calls /\ ~Call.jump /\ Call.this.cstate = "start"
          /\ "compress" \in Call.this.init
      BY <2>1, <1>c DEF Is
    <3>2. t = Compress(Call, FALSE, "ok", no, no)
      BY <2>1, <1>0
    <3> HIDE DEF t
    <3> QED BY <3>1, <3>2, <1>0, CompressWorks
  <2>2. sound \in BOOLEAN /\ Return("compress", NoImage, sound, t, -1)
    OBVIOUS
  <2>3. "compress" \notin DecompressOps
    BY DEF DecompressOps
  <2> HIDE DEF t, sound
  <2> QED BY <2>1, <2>2, <2>3, SoundReturn
<1>6. CASE TjCompressFromYUV
  <2> SUFFICES ASSUME NEW bad \in BOOLEAN, NEW image \in {"ok", "huge", "noBuffer", "noMemory"},
                      Return("compressYUV", NoImage,
                             ~bad /\ image = "ok" /\ Is("compress"),
                             CompressFromYUV(Call, bad, image, FALSE), -2)
               PROVE  SoundCallSucceeds'
    BY <1>6 DEF TjCompressFromYUV
  <2> DEFINE t == CompressFromYUV(Call, bad, image, FALSE)
             sound == ~bad /\ image = "ok" /\ Is("compress")
  <2>1. ASSUME Clean(this), sound
        PROVE  Good(t)
    <3>1. /\ Call \in Calls /\ ~Call.jump /\ Call.this.cstate = "start"
          /\ "compress" \in Call.this.init
      BY <2>1, <1>c DEF Is
    <3>2. t = CompressFromYUV(Call, FALSE, "ok", no)
      BY <2>1, <1>0
    <3> HIDE DEF t
    <3> QED BY <3>1, <3>2, <1>0, CompressFromYUVWorks
  <2>2. sound \in BOOLEAN /\ Return("compressYUV", NoImage, sound, t, -2)
    OBVIOUS
  <2>3. "compressYUV" \notin DecompressOps
    BY DEF DecompressOps
  <2> HIDE DEF t, sound
  <2> QED BY <2>1, <2>2, <2>3, SoundReturn
<1>7. CASE TjEncodeYUV3
  <2> SUFFICES ASSUME NEW bad \in BOOLEAN, NEW cmyk \in BOOLEAN, NEW image \in {"ok", "huge"},
                      Return("encode", NoImage,
                             ~bad /\ ~cmyk /\ image = "ok" /\ Is("compress"),
                             EncodeYUV(Call, bad, image, cmyk, FALSE), -2)
               PROVE  SoundCallSucceeds'
    BY <1>7 DEF TjEncodeYUV3
  <2> DEFINE t == EncodeYUV(Call, bad, image, cmyk, FALSE)
             sound == ~bad /\ ~cmyk /\ image = "ok" /\ Is("compress")
  <2>1. ASSUME Clean(this), sound
        PROVE  Good(t)
    <3>1. /\ Call \in Calls /\ ~Call.jump /\ Call.this.cstate = "start"
          /\ "compress" \in Call.this.init
      BY <2>1, <1>c DEF Is
    <3>2. t = EncodeYUV(Call, FALSE, "ok", FALSE, no)
      BY <2>1, <1>0
    <3> HIDE DEF t
    <3> QED BY <3>1, <3>2, <1>0, EncodeYUVWorks
  <2>2. sound \in BOOLEAN /\ Return("encode", NoImage, sound, t, -2)
    OBVIOUS
  <2>3. "encode" \notin DecompressOps
    BY DEF DecompressOps
  <2> HIDE DEF t, sound
  <2> QED BY <2>1, <2>2, <2>3, SoundReturn
<1>8. CASE TjTransform
  <2> SUFFICES ASSUME NEW how \in {"none", "bad", "imperfect", "crop", "noOutput", "noBuffer",
                                  "noMemory"},
                      NEW luck \in Luck, NEW pic \in PicturesFor(how), NEW stop \in Stops(pic),
                      Return("transform", pic,
                             /\ how \in {"none", "noOutput"} /\ Sound(pic)
                         /\ Is("decompress") /\ Is("compress"),
                             Transform(Call, pic, how, stop, luck), -1)
               PROVE  SoundCallSucceeds'
    BY <1>8 DEF TjTransform
  <2> DEFINE t == Transform(Call, pic, how, stop, luck)
             sound == how \in {"none", "noOutput"} /\ Sound(pic) /\ Is("decompress") /\ Is("compress")
  <2>1. ASSUME Clean(this), sound
        PROVE  Good(t) /\ t.got = pic
    <3>1. /\ CleanCall(Call) /\ Call.this.cstate = "start" /\ Sound(pic)
          /\ "decompress" \in Call.this.init /\ "compress" \in Call.this.init
          /\ pic \in Images /\ luck \in BOOLEAN /\ stop \in BOOLEAN /\ how \in {"none", "noOutput"}
      BY <2>1, <1>p, <1>c DEF Is
    <3> QED BY <3>1, TransformWorks DEF Works
  <2>2. sound \in BOOLEAN /\ Return("transform", pic, sound, t, -1)
    OBVIOUS
  <2>3. "transform" \notin DecompressOps
    BY DEF DecompressOps
  <2> HIDE DEF t, sound
  <2> QED BY <2>1, <2>2, <2>3, SoundReturn
<1> QED BY <1>1, <1>2, <1>3, <1>4, <1>5, <1>6, <1>7, <1>8

(* The other steps leave no call to answer for, or leave it as it is.      *)
LEMMA SoundStep ==
    ASSUME TurboJpegTypeOK, SoundCallSucceeds, [TurboJpegNext]_tjvars
    PROVE  SoundCallSucceeds'
<1>1. CASE \/ \E uses \in {{"compress"}, {"decompress"}, {"compress", "decompress"}} : Create(uses)
           \/ Destroy \/ Refused \/ TjGetErrorStr2
  <2>1. ~last'.clean
    <3>1. last' = NoCall \/ last' = [NoCall EXCEPT !.ret = -1, !.why = "refused"]
      BY <1>1 DEF Create, Destroy, Refused, TjGetErrorStr2
    <3>2. NoCall.clean = FALSE /\ [NoCall EXCEPT !.ret = -1, !.why = "refused"].clean = FALSE
      BY DEF NoCall
    <3>3. last'.clean = FALSE
      BY <3>1, <3>2, Zenon
    <3> QED BY <3>3
  <2> QED BY <2>1 DEF SoundCallSucceeds
<1>2. CASE OtherFails \/ UNCHANGED tjvars
  <2>1. last' = last
    BY <1>2 DEF OtherFails, tjvars
  <2> QED BY <2>1 DEF SoundCallSucceeds, Failed
<1> QED BY <1>1, <1>2, SoundMethodStep DEF TurboJpegNext

(* On a clean handle a call with a sound picture and fitting arguments       *)
(* succeeds and works on that picture, whatever the calls before it were,   *)
(* however they ended and whatever the threads of other handles did.        *)
THEOREM SoundCallsSucceed == TurboJpegSpec => []SoundCallSucceeds
<1>1. TurboJpegInit => SoundCallSucceeds
  BY DEF TurboJpegInit, SoundCallSucceeds, NoCall
<1>2. TurboJpegTypeOK /\ SoundCallSucceeds /\ [TurboJpegNext]_tjvars => SoundCallSucceeds'
  BY SoundStep
<1> QED BY <1>1, <1>2, HandleStaysIdle, PTL DEF TurboJpegSpec

-----------------------------------------------------------------------------
(* Whose picture a call works on. *)


(* What most pieces of a call do: the header in the object and what the call *)
(* has got are left, a call that is stopped stays stopped.                   *)
Leaves(s, t) ==
    /\ t \in Calls
    /\ t.this.stubs = s.this.stubs /\ t.this.header = s.this.header
    /\ t.got = s.got /\ (s.jump => t.jump)

(* What reading a header does: one that is not stopped holds the picture's,  *)
(* unless the stubs keep the one that was there.                             *)
Took(s, t, pic) ==
    /\ t \in Calls
    /\ t.this.stubs = s.this.stubs /\ (s.jump => t.jump)
    /\ ~t.jump /\ ~t.this.stubs => t.this.header = pic
    /\ ~t.jump /\ t.this.stubs => t.this.header = s.this.header

(* The header in the object is the picture's, or the call is stopped. *)
Holds(s, pic) == s \in Calls /\ (~s.jump /\ ~s.this.stubs => s.this.header = pic)

(* The picture the call answers about is the one it was given. *)
Owns(s, pic) == s \in Calls /\ (~s.jump /\ ~s.this.stubs => s.got = pic)

-----------------------------------------------------------------------------
(* The pieces. *)

(* A piece that does nothing leaves header and picture.                    *)
LEMMA LeavesOnes ==
    ASSUME NEW s \in Calls
    PROVE  Leaves(s, s)
  BY DEF Leaves

(* Leaves composes.                                                        *)
LEMMA LeavesLeaves ==
    ASSUME NEW s, NEW t, NEW u, Leaves(s, t), Leaves(t, u)
    PROVE  Leaves(s, u)
  BY DEF Leaves

(* A piece that leaves the header leaves what is known of it.              *)
LEMMA LeavesHolds ==
    ASSUME NEW s, NEW t, NEW pic, Leaves(s, t)
    PROVE  /\ Holds(s, pic) => Holds(t, pic)
           /\ Owns(s, pic) => Owns(t, pic)
  BY DEF Leaves, Holds, Owns

(* Nothing is asked of a call that is stopped.                             *)
LEMMA StoppedHolds ==
    ASSUME NEW s \in Calls, NEW pic, s.jump
    PROVE  Holds(s, pic) /\ Owns(s, pic)
  BY DEF Holds, Owns

(* The error manager. *)
LEMMA ErrorLeaves ==
    ASSUME NEW s \in Calls
    PROVE  /\ Leaves(s, ErrorExit(s)) /\ ErrorExit(s).jump
  BY DEF Leaves, ErrorExit, Calls, Texts

(* A warning leaves the header.                                            *)
LEMMA WarnLeaves ==
    ASSUME NEW s \in Calls, ~s.jump
    PROVE  Leaves(s, Warn(s))
  BY DEF Leaves, Warn, Calls, Texts, Instances

(* What libjpeg changes of an object besides its header. *)
LEMMA DStateLeaves ==
    ASSUME NEW s \in Calls, NEW d \in DStates
    PROVE  /\ Leaves(s, [s EXCEPT !.this.dstate = d])
           /\ ([s EXCEPT !.this.dstate = d]).jump = s.jump
  BY DEF Leaves, Calls, Instances

(* The data modes of the two objects are not the header.                   *)
LEMMA FieldsLeave ==
    ASSUME NEW s \in Calls
    PROVE  Leaves(s, RawOut(s)) /\ Leaves(s, RawInOff(s))
  BY DEF Leaves, RawOut, RawInOff, Calls, Instances

(* jpeg_abort leaves the header in the object.                             *)
LEMMA AbortLeaves ==
    ASSUME NEW s \in Calls
    PROVE  /\ Leaves(s, DAbort(s)) /\ DAbort(s).jump = s.jump
           /\ Leaves(s, CAbort(s))
  BY DEF Leaves, DAbort, CAbort, Calls, Instances, DStates, CStates

(* The entry of a function. *)
LEMMA EnterLeaves ==
    ASSUME NEW s \in Calls, NEW stop \in BOOLEAN
    PROVE  /\ Leaves(s, Enter(s)) /\ Leaves(s, EnterWrapper(s)) /\ Leaves(s, StopOn(s, stop))
           /\ Leaves(s, StopOn(Enter(s), stop))
  BY DEF Leaves, Enter, EnterWrapper, StopOn, Calls, Instances

(* So do the labels bailout.                                               *)
LEMMA BailoutLeaves ==
    ASSUME NEW s \in Calls
    PROVE  Leaves(s, BailoutD(s)) /\ Leaves(s, BailoutC(s))
<1> DEFINE d == IF s.this.dstate \in {"none", "start"} THEN s ELSE DAbort(s)
           c == IF s.this.cstate \in {"none", "start"} THEN s ELSE CAbort(s)
           no == FALSE
<1>1. no \in BOOLEAN /\ BailoutD(s) = StopOn(d, no) /\ BailoutC(s) = StopOn(c, no)
  BY DEF BailoutD, BailoutC, StopOn
<1>2. Leaves(s, d) /\ Leaves(s, c)
  BY AbortLeaves, LeavesOnes
<1> HIDE DEF d, c, no
<1>3. Leaves(d, StopOn(d, no)) /\ Leaves(c, StopOn(c, no))
  BY <1>1, <1>2, EnterLeaves DEF Leaves
<1> QED BY <1>1, <1>2, <1>3, LeavesLeaves

(* THROW stops the call and leaves the header.                             *)
LEMMA ThrowLeaves ==
    ASSUME NEW s \in Calls, NEW bad \in BOOLEAN
    PROVE  Leaves(s, ThrowIf(s, bad))
<1> DEFINE t == [s EXCEPT !.this.text = "error", !.this.isInstanceError = TRUE,
                          !.errStr = "error", !.why = "error", !.jump = TRUE]
<1>1. Leaves(s, t)
  BY DEF Leaves, Calls, Instances, Texts
<1> QED BY <1>1, LeavesOnes DEF ThrowIf

(* The checks of the instance leave the header.                            *)
LEMMA CheckedLeaves ==
    ASSUME NEW s \in Calls, NEW use, NEW bad \in BOOLEAN
    PROVE  Leaves(s, Checked(s, use, bad))
  BY ThrowLeaves DEF Checked

(* The beginning of a function leaves the header.                          *)
LEMMA StartLeaves ==
    ASSUME NEW s \in Calls, NEW stop \in BOOLEAN, NEW use, NEW bad \in BOOLEAN
    PROVE  Leaves(s, Checked(StopOn(Enter(s), stop), use, bad))
<1> DEFINE t == StopOn(Enter(s), stop)
<1>1. Leaves(s, t) /\ t \in Calls
  BY EnterLeaves DEF Leaves
<1> HIDE DEF t
<1>2. Leaves(t, Checked(t, use, bad))
  BY <1>1, CheckedLeaves
<1>3. Leaves(s, Checked(t, use, bad))
  BY <1>1, <1>2, LeavesLeaves
<1> QED BY <1>3 DEF t

(* A call takes for its answer the header the object holds. *)
LEMMA GotOwns ==
    ASSUME NEW s, NEW pic, Holds(s, pic)
    PROVE  Owns(Got(s), pic)
  BY DEF Holds, Owns, Got, Calls, Instances

-----------------------------------------------------------------------------
(* jpeg_read_header. *)

(* initial_setup works on the header that is there.                        *)
LEMMA SetupLeaves ==
    ASSUME NEW s \in Calls, NEW luck \in BOOLEAN
    PROVE  Leaves(s, InitialSetup(s, luck))
<1>1. Leaves(s, [s EXCEPT !.this.dstate = "ready", !.this.rawOut = FALSE])
  BY DEF Leaves, Calls, Instances, DStates
<1> QED BY <1>1, ErrorLeaves DEF InitialSetup

(* The data that ends before a picture stops the call. *)
LEMMA EndOfDataStops ==
    ASSUME NEW s \in Calls
    PROVE  /\ EndOfData(s) \in Calls /\ EndOfData(s).jump
           /\ EndOfData(s).this.stubs = s.this.stubs
<1> DEFINE u == [s EXCEPT !.this.reader = "inside"]
           t == Warn(u)
           v == [t EXCEPT !.this.eoi = TRUE]
<1>1. u \in Calls /\ u.this.stubs = s.this.stubs
  BY DEF Calls, Instances
<1>2. t \in Calls /\ t.this.stubs = u.this.stubs
  <2> HIDE DEF u
  <2> QED BY <1>1 DEF Warn, Calls, Instances, Texts
<1>3. v \in Calls /\ v.this.stubs = t.this.stubs
  <2> HIDE DEF t
  <2> QED BY <1>2 DEF Calls, Instances
<1>4. Leaves(v, ErrorExit(v)) /\ ErrorExit(v).jump
  BY <1>3, ErrorLeaves
<1>5. EndOfData(s) = IF t.jump THEN t ELSE ErrorExit(v)
  BY DEF EndOfData
<1> HIDE DEF u, t, v
<1> QED BY <1>1, <1>2, <1>3, <1>4, <1>5 DEF Leaves

(* A header that stops the call is not taken.                              *)
LEMMA StoppedTakes ==
    ASSUME NEW s, NEW t \in Calls, NEW pic, t.jump, t.this.stubs = s.this.stubs
    PROVE  Took(s, t, pic)
  BY DEF Took

(* SOS: what follows it leaves the header it has brought. *)
LEMMA SosTakes ==
    ASSUME NEW s, NEW sos, NEW t, NEW pic, ~s.jump, ~s.this.stubs,
           sos.this.header = pic, sos.this.stubs = s.this.stubs, Leaves(sos, t)
    PROVE  Took(s, t, pic)
  BY DEF Took, Leaves

(* The markers up to SOS: whatever an earlier header left in the reader,   *)
(* either the call stops or the header is this picture's.                  *)
LEMMA ReadMarkersTakes ==
    ASSUME NEW s \in Calls, ~s.jump, ~s.this.stubs, NEW pic \in Images, NEW luck \in BOOLEAN
    PROVE  Took(s, ReadMarkers(s, pic, luck), pic)
<1> DEFINE sos == [s EXCEPT !.this.reader = "inside", !.this.header = pic, !.this.freed = FALSE]
           stuck == [s EXCEPT !.this.reader = "stuck"]
           warned == Warn(sos)
           r == ReadMarkers(s, pic, luck)
<1>1. /\ sos \in Calls /\ ~sos.jump /\ sos.this.header = pic
      /\ sos.this.stubs = s.this.stubs
      /\ stuck \in Calls /\ stuck.this.stubs = s.this.stubs
  BY DEF Calls, Instances
<1>2. Leaves(sos, warned) /\ warned \in Calls /\ Leaves(sos, InitialSetup(sos, luck))
  <2> HIDE DEF sos
  <2> QED BY <1>1, WarnLeaves, SetupLeaves DEF Leaves
<1>3. Leaves(sos, InitialSetup(warned, luck))
  <2> HIDE DEF sos, warned
  <2>1. Leaves(warned, InitialSetup(warned, luck))
    BY <1>2, SetupLeaves
  <2> QED BY <1>2, <2>1, LeavesLeaves
<1>4. r \in {ErrorExit(s), ErrorExit(stuck), EndOfData(s), warned,
             InitialSetup(warned, luck), InitialSetup(sos, luck)}
  BY DEF ReadMarkers
<1> HIDE DEF sos, stuck, warned, r
<1>5. Took(s, ErrorExit(s), pic) /\ Took(s, EndOfData(s), pic)
  BY ErrorLeaves, EndOfDataStops, StoppedTakes DEF Leaves
<1>6. Took(s, ErrorExit(stuck), pic)
  <2>1. /\ ErrorExit(stuck) \in Calls /\ ErrorExit(stuck).jump
        /\ ErrorExit(stuck).this.stubs = s.this.stubs
    BY <1>1, ErrorLeaves DEF Leaves
  <2> QED BY <2>1, StoppedTakes
<1>7. /\ Took(s, warned, pic) /\ Took(s, InitialSetup(warned, luck), pic)
      /\ Took(s, InitialSetup(sos, luck), pic)
  BY <1>1, <1>2, <1>3, SosTakes
<1>8. Took(s, r, pic)
  BY <1>4, <1>5, <1>6, <1>7
<1> QED BY <1>8 DEF r

(* The same with the stubs, which keep the header that is there.           *)
LEMMA ConsumeHeaderTakes ==
    ASSUME NEW s \in Calls, ~s.jump, NEW pic \in Images, NEW luck \in BOOLEAN
    PROVE  Took(s, ConsumeHeader(s, pic, luck), pic)
<1>1. Leaves(s, ErrorExit(s)) /\ ErrorExit(s).jump /\ Leaves(s, InitialSetup(s, luck))
  BY ErrorLeaves, SetupLeaves
<1>2. CASE s.this.eoi
  BY <1>1, <1>2 DEF ConsumeHeader, Took, Leaves
<1>3. CASE ~s.this.eoi /\ s.this.stubs
  BY <1>1, <1>3 DEF ConsumeHeader, Took, Leaves
<1>4. CASE ~s.this.eoi /\ ~s.this.stubs
  BY <1>4, ReadMarkersTakes DEF ConsumeHeader
<1> QED BY <1>2, <1>3, <1>4

(* In whatever state the calls before left the object: it takes the header   *)
(* of this picture or stops the call.                                        *)
LEMMA ReadHeaderTakes ==
    ASSUME NEW s \in Calls, NEW pic \in Images, NEW luck \in BOOLEAN
    PROVE  Took(s, ReadHeader(s, pic, luck), pic)
<1> DEFINE t == [ResetInput(s) EXCEPT !.this.dstate = "inheader"]
<1>1. CASE s.jump
  BY <1>1 DEF ReadHeader, Took
<1>2. CASE ~s.jump /\ s.this.dstate = "start"
  <2>1. /\ t \in Calls /\ t.jump = s.jump /\ t.this.stubs = s.this.stubs
        /\ t.this.header = s.this.header
    BY DEF ResetInput, Calls, Instances, DStates
  <2>2. ReadHeader(s, pic, luck) = ConsumeHeader(t, pic, luck)
    BY <1>2 DEF ReadHeader
  <2> HIDE DEF t
  <2>3. Took(t, ConsumeHeader(t, pic, luck), pic)
    BY <1>2, <2>1, ConsumeHeaderTakes
  <2> QED BY <2>1, <2>2, <2>3 DEF Took
<1>3. CASE ~s.jump /\ s.this.dstate = "inheader"
  BY <1>3, ConsumeHeaderTakes DEF ReadHeader
<1>4. CASE ~s.jump /\ s.this.dstate \notin {"start", "inheader"}
  <2>1. ReadHeader(s, pic, luck) = ErrorExit(s)
    BY <1>4 DEF ReadHeader
  <2> QED BY <2>1, ErrorLeaves DEF Took, Leaves
<1> QED BY <1>1, <1>2, <1>3, <1>4

(* A header that was taken is held.                                        *)
LEMMA TookHolds ==
    ASSUME NEW s, NEW t, NEW pic, Took(s, t, pic)
    PROVE  Holds(t, pic) /\ t.this.stubs = s.this.stubs
  BY DEF Took, Holds

(* The rows are read without a look at another header. *)
LEMMA ReadImageLeaves ==
    ASSUME NEW s \in Calls, NEW running \in DStates, NEW raw \in BOOLEAN
    PROVE  Leaves(s, ReadImage(s, running, raw))
<1> DEFINE t == [s EXCEPT !.this.dstate = running]
           u == [t EXCEPT !.this.dstate = "stopping"]
           damaged == Warn(t)
           r == ReadImage(s, running, raw)
<1>1. CASE s.jump
  BY <1>1, LeavesOnes DEF ReadImage
<1>2. CASE ~s.jump
  <2>1. Leaves(s, t) /\ t.jump = s.jump /\ t \in Calls
    BY DStateLeaves DEF Leaves
  <2>2. Leaves(t, u) /\ u \in Calls
    <3>1. "stopping" \in DStates
      BY DEF DStates
    <3>2. t \in Calls
      BY <2>1
    <3> HIDE DEF t
    <3> QED BY <3>1, <3>2, DStateLeaves DEF Leaves
  <2>3. Leaves(t, damaged) /\ damaged \in Calls
    <3> HIDE DEF t
    <3> QED BY <1>2, <2>1, WarnLeaves DEF Leaves
  <2>4. r \in {ErrorExit(s), ErrorExit(u), ErrorExit(t), damaged, DAbort(damaged), DAbort(t)}
    BY <1>2 DEF ReadImage
  <2> HIDE DEF t, u, damaged, r
  <2>5. /\ Leaves(s, ErrorExit(s)) /\ Leaves(u, ErrorExit(u)) /\ Leaves(t, ErrorExit(t))
        /\ Leaves(damaged, DAbort(damaged)) /\ Leaves(t, DAbort(t))
    BY <2>1, <2>2, <2>3, ErrorLeaves, AbortLeaves
  <2>6. Leaves(s, r)
    BY <2>1, <2>2, <2>3, <2>4, <2>5 DEF Leaves
  <2> QED BY <2>6 DEF r
<1> QED BY <1>1, <1>2

(* The output of a transformation. *)
LEMMA OutputLeaves ==
    ASSUME NEW s \in Calls, NEW noRealloc \in BOOLEAN, NEW how
    PROVE  Leaves(s, MemDest(s, noRealloc)) /\ Leaves(s, WriteCoefficients(s, how))
<1> DEFINE t == [s EXCEPT !.this.cstate = "wrcoefs", !.this.rawIn = FALSE, !.this.warned = FALSE]
<1>1. Leaves(s, s) /\ Leaves(s, ErrorExit(s))
  BY LeavesOnes, ErrorLeaves
<1>2. Leaves(s, t) /\ t \in Calls
  BY DEF Leaves, Calls, Instances, CStates
<1>3. WriteCoefficients(s, how) \in {s, ErrorExit(s), ErrorExit(t), CAbort(t)}
  BY DEF WriteCoefficients
<1> HIDE DEF t
<1>4. Leaves(t, ErrorExit(t)) /\ Leaves(t, CAbort(t))
  BY <1>2, ErrorLeaves, AbortLeaves
<1>5. Leaves(s, ErrorExit(t)) /\ Leaves(s, CAbort(t))
  BY <1>2, <1>4, LeavesLeaves
<1> QED BY <1>1, <1>3, <1>5 DEF MemDest

-----------------------------------------------------------------------------
(* The functions of turbojpeg.c that take a picture. *)

(* tjDecompressHeader3 answers about its own picture.                      *)
LEMMA Header3Owns ==
    ASSUME NEW s \in Calls, NEW badArgs \in BOOLEAN, NEW pic \in Images, NEW luck \in BOOLEAN
    PROVE  Owns(Header3(s, badArgs, pic, luck), pic)
<1> DEFINE e == Enter(s)
           k == Checked(e, "decompress", badArgs)
           a == ReadHeader(k, pic, luck)
           b == DAbort(a)
           c == ThrowIf(b, OddLayout(a))
<1>1. e \in Calls
  BY EnterLeaves DEF Leaves
<1>2. k \in Calls
  <2> HIDE DEF e
  <2> QED BY <1>1, CheckedLeaves DEF Leaves
<1>3. Holds(a, pic) /\ a \in Calls
  <2> HIDE DEF k
  <2> QED BY <1>2, ReadHeaderTakes, TookHolds DEF Holds
<1>4. Leaves(a, b) /\ b \in Calls
  <2> HIDE DEF a
  <2> QED BY <1>3, AbortLeaves DEF Leaves
<1>5. Leaves(b, c)
  <2>1. OddLayout(a) \in BOOLEAN
    BY DEF OddLayout
  <2> HIDE DEF a, b
  <2> QED BY <1>4, <2>1, ThrowLeaves
<1>6. Header3(s, badArgs, pic, luck) = IF a.jump THEN a ELSE Got(c)
  BY DEF Header3
<1> HIDE DEF a, b, c
<1>7. Owns(Got(c), pic)
  BY <1>3, <1>4, <1>5, LeavesHolds, GotOwns
<1>8. a.jump => Owns(a, pic)
  BY <1>3, StoppedHolds
<1> QED BY <1>6, <1>7, <1>8

(* tjDecompress2 answers about its own picture.                            *)
LEMMA Decompress2Owns ==
    ASSUME NEW s \in Calls, NEW badArgs \in BOOLEAN, NEW pic \in Images,
           NEW tooSmall \in BOOLEAN, NEW stop \in BOOLEAN, NEW luck \in BOOLEAN
    PROVE  Owns(Decompress2(s, badArgs, pic, tooSmall, stop, luck), pic)
<1> DEFINE a == Checked(StopOn(Enter(s), stop), "decompress", badArgs)
           h == ReadHeader(a, pic, luck)
           b == ThrowIf(h, tooSmall)
           raw == FALSE
           i == ReadImage(b, "scanning", raw)
<1>1. a \in Calls
  BY StartLeaves DEF Leaves
<1>2. Holds(h, pic) /\ h \in Calls
  <2> HIDE DEF a
  <2> QED BY <1>1, ReadHeaderTakes, TookHolds DEF Holds
<1>3. Leaves(h, b) /\ b \in Calls
  <2> HIDE DEF h
  <2> QED BY <1>2, ThrowLeaves DEF Leaves
<1>4. Leaves(b, i)
  <2>1. "scanning" \in DStates /\ raw \in BOOLEAN
    BY DEF DStates
  <2> HIDE DEF b, raw
  <2> QED BY <1>3, <2>1, ReadImageLeaves
<1>5. Decompress2(s, badArgs, pic, tooSmall, stop, luck) = BailoutD(Got(i))
  BY DEF Decompress2
<1> HIDE DEF h, b, i
<1>6. Owns(Got(i), pic) /\ Got(i) \in Calls
  BY <1>2, <1>3, <1>4, LeavesHolds, GotOwns DEF Owns
<1>7. Owns(BailoutD(Got(i)), pic)
  BY <1>6, BailoutLeaves, LeavesHolds
<1> QED BY <1>5, <1>7

(* tjDecompressToYUVPlanes works on the header its caller has read.        *)
LEMMA ToYUVPlanesOwns ==
    ASSUME NEW s, NEW pic, Holds(s, pic), NEW tooSmall \in BOOLEAN, NEW stop \in BOOLEAN
    PROVE  Owns(ToYUVPlanes(s, tooSmall, stop), pic)
<1> DEFINE no == FALSE
           a == Checked(StopOn(Enter(s), stop), "decompress", no)
           bad == OddLayout(a) \/ tooSmall \/ a.this.header.layout = "cmyk"
           b == ThrowIf(a, bad)
           c == IF b.jump THEN b ELSE RawOut(b)
           raw == TRUE
           i == ReadImage(c, "raw", raw)
<1>0. s \in Calls /\ no \in BOOLEAN /\ raw \in BOOLEAN /\ "raw" \in DStates
  BY DEF Holds, DStates
<1>1. Leaves(s, a) /\ a \in Calls
  <2> HIDE DEF no
  <2> QED BY <1>0, StartLeaves DEF Leaves
<1>2. Leaves(a, b) /\ b \in Calls
  <2>1. bad \in BOOLEAN
    BY DEF OddLayout
  <2> HIDE DEF a, bad
  <2> QED BY <1>1, <2>1, ThrowLeaves DEF Leaves
<1>3. Leaves(b, c) /\ c \in Calls
  <2> HIDE DEF b
  <2> QED BY <1>2, FieldsLeave, LeavesOnes DEF Leaves
<1>4. Leaves(c, i)
  <2> HIDE DEF c, raw
  <2> QED BY <1>0, <1>3, ReadImageLeaves
<1>5. ToYUVPlanes(s, tooSmall, stop) = BailoutD(Got(i))
  BY DEF ToYUVPlanes, RawOut
<1> HIDE DEF a, b, c, i
<1>6. Owns(Got(i), pic) /\ Got(i) \in Calls
  BY <1>1, <1>2, <1>3, <1>4, LeavesHolds, GotOwns DEF Owns
<1>7. Owns(BailoutD(Got(i)), pic)
  BY <1>6, BailoutLeaves, LeavesHolds
<1> QED BY <1>5, <1>7

(* Of the three ways out of tjDecompressToYUV2 two are taken by a call that  *)
(* is stopped.                                                               *)
LEMMA ToYUV2Owns ==
    ASSUME NEW s \in Calls, NEW badArgs \in BOOLEAN, NEW pic \in Images,
           NEW tooSmall \in BOOLEAN, NEW stop \in BOOLEAN, NEW luck \in BOOLEAN
    PROVE  Owns(ToYUV2(s, badArgs, pic, tooSmall, stop, luck), pic)
<1> DEFINE z == StopOn(Enter(s), stop)
           a == ThrowIf(z, badArgs)
           b == ReadHeader(a, pic, luck)
           c == ThrowIf(b, OddLayout(b) \/ tooSmall)
           no == FALSE
           r == ToYUV2(s, badArgs, pic, tooSmall, stop, luck)
<1>1. z \in Calls
  BY EnterLeaves DEF Leaves
<1>2. a \in Calls
  <2> HIDE DEF z
  <2> QED BY <1>1, ThrowLeaves DEF Leaves
<1>3. Holds(b, pic) /\ b \in Calls /\ (a.jump => b.jump)
  <2> HIDE DEF a
  <2> QED BY <1>2, ReadHeaderTakes, TookHolds DEF Holds, Took
<1>4. Leaves(b, c) /\ c \in Calls /\ (b.jump => c.jump) /\ Holds(c, pic)
  <2>1. (OddLayout(b) \/ tooSmall) \in BOOLEAN
    BY DEF OddLayout
  <2>2. Leaves(b, c)
    <3> HIDE DEF b
    <3> QED BY <1>3, <2>1, ThrowLeaves
  <2> HIDE DEF b, c
  <2> QED BY <1>3, <2>2, LeavesHolds DEF Leaves
<1>5. \/ (a.jump \/ c.jump) /\ r = StopOn(c, no)
      \/ b.jump /\ r = b
      \/ r = ToYUVPlanes(c, tooSmall, stop)
  BY DEF ToYUV2
<1> HIDE DEF a, b, c, r
<1>6. c.jump => Owns(StopOn(c, no), pic)
  <2>1. no \in BOOLEAN
    OBVIOUS
  <2> HIDE DEF no
  <2> QED BY <1>4, <2>1, EnterLeaves, StoppedHolds, LeavesHolds
<1>7. (b.jump => Owns(b, pic)) /\ Owns(ToYUVPlanes(c, tooSmall, stop), pic)
  BY <1>3, <1>4, StoppedHolds, ToYUVPlanesOwns
<1>8. Owns(r, pic)
  BY <1>3, <1>4, <1>5, <1>6, <1>7
<1> QED BY <1>8 DEF r

(* With the stubs the header written by hand is read as if it were the       *)
(* picture's own.                                                            *)
LEMMA ByHandHolds ==
    ASSUME NEW s \in Calls, NEW image \in Images, NEW luck \in BOOLEAN, NEW old \in BOOLEAN,
           ~ReadHeader(ByHand(s, image), image, luck).jump
    PROVE  Holds(Stubs(ReadHeader(ByHand(s, image), image, luck), old), image)
<1> DEFINE b == ByHand(s, image)
           c == ReadHeader(b, image, luck)
           d == Stubs(c, old)
<1>1. b \in Calls /\ b.this.stubs /\ b.this.header = image
  BY DEF ByHand, Calls, Instances
<1>2. Took(b, c, image) /\ c \in Calls
  <2> HIDE DEF b
  <2> QED BY <1>1, ReadHeaderTakes DEF Took
<1>3. c.this.stubs = b.this.stubs /\ ~c.jump
  BY <1>2 DEF Took
<1>4. c.this.header = image
  <2> HIDE DEF b, c
  <2> QED BY <1>1, <1>2, <1>3 DEF Took
<1>5. d \in Calls /\ d.this.header = c.this.header
  <2> HIDE DEF c
  <2> QED BY <1>2 DEF Stubs, Calls, Instances
<1> HIDE DEF c, d
<1>6. Holds(d, image)
  BY <1>4, <1>5 DEF Holds
<1> QED BY <1>6 DEF b, c, d

(* tjDecodeYUV answers about the picture whose header it wrote.            *)
LEMMA DecodeYUVOwns ==
    ASSUME NEW s \in Calls, NEW badArgs \in BOOLEAN, NEW image \in Images, NEW cmyk \in BOOLEAN,
           NEW stop \in BOOLEAN, NEW luck \in BOOLEAN
    PROVE  Owns(DecodeYUV(s, badArgs, image, cmyk, stop, luck), image)
<1> DEFINE w == EnterWrapper(s)
           wrap == ThrowIf(w, badArgs)
           no == FALSE
           k == Checked(StopOn(Enter(wrap), stop), "decompress", no)
           a == ThrowIf(k, cmyk)
           h == ByHand(a, image)
           c == ReadHeader(h, image, luck)
           d == Stubs(c, a.this.stubs)
           e == DAbort(d)
           r == DecodeYUV(s, badArgs, image, cmyk, stop, luck)
<1>1. wrap \in Calls
  <2>1. w \in Calls
    BY EnterLeaves DEF Leaves
  <2> HIDE DEF w
  <2> QED BY <2>1, ThrowLeaves DEF Leaves
<1>2. k \in Calls
  <2>1. no \in BOOLEAN
    OBVIOUS
  <2> HIDE DEF wrap, no
  <2> QED BY <1>1, <2>1, StartLeaves DEF Leaves
<1>3. a \in Calls /\ a.this.stubs \in BOOLEAN
  <2>1. a \in Calls
    <3> HIDE DEF k
    <3> QED BY <1>2, ThrowLeaves DEF Leaves
  <2> HIDE DEF a
  <2> QED BY <2>1 DEF Calls, Instances
<1>4. c \in Calls
  <2> HIDE DEF a
  <2>1. h \in Calls
    BY <1>3 DEF ByHand, Calls, Instances
  <2> HIDE DEF h
  <2> QED BY <2>1, ReadHeaderTakes DEF Took
<1>5. ~c.jump => Holds(d, image)
  <2> HIDE DEF a
  <2> QED BY <1>3, ByHandHolds
<1>6. \/ wrap.jump /\ r = wrap
      \/ a.jump /\ r = BailoutD(a)
      \/ c.jump /\ r = BailoutD(c)
      \/ ~c.jump /\ r = BailoutD(Got(e))
  BY DEF DecodeYUV, ByHand, Stubs
<1> HIDE DEF wrap, a, c, d, r
<1>7. /\ wrap.jump => Owns(wrap, image)
      /\ a.jump => Owns(BailoutD(a), image)
      /\ c.jump => Owns(BailoutD(c), image)
  BY <1>1, <1>3, <1>4, StoppedHolds, BailoutLeaves, LeavesHolds
<1>8. ~c.jump => Owns(BailoutD(Got(e)), image)
  <2> SUFFICES ASSUME ~c.jump PROVE Owns(BailoutD(Got(e)), image)
    OBVIOUS
  <2>1. d \in Calls /\ Holds(d, image)
    BY <1>5 DEF Holds
  <2>2. Holds(e, image)
    BY <2>1, AbortLeaves, LeavesHolds
  <2> HIDE DEF e
  <2>3. Owns(Got(e), image) /\ Got(e) \in Calls
    BY <2>2, GotOwns DEF Owns
  <2> QED BY <2>3, BailoutLeaves, LeavesHolds
<1>9. Owns(r, image)
  BY <1>6, <1>7, <1>8
<1> QED BY <1>9 DEF r

(* tjTransform answers about its own picture.                              *)
LEMMA TransformOwns ==
    ASSUME NEW s \in Calls, NEW pic \in Images, NEW how, NEW stop \in BOOLEAN,
           NEW luck \in BOOLEAN
    PROVE  Owns(Transform(s, pic, how, stop, luck), pic)
<1> DEFINE k == Checked(StopOn(Enter(s), stop), "compress", how = "bad")
           no == FALSE
           a == Checked(k, "decompress", no)
           b == ReadHeader(a, pic, luck)
           c == ThrowIf(b, OddLayout(b) \/ how = "imperfect")
           d == IF how = "crop" /\ ~c.jump THEN ErrorExit(c) ELSE c
           raw == FALSE
           e == ReadImage(d, "stopping", raw)
           m == MemDest(e, how = "noBuffer")
           f == IF how # "noOutput" THEN WriteCoefficients(m, how)
                ELSE IF e.jump THEN e ELSE RawInOff(e)
<1>0. no \in BOOLEAN /\ raw \in BOOLEAN /\ "stopping" \in DStates
  BY DEF DStates
<1>1. a \in Calls
  <2>1. k \in Calls
    BY StartLeaves DEF Leaves
  <2> HIDE DEF k, no
  <2> QED BY <1>0, <2>1, CheckedLeaves DEF Leaves
<1>2. Holds(b, pic) /\ b \in Calls
  <2> HIDE DEF a
  <2> QED BY <1>1, ReadHeaderTakes, TookHolds DEF Holds
<1>3. Leaves(b, c) /\ c \in Calls
  <2>1. (OddLayout(b) \/ how = "imperfect") \in BOOLEAN
    BY DEF OddLayout
  <2> HIDE DEF b
  <2> QED BY <1>2, <2>1, ThrowLeaves DEF Leaves
<1>4. Leaves(c, d) /\ d \in Calls
  <2> HIDE DEF c
  <2> QED BY <1>3, ErrorLeaves, LeavesOnes DEF Leaves
<1>5. Leaves(d, e) /\ e \in Calls
  <2>1. Leaves(d, e)
    <3> HIDE DEF d, raw
    <3> QED BY <1>0, <1>4, ReadImageLeaves
  <2> HIDE DEF d, e
  <2> QED BY <2>1 DEF Leaves
<1>6. Leaves(e, m) /\ m \in Calls
  <2> HIDE DEF e
  <2> QED BY <1>5, OutputLeaves DEF Leaves
<1>7. Leaves(e, f)
  <2>1. Leaves(m, WriteCoefficients(m, how))
    <3> HIDE DEF m
    <3> QED BY <1>6, OutputLeaves
  <2> HIDE DEF e, m
  <2>2. Leaves(e, WriteCoefficients(m, how))
    BY <1>6, <2>1, LeavesLeaves
  <2>3. Leaves(e, e) /\ Leaves(e, RawInOff(e))
    BY <1>5, LeavesOnes, FieldsLeave
  <2> QED BY <2>2, <2>3
<1>8. Transform(s, pic, how, stop, luck) = BailoutD(BailoutC(Got(f)))
  BY DEF Transform, RawInOff
<1> HIDE DEF b, c, d, e, f
<1>9. Holds(f, pic)
  BY <1>2, <1>3, <1>4, <1>5, <1>7, LeavesHolds
<1> DEFINE g == Got(f)
           h == BailoutC(g)
<1>10. Owns(g, pic) /\ g \in Calls
  BY <1>9, GotOwns DEF Owns
<1> HIDE DEF g
<1>11. Owns(h, pic) /\ h \in Calls
  BY <1>10, BailoutLeaves, LeavesHolds DEF Owns
<1> HIDE DEF h
<1>12. Owns(BailoutD(h), pic)
  BY <1>11, BailoutLeaves, LeavesHolds
<1> QED BY <1>8, <1>12 DEF g, h

-----------------------------------------------------------------------------
(* The answers. *)

(* What the client is told, when the function worked on its picture.       *)
LEMMA OwnReturn ==
    ASSUME NEW op, NEW asked, asked # NoImage, NEW sound, NEW s, Owns(s, asked),
           NEW error \in {-1, -2}, Return(op, asked, sound, s, error)
    PROVE  OwnPicture'
<1> SUFFICES ASSUME ~Failed', last'.op # "none", ~this'.stubs
             PROVE  last'.got = "own"
  BY DEF OwnPicture, DecompressOps
<1>1. last'.ret = 0
  BY DEF Failed
<1>2. ~s.jump
  BY <1>1 DEF Return
<1>3. ~s.this.stubs
  BY DEF Return
<1>4. s.got = asked
  BY <1>2, <1>3 DEF Owns
<1> QED BY <1>4 DEF Return

(* The methods that read a picture. *)
LEMMA OwnMethodStep ==
    ASSUME TurboJpegTypeOK,
           \/ TjDecompressHeader3 \/ TjDecompress2 \/ TjDecompressToYUV2 \/ TjDecodeYUV
           \/ TjTransform
    PROVE  OwnPicture'
<1> DEFINE no == FALSE
<1>0. no \in BOOLEAN /\ Call \in Calls
  BY CallTyped
<1>1. CASE TjDecompressHeader3
  <2>1. PICK flaw \in {"none", "bad"}, luck \in Luck : \E pic \in PicturesFor(flaw) :
          Return("header", pic, flaw = "none" /\ Sound(pic) /\ Is("decompress"),
                 Header3(Call, flaw = "bad", pic, luck), -1)
    BY <1>1 DEF TjDecompressHeader3
  <2>2. PICK pic \in PicturesFor(flaw) :
          Return("header", pic, flaw = "none" /\ Sound(pic) /\ Is("decompress"),
                 Header3(Call, flaw = "bad", pic, luck), -1)
    BY <2>1
  <2>3. pic \in Images /\ pic # NoImage /\ luck \in BOOLEAN
    BY PictureTypes
  <2>4. Owns(Header3(Call, flaw = "bad", pic, luck), pic)
    BY <1>0, <2>3, Header3Owns
  <2> QED BY <2>2, <2>3, <2>4, OwnReturn
<1>2. CASE TjDecompress2
  <2> SUFFICES ASSUME NEW flaw \in {"none", "bad", "small"}, NEW luck \in Luck,
                      NEW pic \in PicturesFor(flaw), NEW stop \in Stops(pic),
                      Return("decompress", pic, flaw = "none" /\ Sound(pic) /\ Is("decompress"),
                             Decompress2(Call, flaw = "bad", pic, flaw = "small", stop, luck), -1)
               PROVE  OwnPicture'
    BY <1>2 DEF TjDecompress2
  <2>1. pic \in Images /\ pic # NoImage /\ luck \in BOOLEAN /\ stop \in BOOLEAN
    BY PictureTypes
  <2>2. Owns(Decompress2(Call, flaw = "bad", pic, flaw = "small", stop, luck), pic)
    BY <1>0, <2>1, Decompress2Owns
  <2> QED BY <2>1, <2>2, OwnReturn
<1>3. CASE TjDecompressToYUV2
  <2> SUFFICES ASSUME NEW flaw \in {"none", "bad", "small"}, NEW luck \in Luck, NEW stop \in BOOLEAN,
                      NEW pic \in PicturesFor(flaw),
                      Return("toYUV", pic, flaw = "none" /\ Sound(pic),
                             ToYUV2(Call, flaw = "bad", pic, flaw = "small", stop, luck), -1)
               PROVE  OwnPicture'
    BY <1>3 DEF TjDecompressToYUV2
  <2>1. pic \in Images /\ pic # NoImage /\ luck \in BOOLEAN
    BY PictureTypes
  <2>2. Owns(ToYUV2(Call, flaw = "bad", pic, flaw = "small", stop, luck), pic)
    BY <1>0, <2>1, ToYUV2Owns
  <2> QED BY <2>1, <2>2, OwnReturn
<1>4. CASE TjDecodeYUV
  <2> SUFFICES ASSUME NEW flaw \in {"none", "bad", "cmyk"}, NEW luck \in Luck, NEW image \in YUVImages,
                      Return("decode", image, flaw = "none" /\ ~image.huge /\ Is("decompress"),
                             DecodeYUV(Call, flaw = "bad", image, flaw = "cmyk", no, luck), -2)
               PROVE  OwnPicture'
    BY <1>4 DEF TjDecodeYUV
  <2> HIDE DEF no
  <2>1. image \in Images /\ image # NoImage /\ luck \in BOOLEAN
    BY PictureTypes
  <2>2. Owns(DecodeYUV(Call, flaw = "bad", image, flaw = "cmyk", no, luck), image)
    BY <1>0, <2>1, DecodeYUVOwns
  <2> QED BY <2>1, <2>2, OwnReturn
<1>5. CASE TjTransform
  <2> SUFFICES ASSUME NEW how \in {"none", "bad", "imperfect", "crop", "noOutput", "noBuffer",
                                  "noMemory"},
                      NEW luck \in Luck, NEW pic \in PicturesFor(how), NEW stop \in Stops(pic),
                      Return("transform", pic,
                             /\ how \in {"none", "noOutput"} /\ Sound(pic)
                             /\ Is("decompress") /\ Is("compress"),
                             Transform(Call, pic, how, stop, luck), -1)
               PROVE  OwnPicture'
    BY <1>5 DEF TjTransform
  <2>1. pic \in Images /\ pic # NoImage /\ luck \in BOOLEAN /\ stop \in BOOLEAN
    BY PictureTypes
  <2>2. Owns(Transform(Call, pic, how, stop, luck), pic)
    BY <1>0, <2>1, TransformOwns
  <2> QED BY <2>1, <2>2, OwnReturn
<1> QED BY <1>1, <1>2, <1>3, <1>4, <1>5

(* The others take no picture. *)
LEMMA OwnStep ==
    ASSUME TurboJpegTypeOK, OwnPicture, [TurboJpegNext]_tjvars
    PROVE  OwnPicture'
<1>1. CASE \/ \E uses \in {{"compress"}, {"decompress"}, {"compress", "decompress"}} : Create(uses)
           \/ Destroy \/ Refused \/ TjGetErrorStr2
  <2>1. last' = NoCall \/ last' = [NoCall EXCEPT !.ret = -1, !.why = "refused"]
    BY <1>1 DEF Create, Destroy, Refused, TjGetErrorStr2
  <2>2. NoCall.op = "none" /\ [NoCall EXCEPT !.ret = -1, !.why = "refused"].op = "none"
    BY DEF NoCall
  <2>3. last'.op = "none"
    BY <2>1, <2>2, Zenon
  <2> QED BY <2>3 DEF OwnPicture, DecompressOps
<1>2. CASE TjCompress2 \/ TjCompressFromYUV \/ TjEncodeYUV3
  <2>1. \A op, asked, sound, s, error : Return(op, asked, sound, s, error) => last'.op = op
    BY DEF Return
  <2>2. last'.op \in {"compress", "compressYUV", "encode"}
    BY <1>2, <2>1 DEF TjCompress2, TjCompressFromYUV, TjEncodeYUV3
  <2> QED BY <2>2 DEF OwnPicture, DecompressOps
<1>3. CASE OtherFails \/ UNCHANGED tjvars
  <2>1. last' = last /\ this' = this
    BY <1>3 DEF OtherFails, tjvars
  <2> QED BY <2>1 DEF OwnPicture, Failed
<1> QED BY <1>1, <1>2, <1>3, OwnMethodStep DEF TurboJpegNext

(* Whatever errors an instance has been through, a call that answers 0 has   *)
(* worked on the picture it was given, unless the stubs of tjDecodeYUV are   *)
(* still in the marker reader: what a header that was cut short or an        *)
(* aborted picture left in the decompress object never passes for the next.  *)
THEOREM PicturesNotMixed == TurboJpegSpec => []OwnPicture
<1>1. TurboJpegInit => OwnPicture
  BY DEF TurboJpegInit, OwnPicture, NoCall, DecompressOps
<1>2. TurboJpegTypeOK /\ OwnPicture /\ [TurboJpegNext]_tjvars => OwnPicture'
  BY OwnStep
<1> QED BY <1>1, <1>2, HandleStaysIdle, PTL DEF TurboJpegSpec

-----------------------------------------------------------------------------
(* The text a failed call leaves. *)


(* A call that was stopped or warned says why: THROW in the instance and in  *)
(* errStr, libjpeg in errStr.                                                *)
Told(s) ==
    /\ s.this.isInstanceError => s.jump /\ s.this.text = "error" /\ s.why = "error"
    /\ s.jump \/ s.this.warning => s.errStr = s.why

(* Only the first warning of a picture is written: when the error manager    *)
(* has one, it is in errStr.                                                 *)
Fresh(s) == ~s.jump /\ s.this.warned => s.errStr = "warning" /\ s.why = "warning"

(* A piece of a call that explains itself if the call did before. *)
Tells(s, t) ==
    /\ t \in Calls
    /\ Told(s) => Told(t)
    /\ Fresh(s) => Fresh(t)

-----------------------------------------------------------------------------
(* The pieces. *)

(* A piece that does nothing tells nothing new.                            *)
LEMMA TellsOnes ==
    ASSUME NEW s \in Calls
    PROVE  Tells(s, s)
  BY DEF Tells

(* Tells composes.                                                         *)
LEMMA TellsTells ==
    ASSUME NEW s, NEW t, NEW u, Tells(s, t), Tells(t, u)
    PROVE  Tells(s, u)
  BY DEF Tells

(* What Told and Fresh look at. *)
Texted(s, t) ==
    /\ t \in Calls /\ t.jump = s.jump /\ t.why = s.why /\ t.errStr = s.errStr
    /\ t.this.isInstanceError = s.this.isInstanceError /\ t.this.text = s.this.text
    /\ t.this.warning = s.this.warning /\ t.this.warned \in {FALSE, s.this.warned}

(* A piece that leaves what Told and Fresh look at alone.                  *)
LEMMA TextedTells ==
    ASSUME NEW s \in Calls, NEW t, Texted(s, t)
    PROVE  Tells(s, t)
  BY DEF Texted, Tells, Told, Fresh, Calls, Instances

(* An error of libjpeg: the text is in errStr, and the call is stopped.    *)
LEMMA ErrorTells ==
    ASSUME NEW s \in Calls
    PROVE  /\ Tells(s, ErrorExit(s)) /\ ErrorExit(s).jump
           /\ ErrorExit(s) \in Calls
<1> DEFINE t == ErrorExit(s)
<1>1. /\ t \in Calls /\ t.jump /\ t.this = s.this /\ t.errStr = "error" /\ t.why = "error"
  BY DEF ErrorExit, Calls, Texts
<1> HIDE DEF t
<1>2. Tells(s, t)
  BY <1>1 DEF Tells, Told, Fresh
<1> QED BY <1>1, <1>2 DEF t

(* A warning: the first is written, and those after it find it written. *)
LEMMA WarnTells ==
    ASSUME NEW s \in Calls, ~s.jump, Told(s), Fresh(s)
    PROVE  Warn(s) \in Calls /\ Told(Warn(s)) /\ Fresh(Warn(s))
<1> DEFINE t == Warn(s)
<1>1. t \in Calls
  BY DEF Warn, Calls, Texts, Instances
<1>2. /\ t.why = "warning" /\ t.this.isInstanceError = s.this.isInstanceError
      /\ t.errStr = IF s.this.warned THEN s.errStr ELSE "warning"
  BY DEF Warn, Calls, Instances
<1> HIDE DEF t
<1>3. t.errStr = "warning"
  BY <1>2 DEF Fresh
<1>4. ~s.this.isInstanceError
  BY DEF Told
<1> QED BY <1>1, <1>2, <1>3, <1>4 DEF Told, Fresh, t

(* THROW puts its text in both places.                                     *)
LEMMA ThrowTells ==
    ASSUME NEW s \in Calls, NEW bad \in BOOLEAN
    PROVE  Tells(s, ThrowIf(s, bad))
<1> DEFINE t == [s EXCEPT !.this.text = "error", !.this.isInstanceError = TRUE,
                          !.errStr = "error", !.why = "error", !.jump = TRUE]
<1>1. t \in Calls /\ t.this.text = "error" /\ t.errStr = "error" /\ t.why = "error" /\ t.jump
  BY DEF Calls, Instances, Texts
<1>2. ThrowIf(s, bad) \in {s, t}
  BY DEF ThrowIf
<1> HIDE DEF t
<1>3. Tells(s, t)
  BY <1>1 DEF Tells, Told, Fresh
<1> QED BY <1>2, <1>3, TellsOnes

(* The checks of an instance: a call for a use the instance was not made   *)
(* for stops there.                                                        *)
LEMMA CheckedTells ==
    ASSUME NEW s \in Calls, NEW use, NEW bad \in BOOLEAN
    PROVE  /\ Tells(s, Checked(s, use, bad))
           /\ Checked(s, use, bad).jump \/ use \in s.this.init
<1>1. Tells(s, Checked(s, use, bad))
  BY ThrowTells DEF Checked
<1>2. (use \notin s.this.init \/ bad) \in BOOLEAN
  OBVIOUS
<1>3. ~ThrowIf(s, use \notin s.this.init \/ bad).jump => ~(use \notin s.this.init \/ bad)
  BY <1>2, ThrowIfSame
<1> QED BY <1>1, <1>3 DEF Checked

(* The pieces that leave the texts alone. *)
LEMMA StopOnTells ==
    ASSUME NEW s \in Calls, NEW stop \in BOOLEAN
    PROVE  Tells(s, StopOn(s, stop))
<1>1. Texted(s, StopOn(s, stop))
  BY DEF Texted, StopOn, Calls, Instances
<1> QED BY <1>1, TextedTells

(* To note the picture does not touch the texts.                           *)
LEMMA GotTells ==
    ASSUME NEW s \in Calls
    PROVE  Tells(s, Got(s))
<1>1. Texted(s, Got(s))
  BY DEF Texted, Got, Calls, Instances
<1> QED BY <1>1, TextedTells

(* The objects are aborted, in libjpeg and at the labels bailout, without  *)
(* a word.                                                                 *)
LEMMA AbortTells ==
    ASSUME NEW s \in Calls
    PROVE  /\ Tells(s, DAbort(s)) /\ Tells(s, CAbort(s))
           /\ Tells(s, BailoutD(s)) /\ Tells(s, BailoutC(s))
<1>1. Texted(s, DAbort(s)) /\ Texted(s, CAbort(s))
  BY DEF Texted, DAbort, CAbort, Calls, Instances, DStates, CStates
<1>2. Tells(s, DAbort(s)) /\ Tells(s, CAbort(s))
  BY <1>1, TextedTells
<1> DEFINE d == IF s.this.dstate \in {"none", "start"} THEN s ELSE DAbort(s)
           c == IF s.this.cstate \in {"none", "start"} THEN s ELSE CAbort(s)
           no == FALSE
<1>3. no \in BOOLEAN /\ BailoutD(s) = StopOn(d, no) /\ BailoutC(s) = StopOn(c, no)
  BY DEF BailoutD, BailoutC, StopOn
<1>4. Tells(s, d) /\ Tells(s, c)
  BY <1>2, TellsOnes
<1> HIDE DEF d, c, no
<1>5. Tells(d, StopOn(d, no)) /\ Tells(c, StopOn(c, no))
  BY <1>3, <1>4, StopOnTells DEF Tells
<1> QED BY <1>2, <1>3, <1>4, <1>5, TellsTells

(* A function begins without the errors and warnings of the call before. *)
LEMMA EnterTells ==
    ASSUME NEW s \in Calls, ~s.jump, NEW stop \in BOOLEAN
    PROVE  /\ StopOn(Enter(s), stop) \in Calls /\ Told(StopOn(Enter(s), stop))
           /\ Enter(s) \in Calls /\ Told(Enter(s))
           /\ Fresh(s) => Fresh(StopOn(Enter(s), stop))
  BY DEF StopOn, Enter, Told, Fresh, Calls, Instances

(* A wrapper that refuses its arguments says so. *)
LEMMA WrapperTells ==
    ASSUME NEW s \in Calls, ~s.jump, NEW bad \in BOOLEAN
    PROVE  /\ ThrowIf(EnterWrapper(s), bad) \in Calls
           /\ ThrowIf(EnterWrapper(s), bad).jump => Told(ThrowIf(EnterWrapper(s), bad))
<1> DEFINE w == EnterWrapper(s)
           t == [w EXCEPT !.this.text = "error", !.this.isInstanceError = TRUE,
                          !.errStr = "error", !.why = "error", !.jump = TRUE]
<1>1. w \in Calls /\ ~w.jump
  BY DEF EnterWrapper, Calls, Instances
<1>2. t \in Calls /\ Told(t)
  <2> HIDE DEF w
  <2> QED BY <1>1 DEF Told, Calls, Instances, Texts
<1>3. ThrowIf(w, bad) = IF bad THEN t ELSE w
  BY <1>1 DEF ThrowIf
<1> HIDE DEF w, t
<1>4. ThrowIf(w, bad) \in Calls /\ (ThrowIf(w, bad).jump => Told(ThrowIf(w, bad)))
  BY <1>1, <1>2, <1>3
<1> QED BY <1>4 DEF w

-----------------------------------------------------------------------------
(* The calls into libjpeg. *)

(* initial_setup fails with an error or without a text.                    *)
LEMMA SetupTells ==
    ASSUME NEW s \in Calls, NEW luck \in BOOLEAN
    PROVE  Tells(s, InitialSetup(s, luck))
<1>1. Texted(s, [s EXCEPT !.this.dstate = "ready", !.this.rawOut = FALSE])
  BY DEF Texted, Calls, Instances, DStates
<1> QED BY <1>1, TextedTells, ErrorTells DEF InitialSetup

(* What may follow in the markers of a call that explains itself. *)
Telling(s) == s \in Calls /\ Told(s) /\ Fresh(s)

(* A call that explains itself and has its first warning in errStr keeps   *)
(* both.                                                                   *)
LEMMA TellsTelling ==
    ASSUME NEW s, NEW t, Telling(s), Tells(s, t)
    PROVE  Telling(t)
  BY DEF Telling, Tells

(* Data that ends early warns, then fails: the error replaces the warning. *)
LEMMA EndOfDataTells ==
    ASSUME NEW s, Telling(s), ~s.jump
    PROVE  Telling(EndOfData(s))
<1> DEFINE u == [s EXCEPT !.this.reader = "inside"]
           t == Warn(u)
           v == [t EXCEPT !.this.eoi = TRUE]
<1>1. Telling(u) /\ ~u.jump
  <2>1. Texted(s, u)
    BY DEF Texted, Telling, Calls, Instances
  <2> HIDE DEF u
  <2> QED BY <2>1, TextedTells, TellsTelling DEF Telling, Texted
<1>2. Telling(t)
  <2> HIDE DEF u
  <2> QED BY <1>1, WarnTells DEF Telling
<1>3. Telling(v)
  <2>1. Texted(t, v)
    <3> HIDE DEF t
    <3> QED BY <1>2 DEF Texted, Telling, Calls, Instances
  <2> HIDE DEF t, v
  <2> QED BY <1>2, <2>1, TextedTells, TellsTelling DEF Telling
<1>4. EndOfData(s) = IF t.jump THEN t ELSE ErrorExit(v)
  BY DEF EndOfData
<1> HIDE DEF t, v
<1>5. Telling(ErrorExit(v))
  BY <1>3, ErrorTells, TellsTelling DEF Telling
<1> QED BY <1>2, <1>4, <1>5

(* The markers: a warning, an error, or neither.                           *)
LEMMA ReadMarkersTells ==
    ASSUME NEW s, Telling(s), ~s.jump, NEW pic \in Images, NEW luck \in BOOLEAN
    PROVE  Telling(ReadMarkers(s, pic, luck))
<1> DEFINE sos == [s EXCEPT !.this.reader = "inside", !.this.header = pic, !.this.freed = FALSE]
           stuck == [s EXCEPT !.this.reader = "stuck"]
           warned == Warn(sos)
           r == ReadMarkers(s, pic, luck)
<1>1. Texted(s, sos) /\ Texted(s, stuck)
  BY DEF Texted, Telling, Calls, Instances
<1>2. Telling(sos) /\ ~sos.jump /\ Telling(stuck)
  <2> HIDE DEF sos, stuck
  <2> QED BY <1>1, TextedTells, TellsTelling DEF Telling, Texted
<1>3. Telling(warned) /\ Telling(InitialSetup(sos, luck))
  <2> HIDE DEF sos
  <2> QED BY <1>2, WarnTells, SetupTells, TellsTelling DEF Telling
<1>4. Telling(InitialSetup(warned, luck))
  <2> HIDE DEF warned
  <2> QED BY <1>3, SetupTells, TellsTelling DEF Telling
<1>5. Telling(ErrorExit(s)) /\ Telling(ErrorExit(stuck))
  <2> HIDE DEF stuck
  <2> QED BY <1>2, ErrorTells, TellsTelling DEF Telling
<1>6. r \in {ErrorExit(s), ErrorExit(stuck), EndOfData(s), warned,
             InitialSetup(warned, luck), InitialSetup(sos, luck)}
  BY DEF ReadMarkers
<1> HIDE DEF sos, stuck, warned, r
<1>7. Telling(r)
  BY <1>3, <1>4, <1>5, <1>6, EndOfDataTells
<1> QED BY <1>7 DEF r

(* The error manager is reset where a header is read from its beginning. *)
LEMMA ReadHeaderTells ==
    ASSUME NEW s \in Calls, Told(s), s.jump \/ s.this.dstate = "start",
           NEW pic \in Images, NEW luck \in BOOLEAN
    PROVE  Telling(ReadHeader(s, pic, luck))
<1> DEFINE t == [ResetInput(s) EXCEPT !.this.dstate = "inheader"]
<1>1. CASE s.jump
  BY <1>1 DEF ReadHeader, Telling, Fresh
<1>2. CASE ~s.jump
  <2>1. Texted(s, t) /\ ~t.this.warned
    BY DEF Texted, ResetInput, Calls, Instances, DStates
  <2>2. ReadHeader(s, pic, luck) = ConsumeHeader(t, pic, luck)
    BY <1>2 DEF ReadHeader
  <2> HIDE DEF t
  <2>3. Telling(t) /\ ~t.jump
    <3>1. Tells(s, t) /\ ~t.jump
      BY <1>2, <2>1, TextedTells DEF Texted
    <3>2. Fresh(t)
      BY <2>1 DEF Fresh
    <3> QED BY <3>1, <3>2 DEF Tells, Telling
  <2>4. Telling(ErrorExit(t)) /\ Telling(InitialSetup(t, luck))
    BY <2>3, ErrorTells, SetupTells, TellsTelling DEF Telling
  <2> QED BY <2>2, <2>3, <2>4, ReadMarkersTells DEF ConsumeHeader
<1> QED BY <1>1, <1>2

(* The rows: further warnings find the first one written.                  *)
LEMMA ReadImageTells ==
    ASSUME NEW s, Telling(s), NEW running \in DStates, NEW raw \in BOOLEAN
    PROVE  Telling(ReadImage(s, running, raw))
<1> DEFINE t == [s EXCEPT !.this.dstate = running]
           u == [t EXCEPT !.this.dstate = "stopping"]
           damaged == Warn(t)
           r == ReadImage(s, running, raw)
<1>1. CASE s.jump
  BY <1>1 DEF ReadImage
<1>2. CASE ~s.jump
  <2>1. Texted(s, t)
    BY DEF Texted, Telling, Calls, Instances
  <2>2. Telling(t) /\ ~t.jump
    <3> HIDE DEF t
    <3> QED BY <1>2, <2>1, TextedTells, TellsTelling DEF Telling, Texted
  <2>3. Telling(u)
    <3>1. Texted(t, u)
      <4> HIDE DEF t
      <4> QED BY <2>2 DEF Texted, Telling, Calls, Instances, DStates
    <3> HIDE DEF t, u
    <3> QED BY <2>2, <3>1, TextedTells, TellsTelling DEF Telling
  <2>4. Telling(damaged)
    <3> HIDE DEF t
    <3> QED BY <2>2, WarnTells DEF Telling
  <2>5. r \in {ErrorExit(s), ErrorExit(u), ErrorExit(t), damaged, DAbort(damaged), DAbort(t)}
    BY <1>2 DEF ReadImage
  <2> HIDE DEF t, u, damaged, r
  <2>6. /\ Telling(ErrorExit(s)) /\ Telling(ErrorExit(u)) /\ Telling(ErrorExit(t))
        /\ Telling(DAbort(damaged)) /\ Telling(DAbort(t))
    BY <2>2, <2>3, <2>4, ErrorTells, AbortTells, TellsTelling DEF Telling
  <2>7. Telling(r)
    BY <2>4, <2>5, <2>6
  <2> QED BY <2>7 DEF r
<1> QED BY <1>1, <1>2

(* A compression has no warnings. *)
LEMMA DestTells ==
    ASSUME NEW s \in Calls, NEW noRealloc \in BOOLEAN, NEW raw \in BOOLEAN
    PROVE  /\ Tells(s, MemDest(s, noRealloc)) /\ MemDest(s, noRealloc) \in Calls
           /\ Tells(s, SetCompDefaults(s, raw)) /\ SetCompDefaults(s, raw) \in Calls
<1>1. Tells(s, MemDest(s, noRealloc))
  BY ErrorTells, TellsOnes DEF MemDest
<1>2. Texted(s, SetCompDefaults(s, raw))
  BY DEF Texted, SetCompDefaults, Calls, Instances
<1>3. Tells(s, SetCompDefaults(s, raw))
  BY <1>2, TextedTells
<1> QED BY <1>1, <1>3 DEF Tells

(* A compression writes no warnings: it fails with an error or not at all. *)
LEMMA WriteTells ==
    ASSUME NEW s \in Calls, NEW image, NEW raw \in BOOLEAN
    PROVE  Tells(s, WriteImage(s, image, raw)) /\ Tells(s, WriteCoefficients(s, image))
<1> DEFINE t == [s EXCEPT !.this.cstate = IF s.this.rawIn THEN "raw" ELSE "scanning",
                          !.this.warned = FALSE]
           u == [s EXCEPT !.this.warned = FALSE]
           v == [s EXCEPT !.this.cstate = "wrcoefs", !.this.rawIn = FALSE, !.this.warned = FALSE]
<1>1. Texted(s, t) /\ Texted(s, u) /\ Texted(s, v)
  BY DEF Texted, Calls, Instances, CStates
<1>2. WriteImage(s, image, raw) \in {s, ErrorExit(s), ErrorExit(u), ErrorExit(t), CAbort(t)}
  BY DEF WriteImage
<1>3. WriteCoefficients(s, image) \in {s, ErrorExit(s), ErrorExit(v), CAbort(v)}
  BY DEF WriteCoefficients
<1> HIDE DEF t, u, v
<1>4. /\ Tells(s, t) /\ t \in Calls /\ Tells(s, u) /\ u \in Calls /\ Tells(s, v) /\ v \in Calls
      /\ Tells(s, s) /\ Tells(s, ErrorExit(s))
  BY <1>1, TextedTells, TellsOnes, ErrorTells DEF Tells
<1>5. /\ Tells(u, ErrorExit(u)) /\ Tells(t, ErrorExit(t)) /\ Tells(t, CAbort(t))
      /\ Tells(v, ErrorExit(v)) /\ Tells(v, CAbort(v))
  BY <1>4, ErrorTells, AbortTells
<1>6. /\ Tells(s, ErrorExit(u)) /\ Tells(s, ErrorExit(t)) /\ Tells(s, CAbort(t))
      /\ Tells(s, ErrorExit(v)) /\ Tells(s, CAbort(v))
  BY <1>4, <1>5, TellsTells
<1> QED BY <1>2, <1>3, <1>4, <1>6

-----------------------------------------------------------------------------
(* The functions of turbojpeg.c. *)

(* A call that begins with an idle decompress object, if there is one. *)
Starts(s) ==
    /\ s \in Calls /\ ~s.jump
    /\ s.this.dstate = IF "decompress" \in s.this.init THEN "start" ELSE "none"

Explains(s) == s \in Calls /\ Told(s)

(* What a piece that tells does to a call that explains itself.            *)
LEMMA TellsExplains ==
    ASSUME NEW s, NEW t, Explains(s), Tells(s, t)
    PROVE  Explains(t)
  BY DEF Explains, Tells

(* How the functions begin. *)
LEMMA BeginExplains ==
    ASSUME NEW s \in Calls, ~s.jump, NEW stop \in BOOLEAN, NEW use, NEW bad \in BOOLEAN
    PROVE  /\ Explains(Checked(StopOn(Enter(s), stop), use, bad))
           /\ Same(s, Checked(StopOn(Enter(s), stop), use, bad))
           /\ Checked(StopOn(Enter(s), stop), use, bad).jump \/ use \in s.this.init
           /\ Fresh(s) => Fresh(Checked(StopOn(Enter(s), stop), use, bad))
<1> DEFINE t == StopOn(Enter(s), stop)
<1>1. t \in Calls /\ Told(t) /\ (Fresh(s) => Fresh(t))
  BY EnterTells
<1>2. t.this.init = s.this.init
  BY EnterStopSame DEF Same, Keeps
<1>3. Same(s, Checked(t, use, bad))
  BY EnterCheckedSame
<1> HIDE DEF t
<1>4. Tells(t, Checked(t, use, bad)) /\ (Checked(t, use, bad).jump \/ use \in t.this.init)
  BY <1>1, CheckedTells
<1>5. /\ Explains(Checked(t, use, bad)) /\ (Checked(t, use, bad).jump \/ use \in s.this.init)
      /\ Fresh(s) => Fresh(Checked(t, use, bad))
  BY <1>1, <1>2, <1>4 DEF Explains, Tells
<1> QED BY <1>3, <1>5 DEF t

(* How they end. *)
LEMMA EndExplains ==
    ASSUME NEW s, Explains(s)
    PROVE  /\ Explains(BailoutD(s)) /\ Explains(BailoutC(s)) /\ Explains(Got(s))
           /\ Explains(BailoutD(Got(s)))
<1>1. Explains(BailoutD(s)) /\ Explains(BailoutC(s)) /\ Explains(Got(s))
  BY AbortTells, GotTells, TellsExplains DEF Explains
<1> DEFINE g == Got(s)
<1>2. Explains(g)
  BY <1>1
<1> HIDE DEF g
<1>3. Explains(BailoutD(g))
  BY <1>2, AbortTells, TellsExplains DEF Explains
<1> QED BY <1>1, <1>3 DEF g

(* tjDecompressHeader3 explains its errors.                                *)
LEMMA Header3Explains ==
    ASSUME NEW s, Starts(s), NEW badArgs \in BOOLEAN, NEW pic \in Images, NEW luck \in BOOLEAN
    PROVE  Explains(Header3(s, badArgs, pic, luck))
<1> DEFINE e == Enter(s)
           k == Checked(e, "decompress", badArgs)
           a == ReadHeader(k, pic, luck)
           b == DAbort(a)
           c == ThrowIf(b, OddLayout(a))
<1>1. e \in Calls /\ Told(e) /\ Same(s, e)
  <2>1. FALSE \in BOOLEAN
    OBVIOUS
  <2> QED BY <2>1, EnterTells, EnterSame DEF Starts
<1>2. Explains(k) /\ (k.jump \/ k.this.dstate = "start")
  <2> HIDE DEF e
  <2>1. /\ Tells(e, k) /\ (k.jump \/ "decompress" \in e.this.init) /\ Same(e, k)
    BY <1>1, CheckedTells, CheckedSame
  <2> QED BY <1>1, <2>1 DEF Starts, Same, Keeps, SameD, Tells, Explains
<1>3. Telling(a)
  <2> HIDE DEF k
  <2> QED BY <1>2, ReadHeaderTells DEF Explains
<1>4. Explains(b)
  <2> HIDE DEF a
  <2> QED BY <1>3, AbortTells, TellsExplains DEF Telling, Explains
<1>5. Explains(c)
  <2>1. OddLayout(a) \in BOOLEAN
    BY DEF OddLayout
  <2> HIDE DEF a, b
  <2> QED BY <1>4, <2>1, ThrowTells, TellsExplains DEF Explains
<1>6. Header3(s, badArgs, pic, luck) = IF a.jump THEN a ELSE Got(c)
  BY DEF Header3
<1> HIDE DEF a, b, c
<1> QED BY <1>3, <1>5, <1>6, EndExplains DEF Telling, Explains

(* tjDecompress2 explains its errors.                                      *)
LEMMA Decompress2Explains ==
    ASSUME NEW s, Starts(s), NEW badArgs \in BOOLEAN, NEW pic \in Images,
           NEW tooSmall \in BOOLEAN, NEW stop \in BOOLEAN, NEW luck \in BOOLEAN
    PROVE  Explains(Decompress2(s, badArgs, pic, tooSmall, stop, luck))
<1> DEFINE a == Checked(StopOn(Enter(s), stop), "decompress", badArgs)
           h == ReadHeader(a, pic, luck)
           b == ThrowIf(h, tooSmall)
           raw == FALSE
           i == ReadImage(b, "scanning", raw)
<1>1. Explains(a) /\ (a.jump \/ a.this.dstate = "start")
  <2>1. Explains(a) /\ Same(s, a) /\ (a.jump \/ "decompress" \in s.this.init)
    BY BeginExplains DEF Starts
  <2> HIDE DEF a
  <2> QED BY <2>1 DEF Starts, Same, SameD
<1>2. Telling(h)
  <2> HIDE DEF a
  <2> QED BY <1>1, ReadHeaderTells DEF Explains
<1>3. Telling(b)
  <2> HIDE DEF h
  <2> QED BY <1>2, ThrowTells, TellsTelling DEF Telling
<1>4. Telling(i)
  <2>1. "scanning" \in DStates /\ raw \in BOOLEAN
    BY DEF DStates
  <2> HIDE DEF b, raw
  <2> QED BY <1>3, <2>1, ReadImageTells
<1>5. Decompress2(s, badArgs, pic, tooSmall, stop, luck) = BailoutD(Got(i))
  BY DEF Decompress2
<1> HIDE DEF i
<1> QED BY <1>4, <1>5, EndExplains DEF Telling, Explains

(* Called with a header already read: its warning, if it brought one, is     *)
(* still the text of the error manager.                                      *)
LEMMA ToYUVPlanesExplains ==
    ASSUME NEW s, Telling(s), ~s.jump, NEW tooSmall \in BOOLEAN, NEW stop \in BOOLEAN
    PROVE  Explains(ToYUVPlanes(s, tooSmall, stop))
<1> DEFINE no == FALSE
           a == Checked(StopOn(Enter(s), stop), "decompress", no)
           bad == OddLayout(a) \/ tooSmall \/ a.this.header.layout = "cmyk"
           b == ThrowIf(a, bad)
           c == IF b.jump THEN b ELSE RawOut(b)
           raw == TRUE
           i == ReadImage(c, "raw", raw)
<1>0. s \in Calls /\ no \in BOOLEAN /\ raw \in BOOLEAN /\ "raw" \in DStates
  BY DEF Telling, DStates
<1>1. Telling(a)
  <2>1. Explains(a) /\ Fresh(a)
    <3> HIDE DEF no
    <3> QED BY <1>0, BeginExplains DEF Telling
  <2> HIDE DEF a
  <2> QED BY <2>1 DEF Telling, Explains
<1>2. Telling(b)
  <2>1. bad \in BOOLEAN
    BY DEF OddLayout
  <2> HIDE DEF a, bad
  <2> QED BY <1>1, <2>1, ThrowTells, TellsTelling DEF Telling
<1>3. Telling(c)
  <2> HIDE DEF b
  <2>1. Texted(b, RawOut(b))
    BY <1>2 DEF Texted, RawOut, Telling, Calls, Instances
  <2>2. Telling(RawOut(b))
    BY <1>2, <2>1, TextedTells, TellsTelling DEF Telling
  <2> QED BY <1>2, <2>2
<1>4. Telling(i)
  <2> HIDE DEF c, raw
  <2> QED BY <1>0, <1>3, ReadImageTells
<1>5. ToYUVPlanes(s, tooSmall, stop) = BailoutD(Got(i))
  BY DEF ToYUVPlanes, RawOut
<1> HIDE DEF i
<1> QED BY <1>4, <1>5, EndExplains DEF Telling, Explains

(* tjDecompressToYUV2 does not ask whether there is a decompress object. *)
LEMMA ToYUV2Explains ==
    ASSUME NEW s, Starts(s), "decompress" \in s.this.init, NEW badArgs \in BOOLEAN,
           NEW pic \in Images, NEW tooSmall \in BOOLEAN, NEW stop \in BOOLEAN,
           NEW luck \in BOOLEAN
    PROVE  Explains(ToYUV2(s, badArgs, pic, tooSmall, stop, luck))
<1> DEFINE z == StopOn(Enter(s), stop)
           a == ThrowIf(z, badArgs)
           b == ReadHeader(a, pic, luck)
           c == ThrowIf(b, OddLayout(b) \/ tooSmall)
           no == FALSE
           r == ToYUV2(s, badArgs, pic, tooSmall, stop, luck)
<1>1. Explains(z) /\ Same(s, z)
  BY EnterTells, EnterStopSame DEF Starts, Explains
<1>2. Explains(a) /\ a.this.dstate = "start"
  <2> HIDE DEF z
  <2>1. Tells(z, a) /\ Same(z, a)
    BY <1>1, ThrowTells, ThrowIfSame DEF Explains
  <2> HIDE DEF a
  <2> QED BY <1>1, <2>1, TellsExplains DEF Starts, Same, SameD
<1>3. Telling(b)
  <2> HIDE DEF a
  <2> QED BY <1>2, ReadHeaderTells DEF Explains
<1>4. Telling(c)
  <2>1. (OddLayout(b) \/ tooSmall) \in BOOLEAN
    BY DEF OddLayout
  <2> HIDE DEF b
  <2> QED BY <1>3, <2>1, ThrowTells, TellsTelling DEF Telling
<1>5. \/ r = StopOn(c, no)
      \/ r = b
      \/ ~c.jump /\ r = ToYUVPlanes(c, tooSmall, stop)
  BY DEF ToYUV2
<1> HIDE DEF b, c, r
<1>6. Explains(StopOn(c, no))
  <2>1. Texted(c, StopOn(c, no))
    BY <1>4 DEF Texted, StopOn, Telling, Calls, Instances
  <2>2. Explains(c)
    BY <1>4 DEF Telling, Explains
  <2> QED BY <2>1, <2>2, TextedTells, TellsExplains DEF Explains
<1>7. Explains(b)
  BY <1>3 DEF Telling, Explains
<1>8. ~c.jump => Explains(ToYUVPlanes(c, tooSmall, stop))
  BY <1>4, ToYUVPlanesExplains
<1>9. Explains(r)
  BY <1>5, <1>6, <1>7, <1>8
<1> QED BY <1>9 DEF r

(* tjDecodeYUV explains its errors, those of its wrapper too.              *)
LEMMA DecodeYUVExplains ==
    ASSUME NEW s, Starts(s), NEW badArgs \in BOOLEAN, NEW image \in Images, NEW cmyk \in BOOLEAN,
           NEW stop \in BOOLEAN, NEW luck \in BOOLEAN
    PROVE  Explains(DecodeYUV(s, badArgs, image, cmyk, stop, luck))
<1> DEFINE wrap == ThrowIf(EnterWrapper(s), badArgs)
           no == FALSE
           k == Checked(StopOn(Enter(wrap), stop), "decompress", no)
           a == ThrowIf(k, cmyk)
           h == ByHand(a, image)
           c == ReadHeader(h, image, luck)
           d == Stubs(c, a.this.stubs)
           e == DAbort(d)
           r == DecodeYUV(s, badArgs, image, cmyk, stop, luck)
<1>1. wrap \in Calls /\ Same(s, wrap) /\ (wrap.jump => Told(wrap))
  BY WrapperTells, WrapperSame DEF Starts
<1>2. CASE wrap.jump
  <2>1. r = wrap
    BY <1>2 DEF DecodeYUV
  <2> HIDE DEF wrap, r
  <2>2. Explains(r)
    BY <1>1, <1>2, <2>1 DEF Explains
  <2> QED BY <2>2 DEF r
<1>3. CASE ~wrap.jump
  <2>1. Explains(k) /\ (k.jump \/ k.this.dstate = "start")
    <3>1. no \in BOOLEAN
      OBVIOUS
    <3> HIDE DEF wrap, no
    <3>2. Explains(k) /\ Same(wrap, k) /\ (k.jump \/ "decompress" \in wrap.this.init)
      BY <1>1, <1>3, <3>1, BeginExplains
    <3> HIDE DEF k
    <3> QED BY <1>1, <3>2 DEF Starts, Same, Keeps, SameD
  <2>2. Explains(a) /\ (a.jump \/ a.this.dstate = "start")
    <3> HIDE DEF k
    <3>1. Tells(k, a) /\ Same(k, a) /\ (~a.jump => ~k.jump)
      BY <2>1, ThrowTells, ThrowIfSame DEF Explains
    <3> HIDE DEF a
    <3> QED BY <2>1, <3>1, TellsExplains DEF Same, SameD
  <2>3. Explains(h) /\ (h.jump \/ h.this.dstate = "start")
    <3> HIDE DEF a
    <3>1. Texted(a, h) /\ Same(a, h)
      <4>1. Texted(a, h)
        BY <2>2 DEF Texted, ByHand, Explains, Calls, Instances
      <4> QED BY <2>2, <4>1, ByHandSame DEF Explains
    <3> HIDE DEF h
    <3> QED BY <2>2, <3>1, TextedTells, TellsExplains DEF Explains, Same, SameD, Texted
  <2>4. Telling(c)
    <3> HIDE DEF h
    <3> QED BY <2>3, ReadHeaderTells DEF Explains
  <2>5. Explains(d)
    <3>1. a.this.stubs \in BOOLEAN
      BY <2>2 DEF Explains, Calls, Instances
    <3> HIDE DEF a, c
    <3>2. Texted(c, d)
      BY <2>4, <3>1 DEF Texted, Stubs, Telling, Calls, Instances
    <3> QED BY <2>4, <3>2, TextedTells, TellsExplains DEF Telling, Explains
  <2>6. Explains(e)
    <3> HIDE DEF d
    <3> QED BY <2>5, AbortTells, TellsExplains DEF Explains
  <2>7. r \in {BailoutD(a), BailoutD(c), BailoutD(Got(e))}
    BY <1>3 DEF DecodeYUV, ByHand, Stubs
  <2> HIDE DEF a, c, e, r
  <2>8. Explains(BailoutD(a)) /\ Explains(BailoutD(c)) /\ Explains(BailoutD(Got(e)))
    BY <2>2, <2>4, <2>6, EndExplains DEF Telling, Explains
  <2>9. Explains(r)
    BY <2>7, <2>8
  <2> QED BY <2>9 DEF r
<1> QED BY <1>2, <1>3

(* tjCompress2 and tjCompressFromYUVPlanes explain their errors.           *)
LEMMA CompressExplains ==
    ASSUME NEW s \in Calls, ~s.jump, NEW badArgs \in BOOLEAN, NEW image,
           NEW stop \in BOOLEAN, NEW raw \in BOOLEAN
    PROVE  Explains(Compress(s, badArgs, image, stop, raw))
<1> DEFINE a == Checked(StopOn(Enter(s), stop), "compress", badArgs)
           m == MemDest(a, image = "noBuffer")
           b == SetCompDefaults(m, raw)
           w == WriteImage(b, image, raw)
<1>1. Explains(a)
  BY BeginExplains
<1>2. Explains(m)
  <2> HIDE DEF a
  <2> QED BY <1>1, DestTells, TellsExplains DEF Explains
<1>3. Explains(b)
  <2> HIDE DEF m
  <2> QED BY <1>2, DestTells, TellsExplains DEF Explains
<1>4. Explains(w)
  <2> HIDE DEF b
  <2> QED BY <1>3, WriteTells, TellsExplains DEF Explains
<1>5. Compress(s, badArgs, image, stop, raw) = BailoutC(w)
  BY DEF Compress
<1> HIDE DEF w
<1> QED BY <1>4, <1>5, EndExplains

(* tjCompressFromYUV explains its errors.                                  *)
LEMMA CompressFromYUVExplains ==
    ASSUME NEW s \in Calls, ~s.jump, NEW badArgs \in BOOLEAN, NEW image, NEW stop \in BOOLEAN
    PROVE  Explains(CompressFromYUV(s, badArgs, image, stop))
<1> DEFINE wrap == ThrowIf(EnterWrapper(s), badArgs)
           no == FALSE
           yes == TRUE
<1>1. wrap \in Calls /\ (wrap.jump => Told(wrap)) /\ no \in BOOLEAN /\ yes \in BOOLEAN
  BY WrapperTells
<1>2. CompressFromYUV(s, badArgs, image, stop)
        = IF wrap.jump THEN wrap ELSE Compress(wrap, no, image, stop, yes)
  BY DEF CompressFromYUV
<1> HIDE DEF wrap, no, yes
<1>3. ~wrap.jump => Explains(Compress(wrap, no, image, stop, yes))
  BY <1>1, CompressExplains
<1> QED BY <1>1, <1>2, <1>3 DEF Explains

(* tjEncodeYUV3 explains its errors.                                       *)
LEMMA EncodeYUVExplains ==
    ASSUME NEW s \in Calls, ~s.jump, NEW badArgs \in BOOLEAN, NEW image, NEW cmyk \in BOOLEAN,
           NEW stop \in BOOLEAN
    PROVE  Explains(EncodeYUV(s, badArgs, image, cmyk, stop))
<1> DEFINE wrap == ThrowIf(EnterWrapper(s), badArgs)
           no == FALSE
           k == Checked(StopOn(Enter(wrap), stop), "compress", no)
           a == ThrowIf(k, cmyk)
           b == SetCompDefaults(a, no)
           c == ThrowIf(b, b.this.cstate # "start")
           d == Unwarned(c)
           r == EncodeYUV(s, badArgs, image, cmyk, stop)
<1>1. wrap \in Calls /\ (wrap.jump => Told(wrap)) /\ no \in BOOLEAN
  BY WrapperTells
<1>2. CASE wrap.jump
  <2>1. r = wrap
    BY <1>2 DEF EncodeYUV
  <2> HIDE DEF wrap, r
  <2>2. Explains(r)
    BY <1>1, <1>2, <2>1 DEF Explains
  <2> QED BY <2>2 DEF r
<1>3. CASE ~wrap.jump
  <2>1. Explains(k)
    <3> HIDE DEF wrap, no
    <3> QED BY <1>1, <1>3, BeginExplains
  <2>2. Explains(a)
    <3> HIDE DEF k
    <3> QED BY <2>1, ThrowTells, TellsExplains DEF Explains
  <2>3. Explains(b)
    <3> HIDE DEF a, no
    <3> QED BY <1>1, <2>2, DestTells, TellsExplains DEF Explains
  <2>4. Explains(c)
    <3>1. (b.this.cstate # "start") \in BOOLEAN
      OBVIOUS
    <3> HIDE DEF b
    <3> QED BY <2>3, <3>1, ThrowTells, TellsExplains DEF Explains
  <2>5. Explains(d)
    <3> HIDE DEF c
    <3>1. Texted(c, d)
      BY <2>4 DEF Texted, Unwarned, Explains, Calls, Instances
    <3> QED BY <2>4, <3>1, TextedTells, TellsExplains DEF Explains
  <2>6. r \in {BailoutC(c), BailoutC(ErrorExit(d)), BailoutC(CAbort(d))}
    BY <1>3 DEF EncodeYUV, Unwarned
  <2> HIDE DEF c, d, r
  <2>7. Explains(ErrorExit(d)) /\ Explains(CAbort(d))
    BY <2>5, ErrorTells, AbortTells, TellsExplains DEF Explains
  <2>8. /\ Explains(BailoutC(c)) /\ Explains(BailoutC(ErrorExit(d)))
        /\ Explains(BailoutC(CAbort(d)))
    BY <2>4, <2>7, EndExplains
  <2>9. Explains(r)
    BY <2>6, <2>8
  <2> QED BY <2>9 DEF r
<1> QED BY <1>2, <1>3

(* tjTransform explains its errors, whichever of the two objects fails.    *)
LEMMA TransformExplains ==
    ASSUME NEW s, Starts(s), NEW pic \in Images, NEW how, NEW stop \in BOOLEAN,
           NEW luck \in BOOLEAN
    PROVE  Explains(Transform(s, pic, how, stop, luck))
<1> DEFINE k == Checked(StopOn(Enter(s), stop), "compress", how = "bad")
           no == FALSE
           a == Checked(k, "decompress", no)
           b == ReadHeader(a, pic, luck)
           c == ThrowIf(b, OddLayout(b) \/ how = "imperfect")
           d == IF how = "crop" /\ ~c.jump THEN ErrorExit(c) ELSE c
           e == ReadImage(d, "stopping", no)
           m == MemDest(e, how = "noBuffer")
           f == IF how # "noOutput" THEN WriteCoefficients(m, how)
                ELSE IF e.jump THEN e ELSE RawInOff(e)
<1>0. no \in BOOLEAN /\ "stopping" \in DStates
  BY DEF DStates
<1>1. Explains(k) /\ Same(s, k)
  BY BeginExplains DEF Starts
<1>2. Explains(a) /\ (a.jump \/ a.this.dstate = "start")
  <2> HIDE DEF k, no
  <2>1. Tells(k, a) /\ Same(k, a) /\ (a.jump \/ "decompress" \in k.this.init)
    BY <1>0, <1>1, CheckedTells, CheckedSame DEF Explains
  <2> HIDE DEF a
  <2> QED BY <1>1, <2>1, TellsExplains DEF Starts, Same, Keeps, SameD
<1>3. Telling(b)
  <2> HIDE DEF a
  <2> QED BY <1>2, ReadHeaderTells DEF Explains
<1>4. Telling(c)
  <2>1. (OddLayout(b) \/ how = "imperfect") \in BOOLEAN
    BY DEF OddLayout
  <2> HIDE DEF b
  <2> QED BY <1>3, <2>1, ThrowTells, TellsTelling DEF Telling
<1>5. Telling(d)
  <2> HIDE DEF c
  <2> QED BY <1>4, ErrorTells, TellsTelling DEF Telling
<1>6. Telling(e)
  <2> HIDE DEF d, no
  <2> QED BY <1>0, <1>5, ReadImageTells
<1>7. Telling(m)
  <2>1. Tells(e, m)
    <3> HIDE DEF e
    <3> QED BY <1>6, ErrorTells, TellsOnes DEF MemDest, Telling
  <2> HIDE DEF e, m
  <2> QED BY <1>6, <2>1, TellsTelling
<1>8. Explains(f)
  <2>1. Tells(m, WriteCoefficients(m, how))
    <3>1. no \in BOOLEAN
      OBVIOUS
    <3> HIDE DEF m, no
    <3> QED BY <1>7, <3>1, WriteTells DEF Telling
  <2> HIDE DEF e, m
  <2>2. Explains(WriteCoefficients(m, how))
    BY <1>7, <2>1, TellsExplains DEF Telling, Explains
  <2>3. Texted(e, RawInOff(e))
    BY <1>6 DEF Texted, RawInOff, Telling, Calls, Instances
  <2>4. Explains(e) /\ Explains(RawInOff(e))
    BY <1>6, <2>3, TextedTells, TellsExplains DEF Telling, Explains
  <2> QED BY <2>2, <2>4
<1>9. Transform(s, pic, how, stop, luck) = BailoutD(BailoutC(Got(f)))
  BY DEF Transform, RawInOff
<1> HIDE DEF f
<1> DEFINE g == Got(f)
           h == BailoutC(g)
<1>10. Explains(g)
  BY <1>8, EndExplains
<1> HIDE DEF g
<1>11. Explains(h)
  BY <1>10, EndExplains
<1> HIDE DEF h
<1>12. Explains(BailoutD(h))
  BY <1>11, EndExplains
<1> QED BY <1>9, <1>12 DEF g, h

-----------------------------------------------------------------------------
(* The answers. *)

(* A call on a clean handle starts with an idle decompress object.         *)
LEMMA StartsClean ==
    ASSUME TurboJpegTypeOK
    PROVE  /\ Call \in Calls /\ ~Call.jump /\ Call.this.init = this.init
           /\ Clean(this) => Starts(Call)
<1>1. /\ Call \in Calls /\ Call.this.init = this.init /\ Call.this.dstate = this.dstate
  BY CallTyped
<1>2. ~Call.jump
  BY DEF Call
<1> QED BY <1>1, <1>2 DEF TurboJpegTypeOK, Clean, Starts

(* What the handle is left with, when the function explains itself.        *)
LEMMA ExplainedReturn ==
    ASSUME NEW op, NEW asked, NEW sound, NEW s, NEW error,
           Clean(this) => Explains(s), Return(op, asked, sound, s, error)
    PROVE  ErrorExplained'
<1> SUFFICES ASSUME last'.ret # 0, last'.clean
             PROVE  (IF this'.isInstanceError THEN this'.text ELSE errStr')
                      \in {last'.why, "another's"}
  BY DEF ErrorExplained, Failed
<1>1. this' = s.this /\ errStr' = s.errStr /\ last'.why = s.why
  BY DEF Return
<1>2. Explains(s)
  BY DEF Return
<1>3. s.jump \/ s.this.warning
  BY DEF Return
<1>4. s.errStr = s.why /\ (s.this.isInstanceError => s.this.text = s.why)
  BY <1>2, <1>3 DEF Explains, Told
<1> QED BY <1>1, <1>4

(* Every method with arguments: one function, and the return of its        *)
(* record.                                                                 *)
LEMMA ExplainedMethodStep ==
    ASSUME TurboJpegTypeOK,
           \/ TjDecompressHeader3 \/ TjDecompress2 \/ TjDecompressToYUV2 \/ TjDecodeYUV
           \/ TjCompress2 \/ TjCompressFromYUV \/ TjEncodeYUV3 \/ TjTransform
    PROVE  ErrorExplained'
<1> DEFINE no == FALSE
<1>0. no \in BOOLEAN
  OBVIOUS
<1>1. CASE TjDecompressHeader3
  <2> SUFFICES ASSUME NEW flaw \in {"none", "bad"}, NEW luck \in Luck, NEW pic \in PicturesFor(flaw),
                      Return("header", pic, flaw = "none" /\ Sound(pic) /\ Is("decompress"),
                             Header3(Call, flaw = "bad", pic, luck), -1)
               PROVE  ErrorExplained'
    BY <1>1 DEF TjDecompressHeader3
  <2>1. Clean(this) => Explains(Header3(Call, flaw = "bad", pic, luck))
    BY StartsClean, PictureTypes, Header3Explains
  <2> QED BY <2>1, ExplainedReturn
<1>2. CASE TjDecompress2
  <2> SUFFICES ASSUME NEW flaw \in {"none", "bad", "small"}, NEW luck \in Luck,
                      NEW pic \in PicturesFor(flaw), NEW stop \in Stops(pic),
                      Return("decompress", pic, flaw = "none" /\ Sound(pic) /\ Is("decompress"),
                             Decompress2(Call, flaw = "bad", pic, flaw = "small", stop, luck), -1)
               PROVE  ErrorExplained'
    BY <1>2 DEF TjDecompress2
  <2>1. Clean(this) => Explains(Decompress2(Call, flaw = "bad", pic, flaw = "small", stop, luck))
    BY StartsClean, PictureTypes, Decompress2Explains
  <2> QED BY <2>1, ExplainedReturn
<1>3. CASE TjDecompressToYUV2
  <2> SUFFICES ASSUME NEW flaw \in {"none", "bad", "small"}, NEW luck \in Luck, NEW stop \in BOOLEAN,
                      NEW pic \in PicturesFor(flaw), Is("decompress"),
                      Return("toYUV", pic, flaw = "none" /\ Sound(pic),
                             ToYUV2(Call, flaw = "bad", pic, flaw = "small", stop, luck), -1)
               PROVE  ErrorExplained'
    BY <1>3 DEF TjDecompressToYUV2
  <2>1. Clean(this) => Explains(ToYUV2(Call, flaw = "bad", pic, flaw = "small", stop, luck))
    BY StartsClean, PictureTypes, ToYUV2Explains DEF Is
  <2> QED BY <2>1, ExplainedReturn
<1>4. CASE TjDecodeYUV
  <2> SUFFICES ASSUME NEW flaw \in {"none", "bad", "cmyk"}, NEW luck \in Luck, NEW image \in YUVImages,
                      Return("decode", image, flaw = "none" /\ ~image.huge /\ Is("decompress"),
                             DecodeYUV(Call, flaw = "bad", image, flaw = "cmyk", no, luck), -2)
               PROVE  ErrorExplained'
    BY <1>4 DEF TjDecodeYUV
  <2> HIDE DEF no
  <2>1. Clean(this) => Explains(DecodeYUV(Call, flaw = "bad", image, flaw = "cmyk", no, luck))
    BY <1>0, StartsClean, PictureTypes, DecodeYUVExplains
  <2> QED BY <2>1, ExplainedReturn
<1>5. CASE TjCompress2
  <2> SUFFICES ASSUME NEW bad \in BOOLEAN, NEW image \in {"ok", "huge", "noBuffer", "noMemory"},
                      Return("compress", NoImage, ~bad /\ image = "ok" /\ Is("compress"),
                             Compress(Call, bad, image, no, no), -1)
               PROVE  ErrorExplained'
    BY <1>5 DEF TjCompress2
  <2> HIDE DEF no
  <2>1. Explains(Compress(Call, bad, image, no, no))
    BY <1>0, StartsClean, CompressExplains
  <2> QED BY <2>1, ExplainedReturn
<1>6. CASE TjCompressFromYUV
  <2> SUFFICES ASSUME NEW bad \in BOOLEAN, NEW image \in {"ok", "huge", "noBuffer", "noMemory"},
                      Return("compressYUV", NoImage, ~bad /\ image = "ok" /\ Is("compress"),
                             CompressFromYUV(Call, bad, image, no), -2)
               PROVE  ErrorExplained'
    BY <1>6 DEF TjCompressFromYUV
  <2> HIDE DEF no
  <2>1. Explains(CompressFromYUV(Call, bad, image, no))
    BY <1>0, StartsClean, CompressFromYUVExplains
  <2> QED BY <2>1, ExplainedReturn
<1>7. CASE TjEncodeYUV3
  <2> SUFFICES ASSUME NEW bad \in BOOLEAN, NEW cmyk \in BOOLEAN, NEW image \in {"ok", "huge"},
                      Return("encode", NoImage, ~bad /\ ~cmyk /\ image = "ok" /\ Is("compress"),
                             EncodeYUV(Call, bad, image, cmyk, no), -2)
               PROVE  ErrorExplained'
    BY <1>7 DEF TjEncodeYUV3
  <2> HIDE DEF no
  <2>1. Explains(EncodeYUV(Call, bad, image, cmyk, no))
    BY <1>0, StartsClean, EncodeYUVExplains
  <2> QED BY <2>1, ExplainedReturn
<1>8. CASE TjTransform
  <2> SUFFICES ASSUME NEW how \in {"none", "bad", "imperfect", "crop", "noOutput", "noBuffer",
                                  "noMemory"},
                      NEW luck \in Luck, NEW pic \in PicturesFor(how), NEW stop \in Stops(pic),
                      Return("transform", pic,
                             /\ how \in {"none", "noOutput"} /\ Sound(pic)
                             /\ Is("decompress") /\ Is("compress"),
                             Transform(Call, pic, how, stop, luck), -1)
               PROVE  ErrorExplained'
    BY <1>8 DEF TjTransform
  <2>1. Clean(this) => Explains(Transform(Call, pic, how, stop, luck))
    BY StartsClean, PictureTypes, TransformExplains
  <2> QED BY <2>1, ExplainedReturn
<1> QED BY <1>1, <1>2, <1>3, <1>4, <1>5, <1>6, <1>7, <1>8

(* A failure on another thread's handle is the one thing that may take the   *)
(* text away.                                                                *)
LEMMA ExplainedStep ==
    ASSUME TurboJpegTypeOK, ErrorExplained, [TurboJpegNext]_tjvars
    PROVE  ErrorExplained'
<1>1. CASE \/ \E uses \in {{"compress"}, {"decompress"}, {"compress", "decompress"}} : Create(uses)
           \/ Destroy \/ Refused \/ TjGetErrorStr2
  <2>1. last' = NoCall \/ last' = [NoCall EXCEPT !.ret = -1, !.why = "refused"]
    BY <1>1 DEF Create, Destroy, Refused, TjGetErrorStr2
  <2>2. NoCall.op = "none" /\ [NoCall EXCEPT !.ret = -1, !.why = "refused"].op = "none"
    BY DEF NoCall
  <2>3. last'.op = "none"
    BY <2>1, <2>2, Zenon
  <2> QED BY <2>3 DEF ErrorExplained, Failed
<1>2. CASE OtherFails
  <2>1. last' = last /\ this' = this /\ errStr' = "another's"
    BY <1>2 DEF OtherFails
  <2> QED BY <2>1 DEF ErrorExplained, Failed
<1>3. CASE UNCHANGED tjvars
  <2>1. last' = last /\ this' = this /\ errStr' = errStr
    BY <1>3 DEF tjvars
  <2> QED BY <2>1 DEF ErrorExplained, Failed
<1> QED BY <1>1, <1>2, <1>3, ExplainedMethodStep DEF TurboJpegNext

(* When a call on a clean handle fails, tjGetErrorStr2 has a text about that *)
(* failure, the THROW of turbojpeg.c or the message of libjpeg, whatever     *)
(* texts the calls before it left; only the failure of a call on another     *)
(* thread's handle can replace it.                                           *)
THEOREM ErrorsExplained == TurboJpegSpec => []ErrorExplained
<1>1. TurboJpegInit => ErrorExplained
  BY DEF TurboJpegInit, ErrorExplained, Failed, NoCall
<1>2. TurboJpegTypeOK /\ ErrorExplained /\ [TurboJpegNext]_tjvars => ErrorExplained'
  BY ExplainedStep
<1> QED BY <1>1, <1>2, HandleStaysIdle, PTL DEF TurboJpegSpec
=============================================================================
