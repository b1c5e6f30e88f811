----------------------------- MODULE TurboJpeg -----------------------------
(***************************************************************************)
(* turbo-jpeg-jni.cpp over turbojpeg.c: the handle of a Java client and the *)
(* calls it makes on it, with every picture and argument.  A call is one    *)
(* action: the calls on a handle come one after the other.  What the calls  *)
(* on the handles of other threads share with it is the text errStr.        *)
(***************************************************************************)
EXTENDS JpegObject, Integers

VARIABLES
    this,        \* the tjinstance behind the handle
    errStr,      \* the text shared by all instances and threads
    last         \* what is known of the last call

tjvars == <<this, errStr, last>>

DecompressOps == {"header", "decompress", "toYUV", "decode"}
Ops == DecompressOps \cup {"none", "compress", "compressYUV", "encode", "transform"}

(* op, what it answered, what stopped it or warned it, whose picture it     *)
(* took, and of its beginning: whether the handle was clean (see Clean) and *)
(* whether picture and arguments were such that nothing can go wrong.       *)
Results == [op : Ops, ret : {0, -1, -2}, why : {"nothing", "refused", "warning", "error"},
            got : {"none", "own", "other"}, clean : BOOLEAN, sound : BOOLEAN]
NoCall == [op |-> "none", ret |-> 0, why |-> "nothing", got |-> "none",
           clean |-> FALSE, sound |-> FALSE]

(* The variables are well typed, and no call leaves its objects in the      *)
(* middle of a picture: however it ends (an argument, the picture's size,   *)
(* no buffer, no memory in the middle of the rows), the compress object is  *)
(* idle for the next one, the decompress object at most past a header, and  *)
(* neither exists that the instance was not made with.                      *)
TurboJpegTypeOK ==
    /\ this \in Instances
    /\ this.cstate = IF "compress" \in this.init THEN "start" ELSE "none"
    /\ this.dstate \in IF "decompress" \in this.init THEN {"start", "inheader", "ready"} ELSE {"none"}
    /\ errStr \in Texts
    /\ last \in Results

TurboJpegInit == this = NewInstance /\ errStr = "earlier" /\ last = NoCall

-----------------------------------------------------------------------------
(* The pieces every function of turbojpeg.c is made of. *)

Aged(text) == IF text \in {"warning", "error"} THEN "earlier" ELSE text

(* A call under way: what the texts say is of an earlier call now. *)
Call == [this |-> [this EXCEPT !.text = Aged(@)], errStr |-> Aged(errStr),
         jump |-> FALSE, why |-> "nothing", got |-> NoImage]

(* Mutant of Enter: the error of the last call is kept. *)
EnterKeepsError(s) == [s EXCEPT !.this.warning = FALSE]

(* GET_INSTANCE, GET_CINSTANCE, GET_DINSTANCE *)
Enter(s) == [s EXCEPT !.this.warning = FALSE, !.this.isInstanceError = FALSE]

(* The wrappers of the YUV functions only do this before they look at their *)
(* arguments.                                                               *)
EnterWrapper(s) == [s EXCEPT !.this.isInstanceError = FALSE]

StopOn(s, stop) == [s EXCEPT !.this.stop = stop]

(* THROW: the text is kept in the instance and in errStr. *)
ThrowIf(s, bad) ==
    IF bad /\ ~s.jump
    THEN [s EXCEPT !.this.text = "error", !.this.isInstanceError = TRUE,
                   !.errStr = "error", !.why = "error", !.jump = TRUE]
    ELSE s

(* The arguments, and before them the use the instance was made for. *)
Checked(s, use, badArgs) == ThrowIf(s, use \notin s.this.init \/ badArgs)

(* Mutant of BailoutC: the object is not aborted. *)
BailoutNever(s) == [s EXCEPT !.this.stop = FALSE]

(* The label bailout for the compress object: it aborts an object that is   *)
(* further than START, and resets stopOnWarning.                            *)
BailoutC(s) ==
    [IF s.this.cstate \in {"none", "start"} THEN s ELSE CAbort(s)
       EXCEPT !.this.stop = FALSE]

(* The same for the decompress object. *)
BailoutD(s) ==
    [IF s.this.dstate \in {"none", "start"} THEN s ELSE DAbort(s)
       EXCEPT !.this.stop = FALSE]

Got(s) == IF s.jump THEN s ELSE [s EXCEPT !.got = s.this.header]

OddLayout(s) == s.this.header.layout = "odd"

-----------------------------------------------------------------------------
(* The functions: from the record of the call to the record it ends with.   *)
(* tooSmall says that no scaling factor fits the size the caller asks for.  *)

(* tjDecompressHeader3: an error of libjpeg returns at once. *)
Header3(s, badArgs, pic, luck) ==
    LET a == ReadHeader(Checked(Enter(s), "decompress", badArgs), pic, luck)
    IN IF a.jump THEN a ELSE Got(ThrowIf(DAbort(a), OddLayout(a)))

(* tjDecompress2 *)
Decompress2(s, badArgs, pic, tooSmall, stop, luck) ==
    LET a == Checked(StopOn(Enter(s), stop), "decompress", badArgs)
        b == ThrowIf(ReadHeader(a, pic, luck), tooSmall)
    IN BailoutD(Got(ReadImage(b, "scanning", FALSE)))

(* tjDecompressToYUVPlanes, called by tjDecompressToYUV2 with headerRead    *)
(* set: it starts with a new GET_DINSTANCE, but does not read the header    *)
(* again.                                                                   *)
ToYUVPlanes(s, tooSmall, stop) ==
    LET a == Checked(StopOn(Enter(s), stop), "decompress", FALSE)
        b == ThrowIf(a, OddLayout(a) \/ tooSmall \/ a.this.header.layout = "cmyk")
        c == IF b.jump THEN b ELSE [b EXCEPT !.this.rawOut = TRUE]
    IN BailoutD(Got(ReadImage(c, "raw", TRUE)))

(* tjDecompressToYUV2: an error of libjpeg returns at once, and so does a   *)
(* THROW after the header, which leaves the object READY.                   *)
ToYUV2(s, badArgs, pic, tooSmall, stop, luck) ==
    LET a == ThrowIf(StopOn(Enter(s), stop), badArgs)
        b == ReadHeader(a, pic, luck)
        c == ThrowIf(b, OddLayout(b) \/ tooSmall)
    IN IF a.jump \/ (c.jump /\ ~b.jump) THEN StopOn(c, FALSE)
       ELSE IF b.jump THEN b
       ELSE ToYUVPlanes(c, tooSmall, stop)

(* tjDecodeYUV, tjDecodeYUVPlanes: the header is written by hand, and while *)
(* jpeg_read_header runs the marker reader's methods are replaced.          *)
DecodeYUV(s, badArgs, image, cmyk, stop, luck) ==
    LET wrap == ThrowIf(EnterWrapper(s), badArgs)
        a == ThrowIf(Checked(StopOn(Enter(wrap), stop), "decompress", FALSE), cmyk)
        b == [a EXCEPT !.this.header = image, !.this.freed = FALSE, !.this.stubs = TRUE]
        c == ReadHeader(b, image, luck)
    IN IF wrap.jump THEN wrap
       ELSE IF a.jump THEN BailoutD(a)
       ELSE IF c.jump THEN BailoutD(c)
       ELSE BailoutD(Got(DAbort([c EXCEPT !.this.stubs = a.this.stubs])))

(* tjCompress2, tjCompressFromYUVPlanes *)
Compress(s, badArgs, image, stop, raw) ==
    LET a == Checked(StopOn(Enter(s), stop), "compress", badArgs)
        b == SetCompDefaults(MemDest(a, image = "noBuffer"), raw)
    IN BailoutC(WriteImage(b, image, raw))

(* tjCompressFromYUV *)
CompressFromYUV(s, badArgs, image, stop) ==
    LET wrap == ThrowIf(EnterWrapper(s), badArgs)
    IN IF wrap.jump THEN wrap ELSE Compress(wrap, FALSE, image, stop, TRUE)

(* tjEncodeYUV3, tjEncodeYUVPlanes: only the start of a compression, given  *)
(* up when the planes are written.                                          *)
EncodeYUV(s, badArgs, image, cmyk, stop) ==
    LET wrap == ThrowIf(EnterWrapper(s), badArgs)
        a == ThrowIf(Checked(StopOn(Enter(wrap), stop), "compress", FALSE), cmyk)
        b == SetCompDefaults(a, FALSE)
        c == ThrowIf(b, b.this.cstate # "start")
        d == [c EXCEPT !.this.warned = FALSE]
    IN IF wrap.jump THEN wrap
       ELSE IF c.jump THEN BailoutC(c)
       ELSE IF image = "huge" THEN BailoutC(ErrorExit(d))
       ELSE BailoutC(CAbort(d))

(* tjTransform with one transform: what is wrong with the crop is told to   *)
(* errStr only; without an output the compress object is only told that its *)
(* data is not raw.                                                         *)
Transform(s, pic, how, stop, luck) ==
    LET a == Checked(Checked(StopOn(Enter(s), stop), "compress", how = "bad"),
                     "decompress", FALSE)
        b == ReadHeader(a, pic, luck)
        c == ThrowIf(b, OddLayout(b) \/ how = "imperfect")
        d == IF how = "crop" /\ ~c.jump THEN ErrorExit(c) ELSE c
        e == ReadImage(d, "stopping", FALSE)
        f == IF how # "noOutput"
             THEN WriteCoefficients(MemDest(e, how = "noBuffer"), how)
             ELSE IF e.jump THEN e ELSE [e EXCEPT !.this.rawIn = FALSE]
    IN BailoutD(BailoutC(Got(f)))

-----------------------------------------------------------------------------
(* The native methods of TurboJpegJni. *)

Alive == this.init # {}
Is(use) == use \in this.init

(* A handle no failure has left its mark on: its decompress object is idle  *)
(* and reads its markers itself.                                            *)
Clean(i) == i.dstate \in {"none", "start"} /\ ~i.stubs

(* The call returns 0, or -1 after an error or a warning; the JNI function  *)
(* answers with its own code for them.                                      *)
Return(op, asked, sound, s, error) ==
    /\ this' = s.this
    /\ errStr' = s.errStr
    /\ last' = [op |-> op, ret |-> IF s.jump \/ s.this.warning THEN error ELSE 0,
                why |-> s.why,
                got |-> IF s.got = NoImage THEN "none"
                        ELSE IF s.got = asked THEN "own" ELSE "other",
                clean |-> Clean(this), sound |-> sound]

(* tjInitCompress, tjInitDecompress, tjInitTransform: a new instance. *)
Create(uses) ==
    /\ ~Alive
    /\ this' = [NewInstance EXCEPT
                  !.init = uses,
                  !.cstate = IF "compress" \in uses THEN "start" ELSE "none",
                  !.dstate = IF "decompress" \in uses THEN "start" ELSE "none"]
    /\ last' = NoCall
    /\ UNCHANGED errStr

(* tjDestroy *)
Destroy == Alive /\ this' = NewInstance /\ last' = NoCall /\ UNCHANGED errStr

(* No object to put the result in, or no memory for it: the JNI function    *)
(* answers -1 and TurboJPEG hears nothing of the call.                      *)
Refused ==
    /\ Alive
    /\ last' = [NoCall EXCEPT !.ret = -1, !.why = "refused"]
    /\ UNCHANGED <<this, errStr>>

(* A picture read to its end without a warning. *)
Sound(pic) == pic.head = "ok" /\ ~pic.huge /\ pic.layout = "yuv" /\ pic.body = "ok"

(* The pictures that make a difference to a call: a call that refuses its   *)
(* arguments never looks at one, and what fails it after a picture is read  *)
(* does not matter to a picture that fails it earlier.                      *)
Readable(pic) ==
    pic.head \in {"ok", "warns"} /\ ~pic.huge /\ pic.layout # "odd" /\ pic.body # "fails"
PicturesFor(flaw) ==
    CASE flaw = "none" -> Pictures
      [] flaw = "bad"  -> {CHOOSE pic \in Pictures : TRUE}
      [] OTHER         -> {pic \in Pictures : Readable(pic)}

(* TJFLAG_STOPONWARNING makes a difference where there is a warning, and to *)
(* tjDecompressToYUV2, which leaves it set after an error in the header.    *)
Stops(pic) == IF "warns" \in {pic.head, pic.body} THEN BOOLEAN ELSE {FALSE}

(* What freed memory holds matters where the stubs are left. *)
Luck == IF this.stubs THEN BOOLEAN ELSE {TRUE}

TjDecompressHeader3 ==
    \E flaw \in {"none", "bad"}, luck \in Luck : \E pic \in PicturesFor(flaw) :
      /\ Alive
      /\ Return("header", pic, flaw = "none" /\ Sound(pic) /\ Is("decompress"),
                Header3(Call, flaw = "bad", pic, luck), -1)

TjDecompress2 ==
    \E flaw \in {"none", "bad", "small"}, luck \in Luck :
    \E pic \in PicturesFor(flaw) : \E stop \in Stops(pic) :
      /\ Alive
      /\ Return("decompress", pic, flaw = "none" /\ Sound(pic) /\ Is("decompress"),
                Decompress2(Call, flaw = "bad", pic, flaw = "small", stop, luck), -1)

(* tjDecompressToYUV2 does not ask for which use the instance was made: the *)
(* client does.                                                             *)
TjDecompressToYUV2 ==
    \E flaw \in {"none", "bad", "small"}, luck \in Luck, stop \in BOOLEAN :
    \E pic \in PicturesFor(flaw) :
      /\ Is("decompress")
      /\ Return("toYUV", pic, flaw = "none" /\ Sound(pic),
                ToYUV2(Call, flaw = "bad", pic, flaw = "small", stop, luck), -1)

TjDecodeYUV ==
    \E flaw \in {"none", "bad", "cmyk"}, luck \in Luck, image \in YUVImages :
      /\ Alive
      /\ Return("decode", image, flaw = "none" /\ ~image.huge /\ Is("decompress"),
                DecodeYUV(Call, flaw = "bad", image, flaw = "cmyk", FALSE, luck), -2)

TjCompress2 ==
    \E bad \in BOOLEAN, image \in {"ok", "huge", "noBuffer", "noMemory"} :
      /\ Alive
      /\ Return("compress", NoImage, ~bad /\ image = "ok" /\ Is("compress"),
                Compress(Call, bad, image, FALSE, FALSE), -1)

TjCompressFromYUV ==
    \E bad \in BOOLEAN, image \in {"ok", "huge", "noBuffer", "noMemory"} :
      /\ Alive
      /\ Return("compressYUV", NoImage, ~bad /\ image = "ok" /\ Is("compress"),
                CompressFromYUV(Call, bad, image, FALSE), -2)

TjEncodeYUV3 ==
    \E bad, cmyk \in BOOLEAN, image \in {"ok", "huge"} :
      /\ Alive
      /\ Return("encode", NoImage, ~bad /\ ~cmyk /\ image = "ok" /\ Is("compress"),
                EncodeYUV(Call, bad, image, cmyk, FALSE), -2)

TjTransform ==
    \E how \in {"none", "bad", "imperfect", "crop", "noOutput", "noBuffer", "noMemory"},
       luck \in Luck :
    \E pic \in PicturesFor(how) : \E stop \in Stops(pic) :
      /\ Alive
      /\ Return("transform", pic,
                /\ how \in {"none", "noOutput"} /\ Sound(pic)
                /\ Is("decompress") /\ Is("compress"),
                Transform(Call, pic, how, stop, luck), -1)

(* tjGetErrorStr2: the text of the instance is given once. *)
TjGetErrorStr2 ==
    /\ this.isInstanceError
    /\ this' = [this EXCEPT !.isInstanceError = FALSE]
    /\ last' = NoCall
    /\ UNCHANGED errStr

(* A call on a handle of another thread fails. *)
OtherFails == errStr' = "another's" /\ UNCHANGED <<this, last>>

TurboJpegNext ==
    \/ \E uses \in {{"compress"}, {"decompress"}, {"compress", "decompress"}} : Create(uses)
    \/ Destroy \/ Refused \/ TjGetErrorStr2 \/ OtherFails
    \/ TjDecompressHeader3 \/ TjDecompress2 \/ TjDecompressToYUV2 \/ TjDecodeYUV
    \/ TjCompress2 \/ TjCompressFromYUV \/ TjEncodeYUV3 \/ TjTransform

TurboJpegSpec == TurboJpegInit /\ [][TurboJpegNext]_tjvars

-----------------------------------------------------------------------------
(* Properties.  A state lies between two calls. *)

Failed == last.op # "none" /\ last.ret # 0

(* On a clean handle a call with a sound picture and fitting arguments      *)
(* succeeds and works on that picture, whatever flags, texts and headers    *)
(* the calls before it left.                                                *)
SoundCallSucceeds ==
    (last.clean /\ last.sound) =>
      /\ ~Failed
      /\ last.op \in DecompressOps => last.got = "own"

(* Whatever errors an instance has been through, a decompression that       *)
(* answers 0 took the header of the picture it was given, unless            *)
(* tjDecodeYUV has left its stub of the marker reader behind: what a cut    *)
(* header left is never read on as if it were the next picture's.           *)
OwnPicture ==
    (last.op \in DecompressOps \cup {"transform"} /\ ~Failed /\ ~this.stubs) =>
      last.got = "own"

(* tjGetErrorStr2 explains why the last command of a clean handle failed,   *)
(* unless an instance of another thread has failed since.                   *)
ErrorExplained ==
    LET text == IF this.isInstanceError THEN this.text ELSE errStr
    IN (Failed /\ last.clean) => text \in {last.why, "another's"}

(* turbojpeg.h: TJERR_WARNING, which tjGetErrorCode answers whenever the    *)
(* call has met a warning, is non-fatal: the picture is there.              *)
WarningIsRecoverable ==
    (Failed /\ this.warning) => last.got # "none" \/ last.op \notin DecompressOps
=============================================================================
