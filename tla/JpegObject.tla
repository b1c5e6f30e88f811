----------------------------- MODULE JpegObject -----------------------------
(***************************************************************************)
(* The compress and the decompress object of libjpeg as turbojpeg.c drives  *)
(* them: which API state each is in, what the marker reader remembers, and  *)
(* what an error leaves behind.                                             *)
(*                                                                          *)
(* Every operator maps the record s of a TurboJPEG call under way to the    *)
(* record after one call into libjpeg: s.this is the tjinstance (both       *)
(* objects and the error manager), s.errStr the text of the library,        *)
(* s.jump says that control is on its way to the caller's setjmp or bailout *)
(* and nothing further is executed, s.why which report stopped the call, or *)
(* the warning it met.                                                      *)
(***************************************************************************)
EXTENDS Naturals, FiniteSets

CONSTANT Pictures   \* the JPEG pictures a caller may pass

(* What of a JPEG picture decides how far it is read: its header is read,   *)
(* read with a warning, does not begin with SOI, has a segment that is an   *)
(* error, or ends too early; its size is within JPEG_MAX_DIMENSION or not;  *)
(* its components are three in a known sampling, four, or of unknown        *)
(* sampling; its entropy-coded data is read, damaged (a warning) or an      *)
(* error.                                                                   *)
PictureType ==
    [head : {"ok", "warns", "noSOI", "broken", "cut"}, huge : BOOLEAN,
     layout : {"yuv", "cmyk", "odd"}, body : {"ok", "warns", "fails"}]

(* The header tjDecodeYUVPlanes writes into the object by hand. *)
YUVImages == [head : {"given"}, huge : BOOLEAN, layout : {"yuv"}, body : {"ok"}]
NoImage == [head |-> "none", huge |-> FALSE, layout |-> "yuv", body |-> "ok"]
Images == Pictures \cup YUVImages \cup {NoImage}

ASSUME PicturesAssumption == Pictures # {} /\ Pictures \subseteq PictureType

(* What a text is about: an earlier call or none, the warning or the error  *)
(* of the last call, a call on another thread's instance.                   *)
Texts == {"earlier", "warning", "error", "another's"}

CStates == {"none", "start", "scanning", "raw", "wrcoefs"}
DStates == {"none", "start", "inheader", "ready", "scanning", "raw", "stopping"}

(* A tjinstance: the object states, raw_data_in and raw_data_out, the       *)
(* marker reader (no SOI yet; past it; stopped at a marker it could not     *)
(* read), eoi_reached, the read_markers of tjDecodeYUVPlanes in place of    *)
(* the reader's, the header in the object and whether its comp_info was     *)
(* freed; and of the error manager warning, num_warnings > 0,               *)
(* stopOnWarning, the text of the instance and isInstanceError.             *)
Instances ==
    [init : SUBSET {"compress", "decompress"},
     cstate : CStates, rawIn : BOOLEAN,
     dstate : DStates, rawOut : BOOLEAN,
     reader : {"fresh", "inside", "stuck"}, eoi : BOOLEAN, stubs : BOOLEAN,
     header : Images, freed : BOOLEAN,
     warning : BOOLEAN, warned : BOOLEAN, stop : BOOLEAN,
     text : Texts, isInstanceError : BOOLEAN]

(* MEMZERO(this), "No error" in its errStr. *)
NewInstance ==
    [init |-> {}, cstate |-> "none", rawIn |-> FALSE, dstate |-> "none", rawOut |-> FALSE,
     reader |-> "fresh", eoi |-> FALSE, stubs |-> FALSE, header |-> NoImage,
     freed |-> FALSE, warning |-> FALSE, warned |-> FALSE,
     stop |-> FALSE, text |-> "earlier", isInstanceError |-> FALSE]

-----------------------------------------------------------------------------
(* The error manager of turbojpeg.c. *)

(* my_error_exit: the text goes to the library's errStr only. *)
ErrorExit(s) == [s EXCEPT !.errStr = "error", !.why = "error", !.jump = TRUE]

(* my_emit_message with a warning: only the first since reset_error_mgr is  *)
(* written to errStr; stopOnWarning makes it an error.                      *)
Warn(s) ==
    [s EXCEPT !.this.warning = TRUE, !.this.warned = TRUE, !.why = "warning",
              !.errStr = IF s.this.warned THEN @ ELSE "warning",
              !.jump = s.this.stop]

-----------------------------------------------------------------------------
(* The decompress object. *)

(* jpeg_abort: the image pool is freed, comp_info with it. *)
DAbort(s) == [s EXCEPT !.this.dstate = "start", !.this.freed = TRUE]

(* reset_input_controller with reset_error_mgr and reset_marker_reader,     *)
(* which the stub of tjDecodeYUVPlanes replaces by nothing.                 *)
ResetInput(s) ==
    [s EXCEPT !.this.eoi = FALSE, !.this.warned = FALSE,
              !.this.reader = IF s.this.stubs THEN @ ELSE "fresh"]

(* initial_setup, then default_decompress_parms: the object is ready.       *)
(* Sampling factors read from freed memory may be out of bounds (luck).     *)
InitialSetup(s, luck) ==
    IF s.this.header.huge THEN ErrorExit(s)
    ELSE IF s.this.freed /\ ~luck THEN ErrorExit(s)
    ELSE [s EXCEPT !.this.dstate = "ready", !.this.rawOut = FALSE]

(* The data ends before SOS: fill_mem_input_buffer warns and makes up an    *)
(* EOI, and a picture was required.                                         *)
EndOfData(s) ==
    LET t == Warn([s EXCEPT !.this.reader = "inside"]) IN
      IF t.jump THEN t ELSE ErrorExit([t EXCEPT !.this.eoi = TRUE])

(* read_markers from where the reader stands, up to SOS. *)
ReadMarkers(s, pic, luck) ==
    LET sos == [s EXCEPT !.this.reader = "inside", !.this.header = pic,
                         !.this.freed = FALSE]
        warned == Warn(sos)
    IN IF s.this.reader = "stuck" THEN ErrorExit(s)
       ELSE IF s.this.reader = "inside"
         THEN IF pic.head = "noSOI" THEN EndOfData(s)
              ELSE ErrorExit([s EXCEPT !.this.reader = "stuck"])
       ELSE CASE pic.head = "noSOI"  -> ErrorExit(s)
              [] pic.head = "broken" ->
                   ErrorExit([s EXCEPT !.this.reader = "stuck"])
              [] pic.head = "cut"    -> EndOfData(s)
              [] pic.head = "warns"  ->
                   IF warned.jump THEN warned ELSE InitialSetup(warned, luck)
              [] OTHER               -> InitialSetup(sos, luck)

(* consume_markers in the header, with the stub or the real reader. *)
ConsumeHeader(s, pic, luck) ==
    IF s.this.eoi THEN ErrorExit(s)
    ELSE IF s.this.stubs THEN InitialSetup(s, luck)
    ELSE ReadMarkers(s, pic, luck)

(* Mutant of ReadHeader: an object that is READY already is left as it is,  *)
(* as jpeg_consume_input does.                                              *)
ReadHeaderUnlessReady(s, pic, luck) ==
    IF s.jump \/ s.this.dstate = "ready" THEN s
    ELSE IF s.this.dstate = "start"
      THEN ConsumeHeader([ResetInput(s) EXCEPT !.this.dstate = "inheader"], pic, luck)
    ELSE ConsumeHeader(s, pic, luck)

(* jpeg_read_header with jpeg_consume_input: only an object in the state    *)
(* START is reset before it reads on.                                       *)
ReadHeader(s, pic, luck) ==
    IF s.jump THEN s
    ELSE CASE s.this.dstate = "start" ->
                ConsumeHeader([ResetInput(s) EXCEPT !.this.dstate = "inheader"], pic, luck)
           [] s.this.dstate = "inheader" -> ConsumeHeader(s, pic, luck)
           [] OTHER -> ErrorExit(s)

(* Everything from jpeg_start_decompress (or jpeg_read_coefficients) to     *)
(* jpeg_finish_decompress, with the state an error leaves; raw says which   *)
(* data the caller takes.  With the stub the data does not end.             *)
ReadImage(s, running, raw) ==
    LET t == [s EXCEPT !.this.dstate = running]
        damaged == Warn(t)
    IN IF s.jump THEN s
       ELSE IF s.this.dstate # "ready" \/ s.this.rawOut # raw THEN ErrorExit(s)
       ELSE IF s.this.stubs THEN ErrorExit([t EXCEPT !.this.dstate = "stopping"])
       ELSE CASE s.this.header.body = "fails" -> ErrorExit(t)
              [] s.this.header.body = "warns" ->
                   IF damaged.jump THEN damaged ELSE DAbort(damaged)
              [] OTHER -> DAbort(t)

-----------------------------------------------------------------------------
(* The compress object. *)

(* jpeg_abort *)
CAbort(s) == [s EXCEPT !.this.cstate = "start"]

(* jpeg_mem_dest_tj for the caller who passes no buffer: without alloc      *)
(* (TJFLAG_NOREALLOC) that is an error.                                     *)
MemDest(s, noRealloc) ==
    IF s.jump THEN s
    ELSE IF noRealloc THEN ErrorExit(s) ELSE s

(* Mutant of SetCompDefaults: jpeg_set_defaults leaves raw_data_in alone. *)
SetCompDefaultsKeepsRaw(s, raw) ==
    IF s.jump THEN s ELSE [s EXCEPT !.this.rawIn = @ \/ raw]

(* setCompDefaults: jpeg_set_defaults resets raw_data_in, which             *)
(* tjCompressFromYUVPlanes then sets.                                       *)
SetCompDefaults(s, raw) == IF s.jump THEN s ELSE [s EXCEPT !.this.rawIn = raw]

(* jpeg_start_compress, the rows, jpeg_finish_compress.  A picture that is  *)
(* too big is an error before the state changes, memory that runs out is    *)
(* one while rows are written.                                              *)
WriteImage(s, image, raw) ==
    LET running == IF s.this.rawIn THEN "raw" ELSE "scanning"
        t == [s EXCEPT !.this.cstate = running, !.this.warned = FALSE]
    IN IF s.jump THEN s
       ELSE IF s.this.cstate # "start" THEN ErrorExit(s)
       ELSE IF image = "huge" THEN ErrorExit([s EXCEPT !.this.warned = FALSE])
       ELSE IF s.this.rawIn # raw \/ image = "noMemory" THEN ErrorExit(t)
       ELSE CAbort(t)

(* jpeg_write_coefficients up to jpeg_finish_compress. *)
WriteCoefficients(s, image) ==
    LET t == [s EXCEPT !.this.cstate = "wrcoefs", !.this.rawIn = FALSE,
                       !.this.warned = FALSE]
    IN IF s.jump THEN s
       ELSE IF s.this.cstate # "start" THEN ErrorExit(s)
       ELSE IF image = "noMemory" THEN ErrorExit(t)
       ELSE CAbort(t)
=============================================================================
