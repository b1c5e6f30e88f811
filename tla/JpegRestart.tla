----------------------------- MODULE JpegRestart -----------------------------
(***************************************************************************)
(* Restart markers: what the Huffman decoder makes of a scan of which parts *)
(* are lost on the way.  The encoder puts a marker, numbered in a circle,    *)
(* between any two segments of Interval MCUs (jchuff.c).  The decoder       *)
(* checks the number at the end of each segment and decides where to go on  *)
(* (jdmarker.c); when its data ends too early it shows grey (jdhuff.c).     *)
(*                                                                          *)
(* The wire carries tokens: a marker, or the data of one MCU.  The fields   *)
(* marked and whole of data, and history, are for the properties only.      *)
(***************************************************************************)
EXTENDS Integers, Sequences, FiniteSetsExt

CONSTANTS
    Segments,    \* restart intervals of the scan
    Interval,    \* restart_interval, MCUs
    Numbers,     \* restart markers, 8 (RST0 to RST7)
    MaxWire,     \* tokens on the wire, after which the sender waits
    MaxAhead,    \* MCUs the bit buffer may hold besides the one decoded
    MaxBurst,    \* markers that are lost in a row at most
    Losses       \* what happens on the way: "marker", "bogus", "data", "repeat"

ASSUME RestartAssumption ==
    /\ Segments \in Nat \ {0} /\ Interval \in Nat \ {0} /\ MaxWire \in Nat \ {0}
    /\ Numbers \in Nat \ 0..4 /\ MaxAhead \in Nat /\ MaxBurst \in Nat
    /\ Losses \subseteq {"marker", "bogus", "data", "repeat"}

VARIABLES
    enc,         \* the sender: the segment, the next MCU in it (0: its marker)
    wire,        \* the tokens under way
    dec,         \* the decoder
    history      \* what was lost and what was shown

evars == <<enc, wire, dec, history>>

None == -1       \* unread_marker = 0
EOI == -2        \* a valid marker that is no restart marker
Bogus == -3      \* a marker code below M_SOF0

Marker(number) == [marker |-> TRUE, number |-> number]
Data(segment, mcu, marked, whole) ==
    [marker |-> FALSE, segment |-> segment, mcu |-> mcu, marked |-> marked, whole |-> whole]

-----------------------------------------------------------------------------
(* The sender and the channel. *)

(* emit_restart: the number of the marker before a segment. *)
NumberBefore(segment) == (segment - 1) % Numbers

NextToSend(e) == IF e.mcu < Interval THEN [e EXCEPT !.mcu = @ + 1]
            ELSE [e EXCEPT !.segment = @ + 1, !.mcu = 0]

SendMarker ==
    /\ enc.mcu = 0 /\ enc.segment \in 1 .. Segments - 1 /\ Len(wire) < MaxWire
    /\ \/ /\ wire' = Append(wire, Marker(NumberBefore(enc.segment)))
          /\ enc' = [NextToSend(enc)
                       EXCEPT !.marked = TRUE, !.whole = enc.segment >= enc.next,
                              !.next = enc.segment + 1, !.burst = 0]
          /\ UNCHANGED history
       \/ /\ enc.burst < MaxBurst
          /\ \/ "marker" \in Losses /\ wire' = wire
             \/ "bogus" \in Losses /\ wire' = Append(wire, Marker(Bogus))
          /\ enc' = [NextToSend(enc)
                       EXCEPT !.marked = FALSE, !.whole = FALSE, !.burst = @ + 1]
          /\ history' = [history EXCEPT !.long = @ \/ enc.burst >= 2]
    /\ UNCHANGED dec

SendData ==
    /\ enc.mcu > 0 /\ enc.segment < Segments /\ Len(wire) < MaxWire
    /\ \/ /\ wire' = Append(wire, Data(enc.segment, enc.mcu, enc.marked, enc.whole))
          /\ enc' = NextToSend(enc)
       \/ /\ "data" \in Losses
          /\ enc' = [NextToSend(enc) EXCEPT !.whole = FALSE]
          /\ UNCHANGED wire
    /\ UNCHANGED <<dec, history>>

(* Once a segment comes a second time, marker and all. *)
Repeat ==
    /\ "repeat" \in Losses /\ ~history.repeated
    /\ enc.mcu = 0 /\ enc.segment \in 2..Segments
    /\ enc' = [enc EXCEPT !.segment = @ - 1]
    /\ history' = [history EXCEPT !.repeated = TRUE]
    /\ UNCHANGED <<wire, dec>>

SendEOI ==
    /\ enc.mcu = 0 /\ enc.segment = Segments /\ Len(wire) < MaxWire
    /\ wire' = Append(wire, Marker(EOI))
    /\ enc' = [enc EXCEPT !.segment = @ + 1]
    /\ UNCHANGED <<dec, history>>

-----------------------------------------------------------------------------
(* The decoder.  During a call s is the decoder with the wire and history;  *)
(* s.suspended says that the call returned FALSE.                           *)

Markers(s) == {i \in DOMAIN s.wire : s.wire[i].marker}
After(tokens, n) == SubSeq(tokens, n + 1, Len(tokens))

(* Tokens that are passed over. *)
Wasted(s, tokens) ==
    [s EXCEPT !.history.wasted = @ \/ \E i \in DOMAIN tokens : ~tokens[i].marker /\ tokens[i].whole]
WarnOf(s) == [s EXCEPT !.dec.warned = TRUE]

(* next_marker; what is skipped is warned of with the next marker. *)
NextMarker(s) ==
    IF Markers(s) = {}
    THEN [Wasted(s, s.wire) EXCEPT !.wire = <<>>, !.suspended = TRUE,
                                   !.dec.discarded = @ \/ s.wire # <<>>]
    ELSE LET i == Min(Markers(s)) IN
         [Wasted(s, SubSeq(s.wire, 1, i - 1))
            EXCEPT !.wire = After(s.wire, i), !.dec.unread = s.wire[i].number,
                   !.dec.discarded = FALSE,
                   !.dec.warned = @ \/ s.dec.discarded \/ i > 1]

(* Mutant of Ahead: only the very next marker counts as one of the future. *)
AheadByOne(desired) == {(desired + 1) % Numbers}

Ahead(desired) == {(desired + 1) % Numbers, (desired + 2) % Numbers}
Behind(desired) == {(desired - 1) % Numbers, (desired - 2) % Numbers}

(* The three actions of jpeg_resync_to_restart. *)
ScanOn(marker, desired) == marker = Bogus \/ marker \in Behind(desired)
LeaveUnread(marker, desired) == marker = EOI \/ marker \in Ahead(desired)

(* The loop: scanning on goes from marker to marker until one is left or    *)
(* discarded.                                                               *)
ScannedOn(s, desired) ==
    LET step[n \in 0 .. Len(s.wire)] ==
          IF n = 0 THEN s
          ELSE LET t == step[n - 1] IN
               IF ~t.suspended /\ ScanOn(t.dec.unread, desired) THEN NextMarker(t) ELSE t
        t == step[Len(s.wire)]
    IN IF ~t.suspended /\ ScanOn(t.dec.unread, desired) THEN NextMarker(t) ELSE t
ResyncToRestart(s, desired) ==
    LET t == ScannedOn(WarnOf(s), desired) IN
      IF t.suspended \/ LeaveUnread(t.dec.unread, desired) THEN t
      ELSE [t EXCEPT !.dec.unread = None]

(* read_restart_marker *)
MarkerRead(t) ==
    IF t.suspended THEN t
    ELSE IF t.dec.unread = t.dec.expects THEN [t EXCEPT !.dec.unread = None]
    ELSE ResyncToRestart(t, t.dec.expects)
ReadRestartMarker(s) ==
    LET t == MarkerRead(IF s.dec.unread = None THEN NextMarker(s) ELSE s) IN
      IF t.suspended THEN t ELSE [t EXCEPT !.dec.expects = (@ + 1) % Numbers]

(* process_restart.  The bits that are thrown away may or may not make a    *)
(* whole byte.                                                              *)
RestartDone(t) ==
    IF t.suspended THEN t
    ELSE [t EXCEPT !.dec.togo = Interval,
                   !.dec.insufficient = @ /\ t.dec.unread # None]
ProcessRestart(s, byte) ==
    RestartDone(ReadRestartMarker(
      [Wasted(s, s.dec.bits)
         EXCEPT !.dec.bits = <<>>,
                !.dec.discarded = @ \/ (byte /\ (s.dec.bits # <<>> \/ s.dec.insufficient))]))

(* jpeg_fill_bit_buffer: MCUs are loaded until there are enough, the marker *)
(* is hit, or the data has run out.                                         *)
Missing(s, ahead) == 1 + ahead - Len(s.dec.bits)
UpToMarker(s) == IF Markers(s) = {} THEN Len(s.wire) ELSE Min(Markers(s)) - 1
LoadMcus(s, ahead) ==
    LET n == UpToMarker(s) IN
      IF s.dec.unread # None \/ Missing(s, ahead) <= 0 THEN s
      ELSE IF n >= Missing(s, ahead)
           THEN [s EXCEPT !.dec.bits = @ \o SubSeq(s.wire, 1, Missing(s, ahead)),
                          !.wire = After(s.wire, Missing(s, ahead))]
      ELSE IF n < Len(s.wire)
           THEN [s EXCEPT !.dec.bits = @ \o SubSeq(s.wire, 1, n),
                          !.dec.unread = s.wire[n + 1].number, !.wire = After(s.wire, n + 1)]
      ELSE [s EXCEPT !.suspended = TRUE]

(* An MCU is done: what it shows goes on record. *)
Shown(s, token) ==
    [s EXCEPT !.dec.at = @ + 1, !.dec.togo = @ - 1,
              !.history.shown = token,
              !.history.damaged = @ \/ token = <<>>
                                    \/ <<token[1].segment, token[1].mcu>> #
                                         <<s.dec.at \div Interval, (s.dec.at % Interval) + 1>>]

(* The data has ended: one warning, zeros from here on. *)
HitMarker(s) == WarnOf([s EXCEPT !.dec.insufficient = TRUE])

(* decode_mcu after process_restart. *)
DecodedFrom(t) ==
    IF t.suspended THEN t
    ELSE IF t.dec.bits # <<>>
         THEN Shown([t EXCEPT !.dec.bits = Tail(@)], SubSeq(t.dec.bits, 1, 1))
    ELSE Shown(HitMarker(t), <<>>)
DecodeBlocks(s, ahead) ==
    IF s.suspended THEN s
    ELSE IF s.dec.insufficient THEN Shown(s, <<>>)
    ELSE DecodedFrom(LoadMcus(s, ahead))

DecodeEntropy ==
    /\ dec.at < Segments * Interval
    /\ \E ahead \in 0..MaxAhead, byte \in BOOLEAN :
         LET s == [dec |-> dec, wire |-> wire, history |-> history, suspended |-> FALSE]
             t == DecodeBlocks(IF dec.togo = 0 THEN ProcessRestart(s, byte) ELSE s, ahead)
         IN dec' = t.dec /\ wire' = t.wire /\ history' = t.history
    /\ UNCHANGED enc

-----------------------------------------------------------------------------
(* start_pass_huff, start_pass_huff_decoder. *)
RestartInit ==
    /\ enc = [segment |-> 0, mcu |-> 1, next |-> 1, marked |-> TRUE, whole |-> TRUE,
              burst |-> 0]
    /\ wire = <<>>
    /\ dec = [unread |-> None, expects |-> 0, togo |-> Interval, insufficient |-> FALSE,
              bits |-> <<>>, discarded |-> FALSE, at |-> 0, warned |-> FALSE]
    /\ history = [long |-> FALSE, repeated |-> FALSE, wasted |-> FALSE,
                  damaged |-> FALSE, shown |-> <<>>]

RestartNext == SendMarker \/ SendData \/ Repeat \/ SendEOI \/ DecodeEntropy

RestartSpec == RestartInit /\ [][RestartNext]_evars

-----------------------------------------------------------------------------
(* The interval of the MCU shown last. *)
ShownIn == (dec.at - 1) \div Interval

(* Unless more than two markers in a row are lost, no damage spreads: data   *)
(* that came with its marker is shown in its own interval only, and what of  *)
(* a segment came in one piece from the marker on is shown.                  *)
DamageStays ==
    ~history.long =>
      /\ ~history.wasted
      /\ history.shown # <<>> /\ history.shown[1].marked => history.shown[1].segment = ShownIn

(* A picture that is not the one sent has been warned of, whatever was lost. *)
DamageIsWarned ==
    dec.at = Segments * Interval /\ history.damaged /\ ~history.repeated => dec.warned

(* Losing parts of a scan costs the parts lost, and the caller learns of it. *)
LossIsContained == DamageStays /\ DamageIsWarned
=============================================================================
