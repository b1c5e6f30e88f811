------------------------------ MODULE JpegRows ------------------------------
(***************************************************************************)
(* How the decompressor hands out the rows of a picture: the main buffer    *)
(* controller with its two lists of pointers into one workspace             *)
(* (jdmainct.c), the upsampler that fills a conversion buffer from a row    *)
(* group and its neighbours (jdsample.c), and jpeg_read_scanlines and       *)
(* jpeg_skip_scanlines on top of them (jdapistd.c).                         *)
(*                                                                          *)
(* Two rows of pixels come from one row group (max_v_samp_factor is 2): two *)
(* sample rows of the luminance "Y", which are passed on by pointer, and    *)
(* one of the chrominance "C", each pixel row mixing the nearest row and    *)
(* the next nearest (fancy upsampling, which needs context rows).  Without  *)
(* context every component is like "Y".  A sample row is the number of the  *)
(* row it shows.                                                            *)
(***************************************************************************)
EXTENDS Integers, Sequences

CONSTANTS
    Shapes,      \* pictures: [m, height, context]
    MaxLines,    \* a client reads at most so many rows at once
    SkipsAnyhow  \* whether it skips within an iMCU row or twice in a row

(* m = min_DCT_scaled_size, the row groups of an iMCU row; the controller   *)
(* gives no context when it is 1.                                           *)
ASSUME ShapesAssumption ==
    /\ \A s \in Shapes : /\ s.m \in Nat \ {0} /\ s.height \in Nat \ {0}
                         /\ s.context \in BOOLEAN /\ (s.context => s.m > 1)
    /\ MaxLines \in Nat \ {0}
    /\ SkipsAnyhow \in BOOLEAN

VARIABLES
    shape,       \* the picture
    d,           \* the decompressor: main, upsample, coef and output_scanline
    client       \* what the last call was and what it returned

rvars == <<shape, d, client>>

V == 2                                    \* max_v_samp_factor
M == shape.m
Height == shape.height                    \* output_height
LinesPerRow == M * V                      \* lines_per_iMCU_row
TotalRows == (Height + LinesPerRow - 1) \div LinesPerRow
Components == IF shape.context THEN {"Y", "C"} ELSE {"Y"}

RGroup(c) == IF c = "Y" THEN V ELSE 1     \* rows of a component in a group
Samples(c) == IF c = "Y" THEN Height ELSE (Height + 1) \div 2
Pad == -1                                 \* a row below the picture
Unset == -2                               \* memory never written

Least(a, b) == IF a < b THEN a ELSE b

-----------------------------------------------------------------------------
(* The pointer lists. *)

Offsets(c) == -RGroup(c) .. RGroup(c) * (M + 3) - 1
Workspace(c) == 0 .. RGroup(c) * (IF shape.context THEN M + 2 ELSE M) - 1

(* make_funny_pointers: the workspace as it is, in the second list with the *)
(* last two pairs of row groups swapped; above the first row group the      *)
(* first row.                                                               *)
FunnyPointers(list, c) ==
    LET r == RGroup(c)
        Swapped(i) == IF i < r * M THEN i + 2 * r ELSE i - 2 * r
    IN [i \in Offsets(c) |->
          CASE i < 0 -> IF list = 0 THEN 0 ELSE Unset
            [] i \in Workspace(c) -> IF list = 1 /\ i >= r * (M - 2) THEN Swapped(i) ELSE i
            [] OTHER -> Unset]

(* set_wraparound_pointers: the last row group above the first, the first   *)
(* below the last.                                                          *)
SetWraparound(t) ==
    [t EXCEPT !.xbuffer = [list \in {0, 1} |-> [c \in Components |->
       LET r == RGroup(c)  x == t.xbuffer[list][c] IN
         [i \in Offsets(c) |->
            IF i < 0 THEN x[i + r * (M + 2)]
            ELSE IF i >= r * (M + 2) THEN x[i - r * (M + 2)] ELSE x[i]]]]]

(* set_bottom_pointers: the last real row twice a row group's height below  *)
(* itself, and the row groups that are real.                                *)
RowsLeft(c) ==
    LET h == RGroup(c) * M IN IF Samples(c) % h = 0 THEN h ELSE Samples(c) % h

SetBottom(t) ==
    [t EXCEPT
       !.avail = (RowsLeft("Y") - 1) \div RGroup("Y") + 1,
       !.xbuffer[t.which] = [c \in Components |->
          [i \in Offsets(c) |->
             IF i \in RowsLeft(c) .. RowsLeft(c) + 2 * RGroup(c) - 1
             THEN t.xbuffer[t.which][c][RowsLeft(c) - 1]
             ELSE t.xbuffer[t.which][c][i]]]]

-----------------------------------------------------------------------------
(* Decompression of an iMCU row, and the upsampler.  t is the decompressor  *)
(* during a call, t.out the rows given to the client.                       *)

(* What decompress_data puts where row i of an iMCU row belongs: block rows *)
(* below the picture are left alone.                                        *)
Decoded(t, c, i, old) ==
    LET row == t.imcu * RGroup(c) * M + i
        blocks == (Samples(c) + M - 1) \div M
    IN IF row < Samples(c) THEN row ELSE IF row \div M < blocks THEN Pad ELSE old

(* The start of both process_data functions: the next iMCU row is read into *)
(* the list in use if the buffer is not full.                               *)
Load(t) ==
    IF t.full THEN t
    ELSE [t EXCEPT
            !.full = TRUE, !.imcu = @ + 1, !.iMCUctr = @ + 1,
            !.work = [c \in Components |-> [w \in Workspace(c) |->
               LET at == {i \in 0 .. RGroup(c) * M - 1 : t.xbuffer[t.which][c][i] = w} IN
                 IF at = {} THEN t.work[c][w]
                 ELSE Decoded(t, c, CHOOSE i \in at : TRUE, t.work[c][w])]]]

(* The row behind a pointer. *)
RowAt(t, list, c, i) ==
    IF i \notin Offsets(c) THEN Unset
    ELSE LET w == t.xbuffer[list][c][i] IN IF w = Unset THEN Unset ELSE t.work[c][w]

(* Filling the conversion buffer from a row group: luminance by pointer,    *)
(* chrominance as the row and its neighbour above, then below.              *)
Fill(t) ==
    [t EXCEPT
       !.next = 0, !.luma = [list |-> t.which, at |-> t.rowgroup * V],
       !.chroma = IF shape.context
         THEN LET C(i) == RowAt(t, t.which, "C", t.rowgroup + i)
              IN <<<<C(0), C(-1)>>, <<C(0), C(1)>>>>
         ELSE <<>>]

(* The pixel row that the k-th row of the conversion buffer makes. *)
Pixels(t, k) ==
    [y |-> RowAt(t, t.luma.list, "Y", t.luma.at + k),
     c |-> IF shape.context THEN t.chroma[k + 1] ELSE <<>>]

(* sep_upsample with room rows in the client's buffer. *)
Deliver(t, n) ==
    [t EXCEPT !.out = @ \o [k \in 1..n |-> Pixels(t, t.next + k - 1)],
              !.toGo = @ - n, !.next = @ + n,
              !.rowgroup = IF t.next + n >= V THEN @ + 1 ELSE @]
DeliverUpTo(t, room) == Deliver(t, Least(Least(V - t.next, t.toGo), room - Len(t.out)))
Upsample(t, room) == DeliverUpTo(IF t.next >= V THEN Fill(t) ELSE t, room)

-----------------------------------------------------------------------------
(* process_data_simple_main *)
EmptyIfUsed(t) == IF t.rowgroup >= M THEN [t EXCEPT !.full = FALSE, !.rowgroup = 0] ELSE t
ProcessSimple(s, room) == EmptyIfUsed(Upsample(Load(s), room))

(* The cases of process_data_context_main, each falling into the next:      *)
(* CTX_PROCESS_IMCU,                                                        *)
NextIMCU(t) ==
    [IF t.iMCUctr = 1 THEN SetWraparound(t) ELSE t
       EXCEPT !.which = 1 - @, !.full = FALSE, !.rowgroup = M + 1,
              !.avail = M + 2, !.ctx = "postponed"]
NextIfUsed(t) == IF t.rowgroup < t.avail THEN t ELSE NextIMCU(t)
ProcessIMCU(s, room) == NextIfUsed(Upsample(s, room))

(* CTX_PREPARE_FOR_IMCU,                                                    *)
Process(s) == [s EXCEPT !.rowgroup = 0, !.avail = M - 1, !.ctx = "process"]
Prepare(s, room) ==
    ProcessIMCU(IF s.iMCUctr = TotalRows THEN SetBottom(Process(s)) ELSE Process(s), room)

(* CTX_POSTPONED_ROW.                                                       *)
AfterPostponed(t, room) ==
    IF t.rowgroup < t.avail THEN t
    ELSE IF Len(t.out) >= room THEN [t EXCEPT !.ctx = "prepare"]
    ELSE Prepare([t EXCEPT !.ctx = "prepare"], room)
Postponed(s, room) == AfterPostponed(Upsample(s, room), room)

ProcessLoaded(t, room) ==
    CASE t.ctx = "postponed" -> Postponed(t, room)
      [] t.ctx = "prepare"   -> Prepare(t, room)
      [] OTHER               -> ProcessIMCU(t, room)
ProcessContext(s, room) == ProcessLoaded(Load(s), room)

(* jpeg_read_scanlines *)
Scanned(t) == [t EXCEPT !.scan = @ + Len(t.out)]
ReadScanlines(s, lines) ==
    LET t == [s EXCEPT !.out = <<>>]
    IN IF s.scan >= Height THEN t
       ELSE Scanned(IF shape.context THEN ProcessContext(t, lines) ELSE ProcessSimple(t, lines))

(* read_and_discard_scanlines *)
ReadAndDiscard(s, lines) ==
    LET after[n \in 0..lines] == IF n = 0 THEN s ELSE ReadScanlines(after[n - 1], 1)
    IN [after[lines] EXCEPT !.out = <<>>]

-----------------------------------------------------------------------------
(* jpeg_skip_scanlines. *)

(* increment_simple_rowgroup_ctr *)
IncrementRowgroup(s, rows) ==
    ReadAndDiscard([s EXCEPT !.rowgroup = @ + rows \div V, !.scan = @ + V * (rows \div V)],
                   rows % V)

LinesLeft(s) == (LinesPerRow - (s.scan % LinesPerRow)) % LinesPerRow

(* The jump over whole iMCU rows, n of them after the current one; the rest *)
(* is read.                                                                 *)
JumpRows(s, n) == [s EXCEPT !.scan = @ + n * LinesPerRow, !.imcu = @ + n]

(* Leaves the current iMCU row (and the prefetched one): nothing of it is   *)
(* in the buffer any more. *)
LeaveRow(s, lines) ==
    [s EXCEPT !.scan = @ + lines, !.full = FALSE, !.rowgroup = 0, !.next = V,
              !.toGo = Height - (s.scan + lines)]

(* Mutant of Prefetched: the row read ahead is forgotten. *)
PrefetchedNever(s) == FALSE

(* The next iMCU row is in the buffer before this one is used up. *)
Prefetched(s) == LinesLeft(s) <= 1 /\ s.full

(* What is left of the iMCU row, and of the one read ahead. *)
LinesBuffered(s) == IF Prefetched(s) THEN LinesLeft(s) + LinesPerRow ELSE LinesLeft(s)

(* What is to be skipped after that: whole iMCU rows are jumped over, as    *)
(* long as a line is left to read, and the rest is read.                    *)
ToGo(s) == [s EXCEPT !.toGo = Height - s.scan]
JumpAndRead(s, lines, n) ==
    ToGo(ReadAndDiscard([JumpRows(s, n) EXCEPT !.iMCUctr = @ + n], lines - n * LinesPerRow))

SkipContext(s, lines) ==
    LET first == s.iMCUctr = 0 \/ (s.iMCUctr = 1 /\ LinesLeft(s) > 2)
        after == lines - LinesBuffered(s)
    IN IF \/ lines < LinesLeft(s) + 1
          \/ Prefetched(s) /\ lines - LinesLeft(s) < LinesPerRow + 1
       THEN ReadAndDiscard(s, lines)
       ELSE JumpAndRead([LeaveRow(IF first THEN SetWraparound(s) ELSE s, LinesBuffered(s))
                           EXCEPT !.ctx = "prepare"],
                        after, (after - 1) \div LinesPerRow)

SkipSimple(s, lines) ==
    LET after == lines - LinesLeft(s)
        n == after \div LinesPerRow
    IN IF lines < LinesLeft(s) THEN IncrementRowgroup(s, lines)
       ELSE ToGo(IncrementRowgroup(JumpRows(LeaveRow(s, LinesLeft(s)), n),
                                   after - n * LinesPerRow))

SkipScanlines(s, lines) ==
    CASE s.scan + lines >= Height -> [s EXCEPT !.scan = Height, !.out = <<>>]
      [] lines = 0 -> [s EXCEPT !.out = <<>>]
      [] OTHER -> [IF shape.context THEN SkipContext(s, lines) ELSE SkipSimple(s, lines)
                     EXCEPT !.out = <<>>]

-----------------------------------------------------------------------------
(* jinit_d_main_controller, start_pass_main, start_pass_upsample. *)
RowsInit ==
    /\ shape \in Shapes
    /\ d = [full |-> FALSE, rowgroup |-> 0, which |-> 0, ctx |-> "prepare", avail |-> 0,
            iMCUctr |-> 0, imcu |-> 0, scan |-> 0, out |-> <<>>,
            xbuffer |-> [list \in {0, 1} |-> [c \in Components |-> FunnyPointers(list, c)]],
            work |-> [c \in Components |-> [w \in Workspace(c) |-> Unset]],
            next |-> V, toGo |-> Height, luma |-> [list |-> 0, at |-> 0], chroma |-> <<>>]
    /\ client = [op |-> "none", lines |-> 0, from |-> 0]

Read ==
    \E lines \in 1..MaxLines :
      /\ d.scan < Height
      /\ d' = ReadScanlines(d, lines)
      /\ client' = [op |-> "read", lines |-> lines, from |-> d.scan]
      /\ UNCHANGED shape

Skip ==
    \E lines \in 0..Height :
      /\ d.scan < Height
      /\ shape.context \/ SkipsAnyhow \/ (client.op # "skip" /\ lines >= LinesLeft(d))
      /\ d' = SkipScanlines(d, lines)
      /\ client' = [op |-> "skip", lines |-> lines, from |-> d.scan]
      /\ UNCHANGED shape

RowsNext == Read \/ Skip

RowsSpec == RowsInit /\ [][RowsNext]_rvars

-----------------------------------------------------------------------------
(* The pixel row the picture has at a line: the luminance row, the nearest  *)
(* chrominance row and the next nearest, the outermost rows repeated.       *)
Clamped(i) == IF i < 0 THEN 0 ELSE Least(i, Samples("C") - 1)
Expected(line) ==
    [y |-> line,
     c |-> IF shape.context
           THEN <<line \div 2, Clamped(line \div 2 + (IF line % 2 = 0 THEN -1 ELSE 1))>>
           ELSE <<>>]

(* libjpeg.txt: jpeg_skip_scanlines always skips all of the rows requested  *)
(* and leaves the decompressor ready to read the next line.  Every row the  *)
(* client gets is the picture's row at output_scanline, made from the right *)
(* neighbours, however it reads and skips.                                  *)
RowsInPlace == \A k \in 1..Len(d.out) : d.out[k] = Expected(client.from + k - 1)

(* The line of the picture a row of pixels is, if it is one. *)
LineOf(pixels) ==
    IF \E line \in 0 .. Height - 1 : Expected(line) = pixels
    THEN CHOOSE line \in 0 .. Height - 1 : Expected(line) = pixels
    ELSE Pad

Reader == INSTANCE RowReader WITH
    height <- Height,
    line <- d.scan,
    asked <- client.lines,
    given <- [k \in 1..Len(d.out) |-> LineOf(d.out[k])]

(* Two pointer lists, a state machine that postpones the last row group of  *)
(* every iMCU row, a conversion buffer that outlives a call, and skips that *)
(* meddle with all three: together they give the client the picture's rows, *)
(* each once, in order, each from its right neighbours.                     *)
ImplementsRowReader == Reader!Spec
=============================================================================
