-------------------------- MODULE JpegProgressive --------------------------
(***************************************************************************)
(* Progressive coding of one component (jcphuff.c, jdphuff.c) under the     *)
(* script of jpeg_simple_progression: the coefficients come in six scans,   *)
(* first a band of each at a coarse precision, then one more bit at a time. *)
(* A scan is a sequence of items, Huffman symbols and groups of plain bits; *)
(* how items become bytes is the subject of JpegHuffman.  The decoder may   *)
(* find at any item that the rest has not arrived yet: it gives the MCU up  *)
(* and is called again for it, with the block as it left it.                *)
(***************************************************************************)
EXTENDS Integers, Sequences
LOCAL INSTANCE SequencesExt

CONSTANTS
    LastCoef,          \* the last coefficient of a block, DCTSIZE2 - 1 = 63
    Split,         \* the first band of the script ends here: 5
    LastRun,       \* the longest run of zeros in a symbol: 15
    MaxCorrBits,   \* MAX_CORR_BITS
    Originals,     \* sequences of blocks, each a function of 0..LastCoef
    Intervals      \* restart intervals, 0 for none

ASSUME ProgressiveAssumption ==
    /\ {LastCoef, Split, LastRun, MaxCorrBits} \subseteq Nat \ {0}
    /\ Split < LastCoef /\ MaxCorrBits > LastCoef
    /\ \A s \in Originals : Len(s) > 0 /\ \A i \in DOMAIN s : s[i] \in [0..LastCoef -> Int]
    /\ Intervals \subseteq Nat

VARIABLES
    original,    \* the blocks to be coded
    interval,    \* restart_interval
    at,          \* the scan of the script, and whether it is being encoded
    entropy,     \* the encoder: MCUs done, EOBRUN, correction bits, restarts_to_go
    items,       \* the scan's items the decoder has not used
    saved,       \* the decoder: MCUs done, EOBRUN, restarts_to_go, coef_bits, a warning
    image        \* the coefficients the decoder has

pvars == <<original, interval, at, entropy, items, saved, image>>

Band(ss, se, ah, al) == [ss |-> ss, se |-> se, ah |-> ah, al |-> al]

(* jpeg_simple_progression for one component. *)
Script == <<Band(0, 0, 0, 1), Band(1, Split, 0, 2), Band(Split + 1, LastCoef, 0, 2),
            Band(1, LastCoef, 2, 1), Band(0, 0, 1, 0), Band(1, LastCoef, 1, 0)>>

-----------------------------------------------------------------------------
(* Items and numbers. *)

Symbol(r, s) == [kind |-> "symbol", run |-> r, size |-> s]
Bits(n, size) == [kind |-> "bits", value |-> n % 2^size, size |-> size]
Restart == [kind |-> "RST", value |-> 0, size |-> 0]

Magnitude(x) == IF x < 0 THEN -x ELSE x
NBits(x) == CHOOSE n \in 0..Magnitude(x) : 2^n > Magnitude(x) /\ (n > 0 => 2^(n - 1) <= Magnitude(x))

(* A negative number is sent as the complement of its magnitude. *)
Sent(x) == Bits(IF x < 0 THEN x - 1 ELSE x, NBits(x))

(* HUFF_EXTEND *)
Extended(n, size) == IF n < 2^(size - 1) THEN n + 1 - 2^size ELSE n

(* The point transforms of DC and of AC coefficients. *)
ShiftedDC(x, al) == x \div 2^al
Shifted(x, al) == Magnitude(x) \div 2^al

-----------------------------------------------------------------------------
(* The encoder.  e is its state, with the items it has emitted in out.  Of  *)
(* bit_buffer, BE holds the bits counted by BE, BR those behind them.       *)

StartPassEncoder == [done |-> 0, EOBRUN |-> 0, BE |-> <<>>, BR |-> <<>>, toGo |-> interval,
                     overrun |-> FALSE, r |-> 0, out |-> <<>>]

Emit(e, new) == [e EXCEPT !.out = @ \o new]

EmitEobrun(e) ==
    IF e.EOBRUN = 0 THEN e
    ELSE LET n == NBits(e.EOBRUN) - 1
         IN [Emit(e, <<Symbol(n, 0)>> \o (IF n > 0 THEN <<Bits(e.EOBRUN, n)>> ELSE <<>>) \o e.BE)
               EXCEPT !.EOBRUN = 0, !.BE = <<>>]

(* emit_restart, before the MCU that begins an interval. *)
RestartIfDue(e) ==
    IF interval > 0 /\ e.toGo = 0
    THEN [Emit(EmitEobrun(e), <<Restart>>) EXCEPT !.toGo = interval]
    ELSE e

(* Mutant of AtLimit: the room for the next MCU is not thought of. *)
AtLimitFull(e) == e.EOBRUN = 2^LastRun - 1 \/ Len(e.BE) >= MaxCorrBits

(* The EOB run must go out: its counter is full, or the next MCU might      *)
(* overflow bit_buffer.                                                     *)
AtLimit(e) == e.EOBRUN = 2^LastRun - 1 \/ Len(e.BE) > MaxCorrBits - (LastCoef + 1) + 1

(* The block ends in zeros: one more block of the run, and its correction   *)
(* bits.                                                                    *)
CountEob(e) ==
    LET more == [e EXCEPT !.EOBRUN = @ + 1, !.BE = @ \o e.BR, !.BR = <<>>]
    IN IF AtLimit(more) THEN EmitEobrun(more) ELSE more

RECURSIVE ZeroRuns(_)
(* Symbols for runs of zeros too long for the symbol that follows; the bits *)
(* buffered go with the first.                                              *)
ZeroRuns(e) ==
    IF e.r <= LastRun THEN e
    ELSE ZeroRuns([Emit(EmitEobrun(e), <<Symbol(LastRun, 0)>> \o e.BR)
                     EXCEPT !.r = @ - LastRun - 1, !.BR = <<>>])

EncodeDCFirst(e, block, prev, scan) ==
    LET diff == ShiftedDC(block[0], scan.al) - prev
    IN Emit(e, <<Symbol(0, NBits(diff))>> \o (IF diff = 0 THEN <<>> ELSE <<Sent(diff)>>))

EncodeDCRefine(e, block, scan) == Emit(e, <<Bits(ShiftedDC(block[0], scan.al), 1)>>)

EncodeACFirst(e, block, scan) ==
    LET One(f, k) ==
            LET t == Shifted(block[k], scan.al)
                x == IF block[k] < 0 THEN -t ELSE t
                g == ZeroRuns(EmitEobrun(f))
            IN IF t = 0 THEN [f EXCEPT !.r = @ + 1]
               ELSE [Emit(g, <<Symbol(g.r, NBits(t)), Sent(x)>>) EXCEPT !.r = 0]
        all == FoldLeft(One, [e EXCEPT !.r = 0], [i \in 1..scan.se - scan.ss + 1 |-> scan.ss + i - 1])
    IN IF all.r > 0 THEN CountEob(all) ELSE all

(* A coefficient that becomes nonzero, with its sign; the correction bits   *)
(* of the coefficients it follows come behind it.                           *)
NewlyNonzero(e, positive) ==
    [Emit(EmitEobrun(e), <<Symbol(e.r, 1), Bits(IF positive THEN 1 ELSE 0, 1)>> \o e.BR)
       EXCEPT !.r = 0, !.BR = <<>>]

EncodeACRefine(e, block, scan) ==
    LET t(k) == Shifted(block[k], scan.al)
        new == {k \in scan.ss..scan.se : t(k) = 1}
        UpToEob(k) == \E i \in new : k <= i
        One(f, k) ==
            LET g == IF UpToEob(k) THEN ZeroRuns(f) ELSE f
            IN IF t(k) = 0 THEN [f EXCEPT !.r = @ + 1]
               ELSE IF t(k) > 1
               THEN [g EXCEPT !.BR = Append(@, Bits(t(k), 1)),
                              !.overrun = @ \/ Len(g.BE) + Len(g.BR) >= MaxCorrBits]
               ELSE NewlyNonzero(g, block[k] > 0)
        all == FoldLeft(One, [e EXCEPT !.r = 0], [i \in 1..scan.se - scan.ss + 1 |-> scan.ss + i - 1])
    IN IF all.r > 0 \/ all.BR # <<>> THEN CountEob(all) ELSE all

-----------------------------------------------------------------------------
(* The decoder.  d is its state within an MCU: the coefficient it is at, the *)
(* items left, EOBRUN, the block, the coefficients it made nonzero, and      *)
(* whether it ran out of items (short).                                      *)

Take(d) == [d EXCEPT !.in = Tail(@)]
Short(d) == [d EXCEPT !.short = TRUE]

(* The end of band of a symbol with a run: EOBRUN blocks. *)
EndOfBand(d, r) ==
    IF r = 0 THEN [d EXCEPT !.EOBRUN = 1]
    ELSE IF d.in = <<>> THEN Short(d)
    ELSE [Take(d) EXCEPT !.EOBRUN = 2^r + Head(d.in).value]

DecodeDCFirst(d, prev, scan) ==
    LET size == Head(d.in).size
        rest == Tail(d.in)
        With(diff, left) == [d EXCEPT !.in = left, !.block[0] = (prev + diff) * 2^scan.al]
    IN IF d.in = <<>> \/ (size > 0 /\ rest = <<>>) THEN Short(d)
       ELSE IF size = 0 THEN With(0, rest)
       ELSE With(Extended(Head(rest).value, size), Tail(rest))

DecodeDCRefine(d, scan) ==
    IF d.in = <<>> THEN Short(d)
    ELSE [Take(d) EXCEPT !.block[0] = @ + (IF (@ \div 2^scan.al) % 2 = 0
                                            THEN Head(d.in).value * 2^scan.al ELSE 0)]

RECURSIVE FirstFrom(_, _)
DecodeACFirst(d, scan) ==
    IF d.EOBRUN > 0 THEN [d EXCEPT !.EOBRUN = @ - 1] ELSE FirstFrom(d, scan)
FirstFrom(d, scan) ==
    LET s == Head(d.in)
        rest == Take(d)
        k == d.k + s.run
    IN IF d.k > scan.se THEN d
       ELSE IF d.in = <<>> THEN Short(d)
       ELSE IF s.size = 0 /\ s.run = LastRun THEN FirstFrom([rest EXCEPT !.k = k + 1], scan)
       ELSE IF s.size = 0
       THEN LET e == EndOfBand(rest, s.run) IN IF e.short THEN e ELSE [e EXCEPT !.EOBRUN = @ - 1]
       ELSE IF rest.in = <<>> THEN Short(rest)
       ELSE FirstFrom([Take(rest) EXCEPT !.k = k + 1,
                         !.block[k] = Extended(Head(rest.in).value, s.size) * 2^scan.al], scan)

(* A correction bit, added unless an earlier call for this MCU added it. *)
Correct(x, bit, p1) ==
    IF bit = 0 \/ (x \div p1) % 2 # 0 THEN x ELSE IF x >= 0 THEN x + p1 ELSE x - p1

RECURSIVE Advance(_, _, _)
(* Over the nonzero coefficients, correcting them, and r that are zero. *)
Advance(d, r, scan) ==
    IF d.k > scan.se THEN d
    ELSE IF d.block[d.k] # 0
    THEN IF d.in = <<>> THEN Short(d)
         ELSE Advance([Take(d) EXCEPT !.k = @ + 1,
                         !.block[d.k] = Correct(@, Head(d.in).value, 2^scan.al)], r, scan)
    ELSE IF r = 0 THEN d
    ELSE Advance([d EXCEPT !.k = @ + 1], r - 1, scan)

RECURSIVE RefineFrom(_, _)
RefineFrom(d, scan) ==
    LET s == Head(d.in)
        zeros == Advance(Take(d), s.run, scan)
        new == Advance(Take(Take(d)), s.run, scan)
        value == IF Head(Tail(d.in)).value = 1 THEN 2^scan.al ELSE -(2^scan.al)
    IN IF d.k > scan.se THEN d
       ELSE IF d.in = <<>> THEN Short(d)
       ELSE IF s.size = 0 /\ s.run = LastRun
       THEN IF zeros.short THEN zeros ELSE RefineFrom([zeros EXCEPT !.k = @ + 1], scan)
       ELSE IF s.size = 0 THEN EndOfBand(Take(d), s.run)
       ELSE IF Len(d.in) = 1 THEN Short(d)
       ELSE IF new.short \/ new.k > scan.se THEN new
       ELSE RefineFrom([new EXCEPT !.block[new.k] = value, !.newnz = @ \cup {new.k},
                                   !.k = @ + 1], scan)

(* What was made nonzero is zero again; correction bits stay. *)
UndoIt(d) == [d EXCEPT !.block = [k \in 0..LastCoef |-> IF k \in d.newnz THEN 0 ELSE d.block[k]]]

DecodeACRefine(d, scan) ==
    LET a == IF d.EOBRUN = 0 THEN RefineFrom(d, scan) ELSE d
        b == IF a.short \/ a.EOBRUN = 0 THEN a
             ELSE LET rest == Advance(a, LastCoef + 1, scan)
                  IN IF rest.short THEN rest ELSE [rest EXCEPT !.EOBRUN = @ - 1]
    IN IF b.short THEN UndoIt(b) ELSE b

-----------------------------------------------------------------------------
NoBlock == [k \in 0..LastCoef |-> 0]
Now == Script[at.scan]

StartPassDecoder(scan, bits, warned) ==
    [done |-> 0, EOBRUN |-> 0, toGo |-> interval,
     warned |-> warned \/ \E k \in scan.ss..scan.se : scan.ah # (IF bits[k] < 0 THEN 0 ELSE bits[k])
                       \/ (scan.ss > 0 /\ bits[0] < 0),
     bits |-> [k \in 0..LastCoef |-> IF k \in scan.ss..scan.se THEN scan.al ELSE bits[k]]]

ProgressiveInit ==
    /\ original \in Originals
    /\ interval \in Intervals
    /\ at = [scan |-> 1, encoding |-> TRUE]
    /\ entropy = StartPassEncoder
    /\ items = <<>>
    /\ saved = StartPassDecoder(Script[1], [k \in 0..LastCoef |-> -1], FALSE)
    /\ image = [i \in DOMAIN original |-> NoBlock]

(* DC predictions start anew with a scan and with a restart interval. *)
FreshDC(i) == i = 1 \/ (interval > 0 /\ (i - 1) % interval = 0)

EncodeMcu ==
    /\ at.encoding
    /\ entropy.done < Len(original)
    /\ LET i == entropy.done + 1
           block == original[i]
           e == RestartIfDue(entropy)
           coded ==
             IF Now.ss > 0
             THEN IF Now.ah = 0 THEN EncodeACFirst(e, block, Now) ELSE EncodeACRefine(e, block, Now)
             ELSE IF Now.ah = 0
             THEN EncodeDCFirst(e, block, IF FreshDC(i) THEN 0 ELSE ShiftedDC(original[i - 1][0], Now.al), Now)
             ELSE EncodeDCRefine(e, block, Now)
       IN /\ items' = items \o coded.out
          /\ entropy' = [coded EXCEPT !.out = <<>>, !.r = 0, !.done = i,
                                      !.toGo = IF interval = 0 THEN 0 ELSE @ - 1]
    /\ UNCHANGED <<original, interval, at, saved, image>>

(* finish_pass_phuff *)
FinishPass ==
    /\ at.encoding
    /\ entropy.done = Len(original)
    /\ items' = items \o EmitEobrun(entropy).out
    /\ entropy' = [EmitEobrun(entropy) EXCEPT !.out = <<>>]
    /\ at' = [at EXCEPT !.encoding = FALSE]
    /\ UNCHANGED <<original, interval, saved, image>>

(* process_restart, before the MCU that begins an interval. *)
RestartDue == interval > 0 /\ saved.toGo = 0

(* One call of decode_mcu for the next block with the items in. *)
DecodeCall(in) ==
    LET i == saved.done + 1
        d == [k |-> Now.ss, in |-> in, EOBRUN |-> IF RestartDue THEN 0 ELSE saved.EOBRUN,
              block |-> image[i], newnz |-> {}, short |-> FALSE]
    IN IF Now.ss > 0
       THEN IF Now.ah = 0 THEN DecodeACFirst(d, Now) ELSE DecodeACRefine(d, Now)
       ELSE IF Now.ah = 0
       THEN DecodeDCFirst(d, IF FreshDC(i) THEN 0 ELSE image[i - 1][0] \div 2^Now.al, Now)
       ELSE DecodeDCRefine(d, Now)

AfterRestart == IF RestartDue THEN Tail(items) ELSE items

DecodeMcu ==
    /\ ~at.encoding
    /\ saved.done < Len(original)
    /\ RestartDue => items # <<>> /\ Head(items) = Restart
    /\ LET d == DecodeCall(AfterRestart)
       IN /\ ~d.short
          /\ image' = [image EXCEPT ![saved.done + 1] = d.block]
          /\ items' = d.in
          /\ saved' = [saved EXCEPT !.done = @ + 1, !.EOBRUN = d.EOBRUN,
                         !.toGo = IF interval = 0 THEN 0
                                  ELSE (IF RestartDue THEN interval ELSE @) - 1]
    /\ UNCHANGED <<original, interval, at, entropy>>

(* The call finds only the first n items arrived: nothing but the block     *)
(* changes, and the restart marker is behind it.                            *)
DecodeSuspends ==
    /\ ~at.encoding
    /\ saved.done < Len(original)
    /\ RestartDue => items # <<>> /\ Head(items) = Restart
    /\ \E n \in 0..Len(AfterRestart) - 1 :
         LET d == DecodeCall(SubSeq(AfterRestart, 1, n))
         IN d.short /\ image' = [image EXCEPT ![saved.done + 1] = d.block]
    /\ items' = AfterRestart
    /\ saved' = [saved EXCEPT !.EOBRUN = IF RestartDue THEN 0 ELSE @,
                              !.toGo = IF RestartDue THEN interval ELSE @]
    /\ UNCHANGED <<original, interval, at, entropy>>

(* The next scan of the script: start_pass of both sides. *)
NextScan ==
    /\ ~at.encoding
    /\ saved.done = Len(original)
    /\ at.scan < Len(Script)
    /\ at' = [scan |-> at.scan + 1, encoding |-> TRUE]
    /\ entropy' = StartPassEncoder
    /\ items' = <<>>
    /\ saved' = StartPassDecoder(Script[at.scan + 1], saved.bits, saved.warned)
    /\ UNCHANGED <<original, interval, image>>

ProgressiveNext == EncodeMcu \/ FinishPass \/ DecodeMcu \/ DecodeSuspends \/ NextScan

-----------------------------------------------------------------------------
(* Coefficient k of a block as its first bits down to al show it. *)
Seen(block, k, al) ==
    IF al < 0 THEN 0
    ELSE IF k = 0 THEN ShiftedDC(block[0], al) * 2^al
    ELSE IF block[k] < 0 THEN -(Shifted(block[k], al) * 2^al)
    ELSE Shifted(block[k], al) * 2^al

Before(k) == IF k \in Now.ss..Now.se THEN (IF Now.ah = 0 THEN -1 ELSE Now.ah) ELSE saved.bits[k]

(* The scans add up: after any of its MCUs, however often the decoder was   *)
(* called too early for it, every block has the coefficients of the         *)
(* original at the precision reached, a block that was given up is in no    *)
(* coefficient ahead of or behind that, nothing is left over of a scan, no  *)
(* scan looks out of order, and the buffer of correction bits is never      *)
(* overrun (jcphuff.c, jdphuff.c: undoit, MAX_CORR_BITS, coef_bits).        *)
ScansAddUp ==
    /\ ~entropy.overrun
    /\ ~saved.warned
    /\ ~at.encoding /\ saved.done = Len(original) => items = <<>> /\ saved.EOBRUN = 0
    /\ \A i \in DOMAIN original : \A k \in 0..LastCoef :
         LET now == Seen(original[i], k, saved.bits[k])
             old == Seen(original[i], k, Before(k))
         IN IF at.encoding \/ i > saved.done + 1 THEN image[i][k] = old
            ELSE IF i <= saved.done THEN image[i][k] = now
            ELSE image[i][k] \in {old, now} /\ (Now.ah > 0 /\ k > 0 => (image[i][k] = 0) = (old = 0))
=============================================================================
