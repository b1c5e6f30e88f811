----------------------------- MODULE RowReader -----------------------------
(***************************************************************************)
(* What jpeglib.h and libjpeg.txt promise of a picture that is read row by  *)
(* row: jpeg_read_scanlines gives the next rows, at least one while there   *)
(* are any and never one beyond the bottom, and jpeg_skip_scanlines skips   *)
(* exactly the rows asked for, stopping at the bottom only.                 *)
(***************************************************************************)
EXTENDS Integers, Sequences

VARIABLES
    height,      \* output_height
    line,        \* output_scanline
    asked,       \* how many rows the last call asked for
    given        \* the rows of the picture that it gave

ReadRows ==
    \E n \in 1 .. height - line :
      /\ asked' \in Nat
      /\ asked' >= n
      /\ given' = [k \in 1..n |-> line + k - 1]
      /\ line' = line + n
      /\ UNCHANGED height

SkipRows ==
    /\ line < height
    /\ asked' \in Nat
    /\ line' = IF line + asked' < height THEN line + asked' ELSE height
    /\ given' = <<>>
    /\ UNCHANGED height

Init == height \in Nat \ {0} /\ line = 0 /\ asked = 0 /\ given = <<>>

Next == ReadRows \/ SkipRows

Spec == Init /\ [][Next]_<<height, line, asked, given>>
=============================================================================
