--------------------------- MODULE JpegTransform ---------------------------
(***************************************************************************)
(* Lossless transforms (transupp.c) as tjTransform uses them: a call asks   *)
(* for several outputs of one picture, each flipped, turned, cropped,       *)
(* trimmed or reduced to grey.  A DCT block is the place it had in the      *)
(* source and what became of it: transposed, then mirrored left to right    *)
(* (the odd columns of coefficients change sign), top to bottom (the odd    *)
(* rows).  DctSize stands for 8.                                            *)
(***************************************************************************)
EXTENDS Integers, Sequences, FiniteSets

CONSTANTS
    Sources,      \* pictures: [w, h, comps], comps a sequence of [hs, vs]
    Requests,     \* what may be asked at once: sequences of transforms
                  \* [op, trim, perfect, gray, crop], crop [x, y, w, h] or NoCrop
    DctSize

TransformOps == {"none", "hflip", "vflip", "transpose", "transverse", "rot90", "rot180", "rot270"}
NoCrop == [x |-> 0, y |-> 0, w |-> 0, h |-> 0]

ASSUME TransformAssumption ==
    /\ DctSize \in Nat \ {0}
    /\ \A s \in Sources :
         /\ s.w \in Nat \ {0} /\ s.h \in Nat \ {0}
         /\ s.comps \in Seq([hs : Nat \ {0}, vs : Nat \ {0}]) \ {<<>>}
         /\ \A c \in 1..Len(s.comps) :  \* Y is not subsampled
              s.comps[c].hs <= s.comps[1].hs /\ s.comps[c].vs <= s.comps[1].vs
    /\ \A ts \in Requests :
         ts \in Seq([op : TransformOps, trim : BOOLEAN, perfect : BOOLEAN, gray : BOOLEAN,
                    crop : [x : Nat, y : Nat, w : Nat, h : Nat]])

VARIABLES
    source,       \* the picture as it was read
    coefs,        \* its coefficient arrays, which a transform may overwrite
    asked,        \* the transforms of the call under way
    outs          \* the outputs written so far

xvars == <<source, coefs, asked, outs>>

Up(a, b) == (a + b - 1) \div b
MaxHs(comps) == comps[1].hs
MaxVs(comps) == comps[1].vs

Block(x, y) == [x |-> x, y |-> y, transposed |-> FALSE, h |-> FALSE, v |-> FALSE]
MirrorH(b) == [b EXCEPT !.h = ~@]
MirrorV(b) == [b EXCEPT !.v = ~@]
Transposed(b) == [b EXCEPT !.transposed = ~@, !.h = b.v, !.v = b.h]

(* The arrays of a picture, padded to full iMCUs as jdcoefct.c pads them.   *)
Arrays(s) ==
    [c \in 1..Len(s.comps) |->
       LET across == Up(s.w, MaxHs(s.comps) * DctSize) * s.comps[c].hs
           down == Up(s.h, MaxVs(s.comps) * DctSize) * s.comps[c].vs
       IN [p \in (0 .. across - 1) \X (0 .. down - 1) |-> Block(p[1], p[2])]]

-----------------------------------------------------------------------------
(* jtransform_request_workspace: the size of the output and of its iMCUs,   *)
(* the crop in iMCUs, whether arrays of their own are needed.               *)
Transposes(t) == t.op \in {"transpose", "transverse", "rot90", "rot270"}
Single(t) == t.gray \/ Len(source.comps) = 1

(* jtransform_perfect_transform *)
Perfect(t) ==
    LET mw == (IF Single(t) THEN 1 ELSE MaxHs(source.comps)) * DctSize
        mh == (IF Single(t) THEN 1 ELSE MaxVs(source.comps)) * DctSize
    IN /\ t.op \in {"hflip", "rot270", "transverse", "rot180"} => source.w % mw = 0
       /\ t.op \in {"vflip", "rot90", "transverse", "rot180"} => source.h % mh = 0

FullWidth(t) == IF Transposes(t) THEN source.h ELSE source.w
FullHeight(t) == IF Transposes(t) THEN source.w ELSE source.h

McuWidth(t) == DctSize * (IF Single(t) THEN 1
                          ELSE IF Transposes(t) THEN MaxVs(source.comps) ELSE MaxHs(source.comps))
McuHeight(t) == DctSize * (IF Single(t) THEN 1
                           ELSE IF Transposes(t) THEN MaxHs(source.comps) ELSE MaxVs(source.comps))

CropWidth(t) == IF t.crop.w = 0 THEN FullWidth(t) - t.crop.x ELSE t.crop.w
CropHeight(t) == IF t.crop.h = 0 THEN FullHeight(t) - t.crop.y ELSE t.crop.h

(* What jtransform_request_workspace and tjTransform refuse. *)
Acceptable(t) ==
    /\ t.perfect => Perfect(t)
    /\ t.crop.x < FullWidth(t) /\ t.crop.y < FullHeight(t)
    /\ t.crop.x + CropWidth(t) <= FullWidth(t)
    /\ t.crop.y + CropHeight(t) <= FullHeight(t)
    /\ t.crop.x % McuWidth(t) = 0 /\ t.crop.y % McuHeight(t) = 0

(* trim_right_edge, trim_bottom_edge: the partial iMCUs of an output that   *)
(* reaches the last full one.                                               *)
Trim(size, offset, full, mcu) ==
    IF size \div mcu > 0 /\ offset + size \div mcu = full \div mcu
    THEN size - (size % mcu) ELSE size

MirrorsAcross(t) == t.op \in {"hflip", "transverse", "rot90", "rot180"}
MirrorsDown(t) == t.op \in {"vflip", "transverse", "rot270", "rot180"}

TrimsRight(t) == t.trim /\ MirrorsAcross(t)

(* Mutant of TrimsBottom: the rows that a turn to the left leaves behind. *)
TrimsBottomNotTurned(t) == t.trim /\ t.op \in {"vflip", "transverse", "rot180"}

TrimsBottom(t) == t.trim /\ MirrorsDown(t)

Offset(t) == <<t.crop.x \div McuWidth(t), t.crop.y \div McuHeight(t)>>

OutputSize(t) ==
    LET w == CropWidth(t)  h == CropHeight(t)
    IN <<IF TrimsRight(t) THEN Trim(w, Offset(t)[1], FullWidth(t), McuWidth(t)) ELSE w,
         IF TrimsBottom(t) THEN Trim(h, Offset(t)[2], FullHeight(t), McuHeight(t)) ELSE h>>

(* Mutant of InPlace: tjTransform does not ask for a slow flip. *)
InPlaceAnyway(t) == t.op = "hflip" /\ Offset(t)[2] = 0

(* A flip in place: tjTransform asks for slow_hflip when the source is used *)
(* for more than one output.                                                *)
InPlace(t) == t.op = "hflip" /\ Offset(t)[2] = 0 /\ Len(asked) = 1

(* jtransform_adjust_parameters: the sampling factors of the output. *)
OutputComps(t) ==
    IF Single(t) THEN <<[hs |-> 1, vs |-> 1]>>
    ELSE [c \in 1..Len(source.comps) |->
            IF Transposes(t) THEN [hs |-> source.comps[c].vs, vs |-> source.comps[c].hs]
            ELSE source.comps[c]]

-----------------------------------------------------------------------------
(* jtransform_execute_transform.  For component c of the output: offsets in *)
(* blocks, the blocks that can be mirrored, and the block at <<x, y>> by    *)
(* each of the do_ routines.                                                *)
XCrop(t, c) == Offset(t)[1] * OutputComps(t)[c].hs
YCrop(t, c) == Offset(t)[2] * OutputComps(t)[c].vs
CompWidth(t, c) ==
    (FullWidth(t) \div (MaxHs(OutputComps(t)) * DctSize)) * OutputComps(t)[c].hs
CompHeight(t, c) ==
    (FullHeight(t) \div (MaxVs(OutputComps(t)) * DctSize)) * OutputComps(t)[c].vs

(* The blocks of the output by op: x and y in the uncropped output, right   *)
(* and bottom the last that can be mirrored.                                *)
Moved(op, S, x, y, w, h) ==
    LET mx == w - 1 - x  my == h - 1 - y
        inX == x < w     inY == y < h
        T(a, b) == Transposed(S[<<b, a>>])
    IN CASE op = "none" -> S[<<x, y>>]
         [] op = "hflip" -> IF inX THEN MirrorH(S[<<mx, y>>]) ELSE S[<<x, y>>]
         [] op = "vflip" -> IF inY THEN MirrorV(S[<<x, my>>]) ELSE S[<<x, y>>]
         [] op = "rot180" ->
              IF inY THEN IF inX THEN MirrorH(MirrorV(S[<<mx, my>>])) ELSE MirrorV(S[<<x, my>>])
              ELSE IF inX THEN MirrorH(S[<<mx, y>>]) ELSE S[<<x, y>>]
         [] op = "transpose" -> T(x, y)
         [] op = "rot90" -> IF inX THEN MirrorH(T(mx, y)) ELSE T(x, y)
         [] op = "rot270" -> IF inY THEN MirrorV(T(x, my)) ELSE T(x, y)
         [] op = "transverse" ->
              IF inY THEN IF inX THEN MirrorH(MirrorV(T(mx, my))) ELSE MirrorV(T(x, my))
              ELSE IF inX THEN MirrorH(T(mx, y)) ELSE T(x, y)

(* The blocks of the output: those its size has. *)
OutputBlocks(t, c) ==
    LET across == Up(OutputSize(t)[1] * OutputComps(t)[c].hs, MaxHs(OutputComps(t)) * DctSize)
        down == Up(OutputSize(t)[2] * OutputComps(t)[c].vs, MaxVs(OutputComps(t)) * DctSize)
    IN (0 .. across - 1) \X (0 .. down - 1)

Executed(t) ==
    [c \in 1..Len(OutputComps(t)) |->
       [p \in OutputBlocks(t, c) |->
          Moved(t.op, coefs[c], p[1] + XCrop(t, c), p[2] + YCrop(t, c),
                CompWidth(t, c), CompHeight(t, c))]]

(* do_flip_h_no_crop: the rows of the output are swapped over their whole   *)
(* width, then the blocks to be kept are moved to the left.                 *)
FlippedInPlace(t) ==
    [c \in 1..Len(coefs) |->
       IF c > Len(OutputComps(t)) THEN coefs[c]
       ELSE [p \in DOMAIN coefs[c] |->
               LET kept == OutputBlocks(t, c)
                   swapped(x) == Moved("hflip", coefs[c], x, p[2], CompWidth(t, c), 0)
               IN IF p \in kept THEN swapped(p[1] + XCrop(t, c))
                  ELSE IF <<0, p[2]>> \in kept THEN swapped(p[1]) ELSE coefs[c][p]]]

(* The arrays the output is written from. *)
Written(t) ==
    IF InPlace(t)
    THEN [c \in 1..Len(OutputComps(t)) |->
            [p \in OutputBlocks(t, c) |-> FlippedInPlace(t)[c][p]]]
    ELSE Executed(t)

-----------------------------------------------------------------------------
TransformInit ==
    /\ source \in Sources
    /\ coefs = Arrays(source)
    /\ asked = <<>> /\ outs = <<>>

(* tjTransform up to jpeg_read_coefficients: every transform is examined    *)
(* before the first is executed.                                            *)
Ask ==
    /\ asked = <<>>
    /\ asked' \in Requests
    /\ \A k \in 1..Len(asked') : Acceptable(asked'[k])
    /\ UNCHANGED <<source, coefs, outs>>

(* One turn of the loop that writes the outputs. *)
Execute ==
    /\ Len(outs) < Len(asked)
    /\ LET t == asked[Len(outs) + 1] IN
         /\ outs' = Append(outs, [size |-> OutputSize(t), comps |-> Written(t)])
         /\ coefs' = IF InPlace(t) THEN FlippedInPlace(t) ELSE coefs
    /\ UNCHANGED <<source, asked>>

TransformNext == Ask \/ Execute

TransformSpec == TransformInit /\ [][TransformNext]_xvars

-----------------------------------------------------------------------------
(* Properties. *)

FlipH(S, n) == [p \in DOMAIN S |-> IF p[1] < n THEN MirrorH(S[<<n - 1 - p[1], p[2]>>]) ELSE S[p]]
FlipV(S, n) == [p \in DOMAIN S |-> IF p[2] < n THEN MirrorV(S[<<p[1], n - 1 - p[2]>>]) ELSE S[p]]
Turn(S) == [p \in {<<q[2], q[1]>> : q \in DOMAIN S} |-> Transposed(S[<<p[2], p[1]>>])]

(* A transform in elementary steps on the whole component; across and down  *)
(* are the blocks of its full iMCUs.                                        *)
Composed(op, S, across, down) ==
    CASE op = "none" -> S
      [] op = "hflip" -> FlipH(S, across)
      [] op = "vflip" -> FlipV(S, down)
      [] op = "rot180" -> FlipH(FlipV(S, down), across)
      [] op = "transpose" -> Turn(S)
      [] op = "rot90" -> FlipH(Turn(S), down)
      [] op = "rot270" -> Turn(FlipH(S, across))
      [] op = "transverse" -> Turn(FlipH(FlipV(S, down), across))

(* Every output is the window of its crop on the source as it was read,     *)
(* flipped and turned one elementary step after the other as the comments   *)
(* of the do_ routines say, partial iMCUs at the far edges left out of each *)
(* flip: whatever the outputs before it in the same call were, which share  *)
(* its source arrays and may be flips.                                      *)
OutputsAreComposed ==
    \A k \in 1..Len(outs) : \A c \in 1..Len(outs[k].comps) :
      LET t == asked[k]
          turned == Composed(t.op, Arrays(source)[c],
                             IF Transposes(t) THEN CompHeight(t, c) ELSE CompWidth(t, c),
                             IF Transposes(t) THEN CompWidth(t, c) ELSE CompHeight(t, c))
          out == outs[k].comps[c]
      IN \A p \in DOMAIN out : out[p] = turned[<<p[1] + XCrop(t, c), p[2] + YCrop(t, c)>>]

(* The sample of the source a sample of an output shows. *)
Shows(out, x, y) ==
    LET b == out[<<x \div DctSize, y \div DctSize>>]
        i == IF b.h THEN DctSize - 1 - (x % DctSize) ELSE x % DctSize
        k == IF b.v THEN DctSize - 1 - (y % DctSize) ELSE y % DctSize
    IN IF b.transposed THEN <<b.x * DctSize + k, b.y * DctSize + i>>
       ELSE <<b.x * DctSize + i, b.y * DctSize + k>>

(* What it has to show: the picture turned as a whole.  w and h are the     *)
(* samples of the output's full iMCUs before the crop.                      *)
Geometry(op, x, y, w, h) ==
    CASE op = "none" -> <<x, y>>
      [] op = "hflip" -> <<w - 1 - x, y>>
      [] op = "vflip" -> <<x, h - 1 - y>>
      [] op = "rot180" -> <<w - 1 - x, h - 1 - y>>
      [] op = "transpose" -> <<y, x>>
      [] op = "rot90" -> <<y, w - 1 - x>>
      [] op = "rot270" -> <<h - 1 - y, x>>
      [] op = "transverse" -> <<h - 1 - y, w - 1 - x>>

(* An output that is asked to be perfect or to be trimmed shows the picture *)
(* turned as a whole, sample by sample in every component: no block is left *)
(* where or as it was, and trimming cuts the edge the turn has moved the    *)
(* partial iMCUs to.  Not so an output that begins in those partial iMCUs,  *)
(* which are all it has.                                                    *)
TurnsThePicture ==
    \A k \in 1..Len(outs) : \A c \in 1..Len(outs[k].comps) :
      LET t == asked[k]
          out == outs[k].comps[c]
          D == DctSize
      IN (/\ t.perfect \/ t.trim
          /\ MirrorsAcross(t) => XCrop(t, c) < CompWidth(t, c)
          /\ MirrorsDown(t) => YCrop(t, c) < CompHeight(t, c))
         => \A p \in DOMAIN out : \A i, j \in 0 .. D - 1 :
              LET x == p[1] * D + i
                  y == p[2] * D + j
              IN Shows(out, x, y) =
                   Geometry(t.op, x + XCrop(t, c) * D, y + YCrop(t, c) * D,
                            CompWidth(t, c) * D, CompHeight(t, c) * D)
=============================================================================
