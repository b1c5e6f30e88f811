------------------------------ MODULE YuvConvert ------------------------------
(***************************************************************************)
(* libyuv's ConvertToI420: a frame of a camera in one of many formats, a    *)
(* part of it cut out, flipped and turned, becomes three planes             *)
(* (convert_to_i420.cc, convert.cc, rotate.cc, scale.cc).  Every byte of    *)
(* the planes is the set of addresses of the frame it was made from; the    *)
(* arithmetic of strides, offsets and 16.16 fixed point is the code's.      *)
(***************************************************************************)
EXTENDS Integers, Sequences

CONSTANT Conversions   \* the calls: format, size, crop, rotation, in place or not

VARIABLES
    conversion,  \* the arguments of the call
    planes,      \* dst_y, dst_u, dst_v: of each sample the addresses it comes from
    progress     \* "called", "buffered" before the second rotation, "done", "refused"

yvars == <<conversion, planes, progress>>

AbsOf(n) == IF n < 0 THEN -n ELSE n
HalfUp(n) == (n + 1) \div 2

-----------------------------------------------------------------------------
(* A view of the frame: where it starts, how far rows and columns are apart. *)
View(base, stride, step, w, h) ==
    [base |-> base, stride |-> stride, step |-> step, w |-> w, h |-> h]
At(v, x, y) == v.base + y * v.stride + x * v.step

(* A negative height starts at the last row and goes up. *)
Inverted(v) ==
    IF v.h > 0 THEN v
    ELSE [v EXCEPT !.h = -v.h, !.base = @ + (-v.h - 1) * v.stride, !.stride = -@]

Plane(w, h, F(_, _)) == [w |-> w, h |-> h, at |-> [p \in (0 .. w-1) \X (0 .. h-1) |-> F(p[1], p[2])]]

CopyPlane(v) == Plane(v.w, v.h, LAMBDA x, y : {At(v, x, y)})
SetPlane(w, h) == Plane(w, h, LAMBDA x, y : {})

(* RotatePlane.  By 90 the source is read from its last row upwards and     *)
(* transposed, by 270 the transposed rows are written from the last upwards. *)
RotatePlane(p, mode) ==
    CASE mode = 0 -> p
      [] mode = 90 -> Plane(p.h, p.w, LAMBDA x, y : p.at[<<y, p.h - 1 - x>>])
      [] mode = 180 -> Plane(p.w, p.h, LAMBDA x, y : p.at[<<p.w - 1 - x, p.h - 1 - y>>])
      [] mode = 270 -> Plane(p.h, p.w, LAMBDA x, y : p.at[<<p.w - 1 - y, x>>])

-----------------------------------------------------------------------------
(* ScalePlane with kFilterBilinear, as far as halving an axis uses it. *)

One == 65536
FixedDiv(n, d) == (n * One) \div d
CenterStart(d) == (d \div 2) - 32768

(* The columns, or rows, that a position between two of them mixes. *)
Columns(x) == {x \div One} \cup IF x % One >= 512 THEN {x \div One + 1} ELSE {}
Rows(y) == {y \div One} \cup IF y % One >= 256 THEN {y \div One + 1} ELSE {}
AtMost(y, max) == IF y > max THEN max ELSE y

(* ScalePlaneVertical begins at row 0, not at the centre. *)
ScalePlaneVertical(v, h) ==
    LET max == IF v.h > 1 THEN (v.h - 1) * One - 1 ELSE 0
        row(y) == AtMost(y * FixedDiv(v.h, h), max)
    IN Plane(v.w, h, LAMBDA x, y :
         {At(v, x, r) : r \in IF v.w = 1 THEN {row(y) \div One} ELSE Rows(row(y))})

ScalePlaneDown2(v, w, h) ==
    Plane(w, h, LAMBDA x, y : {At(v, 2 * x + i, 2 * y + j) : i, j \in {0, 1}})

(* A source of one row, or one that keeps its height, is not filtered down. *)
ScalePlaneBilinearDown(v, w, h) ==
    LET linear == v.h = 1 \/ h = v.h \/ h * 3 = v.h
        dx == FixedDiv(v.w, w)
        dy == FixedDiv(v.h, h)
        row(y) == AtMost((IF linear THEN dy \div 2 ELSE CenterStart(dy)) + y * dy, (v.h - 1) * One)
    IN Plane(w, h, LAMBDA x, y :
         {At(v, c, r) : c \in Columns(CenterStart(dx) + x * dx),
                        r \in IF linear THEN {row(y) \div One} ELSE Rows(row(y))})

ScalePlane(v, w, h) ==
    CASE w = v.w /\ h = v.h -> CopyPlane(v)
      [] w = v.w /\ h # v.h -> ScalePlaneVertical(v, h)
      [] w # v.w /\ 2 * w = v.w /\ 2 * h = v.h -> ScalePlaneDown2(v, w, h)
      [] OTHER -> ScalePlaneBilinearDown(v, w, h)

-----------------------------------------------------------------------------
(* The conversions. *)

I420(y, u, v) == [Y |-> y, U |-> u, V |-> v]

(* I420Rotate, and NV12ToI420Rotate with the two chroma bytes side by side.  *)
Rotated(y, u, v, mode) ==
    I420(RotatePlane(CopyPlane(Inverted(y)), mode), RotatePlane(CopyPlane(Inverted(u)), mode),
         RotatePlane(CopyPlane(Inverted(v)), mode))

(* I4xxToI420 *)
Scaled(y, u, v) ==
    LET w == HalfUp(y.w)
        h == HalfUp(AbsOf(y.h))
    IN I420(CopyPlane(Inverted(y)), ScalePlane(Inverted(u), w, h), ScalePlane(Inverted(v), w, h))

(* The rows a row of chroma is made from: two, but for an odd last one. *)
RowPair(v, y) == {2 * y} \cup ({2 * y + 1} \cap 0 .. v.h - 1)

(* YUY2ToI420, UYVYToI420: luma every other byte, u and v two bytes apart.  *)
FromPairs(v, luma, u) ==
    LET chroma(first) ==
          Plane(HalfUp(v.w), HalfUp(v.h), LAMBDA x, y :
            {v.base + r * v.stride + 4 * x + first : r \in RowPair(v, y)})
    IN I420(Plane(v.w, v.h, LAMBDA x, y : {v.base + y * v.stride + 2 * x + luma}),
            chroma(u), chroma(u + 2))

(* ARGBToI420 and its like: chroma from two by two pixels. *)
FromPixels(v) ==
    LET chroma ==
          Plane(HalfUp(v.w), HalfUp(v.h), LAMBDA x, y :
            {At(v, i, r) : i \in {2 * x} \cup ({2 * x + 1} \cap 0 .. v.w - 1), r \in RowPair(v, y)})
    IN I420(CopyPlane(v), chroma, chroma)

(* I400ToI420 *)
FromGrey(v) ==
    I420(CopyPlane(v), SetPlane(HalfUp(v.w), HalfUp(v.h)), SetPlane(HalfUp(v.w), HalfUp(v.h)))

-----------------------------------------------------------------------------
(* ConvertToI420 *)

AbsHeight(c) == AbsOf(c.height)

(* Mutant of AlignedWidth: rows of pairs are as wide as the frame. *)
AlignedWidthAsIs(c) == c.width

(* aligned_src_width *)
AlignedWidth(c) == 2 * HalfUp(c.width)

(* inv_crop_height *)
InvCropHeight(c) == IF c.height < 0 THEN -AbsOf(c.crop.h) ELSE AbsOf(c.crop.h)

(* One-pass rotation is for formats with planes of half size. *)
OnePass == {"NV12", "NV21", "I420", "YV12"}
NeedBuf(c) == (c.rotation # 0 /\ c.format \notin OnePass) \/ c.inPlace

Valid(c) == c.width > 0 /\ c.crop.w > 0 /\ c.height # 0 /\ c.crop.h # 0

Luma(c) == View(c.width * c.crop.y + c.crop.x, c.width, 1, c.crop.w, InvCropHeight(c))

(* A chroma plane at an offset, with every column or row or every other one. *)
Chroma(c, base, stride, step, x, y, across, down) ==
    View(base + y * stride + x * step, stride, step,
         IF across = 2 THEN HalfUp(c.crop.w) ELSE c.crop.w,
         IF down = 1 THEN InvCropHeight(c)
         ELSE IF InvCropHeight(c) > 0 THEN HalfUp(InvCropHeight(c)) ELSE -HalfUp(-InvCropHeight(c)))

(* NV12, NV21: the bytes of a pair are uv or vu. *)
Biplanar(c, u) ==
    LET area == c.width * AbsHeight(c)
        half(first) == Chroma(c, area + first, AlignedWidth(c), 2,
                              c.crop.x \div 2, c.crop.y \div 2, 2, 2)
    IN Rotated(Luma(c), half(u), half(1 - u), c.rotation)

(* I420 and YV12: the first and the second plane of chroma. *)
Halves(c) ==
    LET area == c.width * AbsHeight(c)
        w == HalfUp(c.width)
        half(i) == Chroma(c, area + i * w * HalfUp(AbsHeight(c)), w, 1,
                          c.crop.x \div 2, c.crop.y \div 2, 2, 2)
    IN <<half(0), half(1)>>

(* I422 and YV16, I444 and YV24. *)
Wide(c, across) ==
    LET area == c.width * AbsHeight(c)
        w == IF across = 2 THEN HalfUp(c.width) ELSE c.width
        whole(i) == Chroma(c, area + i * w * AbsHeight(c), w, 1,
                           c.crop.x \div across, c.crop.y, across, 1)
    IN <<whole(0), whole(1)>>

(* A packed format: aligned rows of pairs, or pixels, counted as one address *)
(* each.                                                                     *)
PairView(c) ==
    Inverted(View((AlignedWidth(c) * c.crop.y + c.crop.x) * 2, AlignedWidth(c) * 2, 2,
                  c.crop.w, InvCropHeight(c)))

Converted(c) ==
    CASE c.format = "YUY2" -> FromPairs(PairView(c), 0, 1)
      [] c.format = "UYVY" -> FromPairs(PairView(c), 1, 0)
      [] c.format = "RGB" -> FromPixels(Inverted(Luma(c)))
      [] c.format = "I400" -> FromGrey(Inverted(Luma(c)))
      [] c.format = "NV12" -> Biplanar(c, 0)
      [] c.format = "NV21" -> Biplanar(c, 1)
      [] c.format = "I420" -> Rotated(Luma(c), Halves(c)[1], Halves(c)[2], c.rotation)
      [] c.format = "YV12" -> Rotated(Luma(c), Halves(c)[2], Halves(c)[1], c.rotation)
      [] c.format = "I422" -> Scaled(Luma(c), Wide(c, 2)[1], Wide(c, 2)[2])
      [] c.format = "YV16" -> Scaled(Luma(c), Wide(c, 2)[2], Wide(c, 2)[1])
      [] c.format = "I444" -> Scaled(Luma(c), Wide(c, 1)[1], Wide(c, 1)[2])
      [] c.format = "YV24" -> Scaled(Luma(c), Wide(c, 1)[2], Wide(c, 1)[1])

(* What a caller keeps to: the crop lies within the frame (convert.h,        *)
(* ConvertToI420).  The rest is where the code goes wrong: pairs cut between *)
(* u and v; a rotation in place of a format rotated in one pass, which       *)
(* rotates twice; sizes that 16.16 cannot hold, and rows that are scaled     *)
(* from the top by a step rounded down, the last of which must not have      *)
(* fallen back by more than a row.                                          *)
InFrame(c) ==
    /\ c.crop.x + c.crop.w <= c.width
    /\ c.crop.y + AbsOf(c.crop.h) <= AbsHeight(c)

InStep(n) == (HalfUp(n) - 1) * (2 * One - FixedDiv(n, HalfUp(n))) <= One

FromTop(c) == c.format \in {"I422", "YV16"} \/ (c.format \in {"I444", "YV24"} /\ c.crop.w = 1)
Scales(c) == c.format \in {"I422", "YV16", "I444", "YV24"}

Fits(c) ==
    /\ InFrame(c)
    /\ c.format \in {"YUY2", "UYVY"} => c.crop.x % 2 = 0
    /\ c.inPlace => c.rotation = 0 \/ c.format \notin OnePass
    /\ Scales(c) => c.crop.w < 32768 /\ AbsOf(c.crop.h) < 32768
    /\ FromTop(c) => InStep(AbsOf(c.crop.h))

Formats == {"YUY2", "UYVY", "RGB", "I400", "NV12", "NV21", "I420", "YV12", "I422", "YV16",
            "I444", "YV24"}

ConvertCalls ==
    [format : Formats, width : Nat, height : Int, crop : [x : Nat, y : Nat, w : Nat, h : Int],
     rotation : {0, 90, 180, 270}, inPlace : BOOLEAN]

ASSUME ConversionsAssumption ==
    \A c \in Conversions : c \in ConvertCalls /\ (Valid(c) => Fits(c))

NoPlanes == I420(SetPlane(0, 0), SetPlane(0, 0), SetPlane(0, 0))

Refuse ==
    /\ progress = "called" /\ ~Valid(conversion)
    /\ progress' = "refused"
    /\ UNCHANGED <<conversion, planes>>

Convert ==
    /\ progress = "called" /\ Valid(conversion)
    /\ planes' = Converted(conversion)
    /\ progress' = IF NeedBuf(conversion) THEN "buffered" ELSE "done"
    /\ UNCHANGED conversion

(* The buffer is rotated into the destination. *)
RotateBuffer ==
    /\ progress = "buffered"
    /\ planes' = [p \in DOMAIN planes |-> RotatePlane(planes[p], conversion.rotation)]
    /\ progress' = "done"
    /\ UNCHANGED conversion

YuvInit == conversion \in Conversions /\ planes = NoPlanes /\ progress = "called"
YuvNext == Refuse \/ Convert \/ RotateBuffer
YuvSpec == YuvInit /\ [][YuvNext]_yvars

-----------------------------------------------------------------------------
(* What the formats are: which sample an address holds, and the pixels it    *)
(* stands for.                                                              *)

Sample(of, x, y, w, h) == [of |-> of, x |-> x, y |-> y, w |-> w, h |-> h]

(* The sample in a plane of samples that stand for w by h pixels each. *)
InPlane(of, a, columns, w, h) ==
    Sample(of, (a % columns) * w, (a \div columns) * h, w, h)

(* A pair of pixels: bytes y u y v, or u y v y. *)
InPairs(a, columns, luma) ==
    LET x == (a % (2 * columns)) \div 2
        y == a \div (2 * columns)
    IN IF a % 2 = luma THEN Sample("Y", x, y, 1, 1)
       ELSE Sample(IF x % 2 = 0 THEN "U" ELSE "V", x - (x % 2), y, 2, 1)

(* The address a behind the plane of luma, of planes of so many columns and  *)
(* rows.                                                                    *)
InPlanes(kinds, a, columns, rows, w, h) ==
    IF a < columns * rows THEN InPlane(kinds[1], a, columns, w, h)
    ELSE InPlane(kinds[2], a - columns * rows, columns, w, h)

Kinds == [I420 |-> <<"U", "V">>, YV12 |-> <<"V", "U">>, I422 |-> <<"U", "V">>,
          YV16 |-> <<"V", "U">>, I444 |-> <<"U", "V">>, YV24 |-> <<"V", "U">>,
          NV12 |-> <<"U", "V">>, NV21 |-> <<"V", "U">>]

Holds(c, a) ==
    LET area == c.width * AbsHeight(c)
        b == a - area
        half == HalfUp(c.width)
    IN CASE c.format = "YUY2" -> InPairs(a, 2 * half, 0)
         [] c.format = "UYVY" -> InPairs(a, 2 * half, 1)
         [] c.format = "RGB" -> InPlane("RGB", a, c.width, 1, 1)
         [] c.format \in DOMAIN Kinds \cup {"I400"} /\ a < area -> InPlane("Y", a, c.width, 1, 1)
         [] c.format \in {"NV12", "NV21"} /\ b >= 0 ->
              InPlane(Kinds[c.format][(b % 2) + 1], b \div 2, half, 2, 2)
         [] c.format \in {"I420", "YV12"} /\ b >= 0 ->
              InPlanes(Kinds[c.format], b, half, HalfUp(AbsHeight(c)), 2, 2)
         [] c.format \in {"I422", "YV16"} /\ b >= 0 ->
              InPlanes(Kinds[c.format], b, half, AbsHeight(c), 2, 1)
         [] OTHER -> InPlanes(Kinds[c.format], b, c.width, AbsHeight(c), 1, 1)

-----------------------------------------------------------------------------
Turns(c) == c.rotation \in {90, 270}
WidthAfter(c) == IF Turns(c) THEN AbsOf(c.crop.h) ELSE c.crop.w
HeightAfter(c) == IF Turns(c) THEN c.crop.w ELSE AbsOf(c.crop.h)

(* The pixel of the frame that belongs at a place of the result. *)
Source(c, x, y) ==
    LET w == c.crop.w
        h == AbsOf(c.crop.h)
        u == CASE c.rotation = 0 -> x [] c.rotation = 90 -> y
               [] c.rotation = 180 -> w - 1 - x [] c.rotation = 270 -> w - 1 - y
        v == CASE c.rotation = 0 -> y [] c.rotation = 90 -> h - 1 - x
               [] c.rotation = 180 -> h - 1 - y [] c.rotation = 270 -> x
    IN <<c.crop.x + u, c.crop.y + IF c.height < 0 THEN h - 1 - v ELSE v>>

(* How far the pixels of a sample are from a pixel. *)
Off(first, size, at) ==
    CASE at < first -> first - at
      [] at >= first + size -> at - (first + size - 1)
      [] OTHER -> 0
Near(s, pixel, far) == Off(s.x, s.w, pixel[1]) <= far /\ Off(s.y, s.h, pixel[2]) <= far

LumaRight(c) ==
    /\ planes.Y.w = WidthAfter(c) /\ planes.Y.h = HeightAfter(c)
    /\ \A x \in 0 .. planes.Y.w - 1, y \in 0 .. planes.Y.h - 1 :
         LET held == {Holds(c, a) : a \in planes.Y.at[<<x, y>>]}
             pixel == Source(c, x, y)
         IN held = {Sample(IF c.format = "RGB" THEN "RGB" ELSE "Y", pixel[1], pixel[2], 1, 1)}

(* Chroma comes from the right plane, and from nothing more than a pixel    *)
(* away from the pixels it is shown with.                                   *)
ChromaRight(c, p, of) ==
    /\ p.w = HalfUp(WidthAfter(c)) /\ p.h = HalfUp(HeightAfter(c))
    /\ c.format # "I400" =>
         \A x \in 0 .. p.w - 1, y \in 0 .. p.h - 1 :
           LET held == {Holds(c, a) : a \in p.at[<<x, y>>]}
               shown == {Source(c, i, j) :
                           i \in {2 * x, 2 * x + 1} \cap 0 .. planes.Y.w - 1,
                           j \in {2 * y, 2 * y + 1} \cap 0 .. planes.Y.h - 1}
           IN /\ held # {}
              /\ \A s \in held :
                   /\ s.of \in {of, "RGB"}
                   /\ s.y + s.h <= AbsHeight(c) + 1
                   /\ \E pixel \in shown : Near(s, pixel, 1)

(* Whatever the format, the crop, the flip and the rotation, odd sizes       *)
(* included: every pixel of the result shows the pixel that belongs there,   *)
(* with chroma of its neighbourhood, u and v not mixed up (ConvertToI420).   *)
PictureConverted ==
    progress = "done" =>
        /\ LumaRight(conversion)
        /\ ChromaRight(conversion, planes.U, "U")
        /\ ChromaRight(conversion, planes.V, "V")
=============================================================================
