--------------------------- MODULE YuvConvert_proofs ---------------------------
(***************************************************************************)
(* The theorem of ConvertToI420, for every format, size, crop, flip and     *)
(* rotation.  A conversion leaves planes that are right but for the         *)
(* rotation; each format has a lemma that follows its addresses to the      *)
(* pixels they hold, and the rotation is done once.                         *)
(***************************************************************************)
EXTENDS YuvConvert, TLAPS

-----------------------------------------------------------------------------
(* Numbers: the other proofs do not look inside products and quotients. *)

(* A product of two numbers. *)
LEMMA Times ==
  ASSUME NEW a \in Int, NEW b \in Int
  PROVE  a * b \in Int /\ (a \in Nat /\ b \in Nat => a * b \in Nat)
OBVIOUS

(* A factor is drawn into a sum and a difference. *)
LEMMA Spread ==
  ASSUME NEW a \in Int, NEW b \in Int, NEW c \in Int
  PROVE  (a + b) * c = a * c + b * c /\ (a - b) * c = a * c - b * c
OBVIOUS

(* A larger factor gives a larger product. *)
LEMMA Grows ==
  ASSUME NEW a \in Int, NEW b \in Int, NEW c \in Nat, a <= b
  PROVE  a * c <= b * c
OBVIOUS

(* What division does. *)
LEMMA Divided ==
  ASSUME NEW a \in Int, NEW n \in Nat \ {0}
  PROVE  /\ a \div n \in Int /\ a % n \in 0 .. n-1
         /\ a = (a \div n) * n + (a % n)
OBVIOUS

(* There is one quotient. *)
LEMMA OneQuotient ==
  ASSUME NEW n \in Nat \ {0}, NEW q \in Int, NEW r \in 0 .. n-1
  PROVE  (q * n + r) \div n = q /\ (q * n + r) % n = r
<1> DEFINE a == q * n + r
           p == a \div n
           s == a % n
<1>1. a \in Int /\ p \in Int /\ s \in 0 .. n-1 /\ a = p * n + s
  <2>1. a \in Int
    BY Times
  <2>. HIDE DEF a
  <2>. QED  BY <2>1, Divided
<1>. HIDE DEF p, s
<1>2. (p - q) * n = r - s
  BY <1>1, Spread, Times
<1>3. p - q < 1
  <2>1. SUFFICES ASSUME 1 <= p - q PROVE FALSE
    BY <1>1
  <2>2. 1 * n <= (p - q) * n
    BY <1>1, <2>1, Grows
  <2>. QED  BY <1>1, <1>2, <2>2
<1>4. q - p < 1
  <2>1. SUFFICES ASSUME 1 <= q - p PROVE FALSE
    BY <1>1
  <2>2. 1 * n <= (q - p) * n
    BY <1>1, <2>1, Grows
  <2>3. (q - p) * n = s - r
    BY <1>1, Spread, Times
  <2>. QED  BY <1>1, <2>2, <2>3
<1>5. p = q /\ s = r
  BY <1>1, <1>3, <1>4
<1>. QED  BY <1>5

(* Half of a number, rounded up. *)
LEMMA Half ==
  ASSUME NEW n \in Int
  PROVE  /\ HalfUp(n) \in Int /\ 2 * HalfUp(n) \in {n, n + 1}
         /\ n > 0 => HalfUp(n) > 0 /\ HalfUp(n) <= n
         /\ n >= 0 => HalfUp(n) >= 0
         /\ n > 1 => HalfUp(n) < n
BY DEF HalfUp

-----------------------------------------------------------------------------
(* The calls. *)

(* What is known of a call whose arguments are not refused. *)
LEMMA CallFacts ==
  ASSUME NEW c \in Conversions, Valid(c)
  PROVE  /\ c.format \in Formats /\ c.width \in Nat \ {0} /\ c.height \in Int \ {0}
         /\ c.crop.x \in Nat /\ c.crop.y \in Nat /\ c.crop.w \in Nat \ {0} /\ c.crop.h \in Int \ {0}
         /\ AbsOf(c.crop.h) \in Nat \ {0} /\ AbsHeight(c) \in Nat \ {0}
         /\ c.rotation \in {0, 90, 180, 270} /\ c.inPlace \in BOOLEAN
         /\ Fits(c) /\ InFrame(c)
<1>1. c \in ConvertCalls /\ Fits(c)
  BY ConversionsAssumption
<1>2. /\ c.format \in Formats /\ c.width \in Nat /\ c.height \in Int
      /\ c.crop.x \in Nat /\ c.crop.y \in Nat /\ c.crop.w \in Nat /\ c.crop.h \in Int
      /\ c.rotation \in {0, 90, 180, 270} /\ c.inPlace \in BOOLEAN
  BY <1>1 DEF ConvertCalls
<1>3. c.width > 0 /\ c.crop.w > 0 /\ c.height # 0 /\ c.crop.h # 0
  BY DEF Valid
<1>. QED  BY <1>1, <1>2, <1>3 DEF AbsOf, AbsHeight, Fits

-----------------------------------------------------------------------------
(* Planes. *)

(* A plane is made of what is put at its places. *)
LEMMA CopyFacts ==
  ASSUME NEW v
  PROVE  /\ CopyPlane(v).w = v.w /\ CopyPlane(v).h = v.h
         /\ \A x \in 0 .. v.w - 1, y \in 0 .. v.h - 1 : CopyPlane(v).at[<<x, y>>] = {At(v, x, y)}
BY DEF CopyPlane, Plane

(* Where RotatePlane takes a sample from. *)
Unturned(mode, w, h, x, y) ==
    CASE mode = 0 -> <<x, y>>
      [] mode = 90 -> <<y, h - 1 - x>>
      [] mode = 180 -> <<w - 1 - x, h - 1 - y>>
      [] mode = 270 -> <<w - 1 - y, x>>

TurnedW(mode, w, h) == IF mode \in {90, 270} THEN h ELSE w
TurnedH(mode, w, h) == IF mode \in {90, 270} THEN w ELSE h

(* RotatePlane turns the sides, and every sample comes from its place. *)
LEMMA RotateFacts ==
  ASSUME NEW p, NEW mode \in {0, 90, 180, 270}
  PROVE  LET W == TurnedW(mode, p.w, p.h)  H == TurnedH(mode, p.w, p.h)
         IN /\ RotatePlane(p, mode).w = W /\ RotatePlane(p, mode).h = H
            /\ \A x \in 0 .. W - 1, y \in 0 .. H - 1 :
                 RotatePlane(p, mode).at[<<x, y>>] = p.at[Unturned(mode, p.w, p.h, x, y)]
<1>1. CASE mode = 0
  BY <1>1 DEF RotatePlane, TurnedW, TurnedH, Unturned
<1>2. CASE mode = 90
  BY <1>2 DEF RotatePlane, Plane, TurnedW, TurnedH, Unturned
<1>3. CASE mode = 180
  BY <1>3 DEF RotatePlane, Plane, TurnedW, TurnedH, Unturned
<1>4. CASE mode = 270
  BY <1>4 DEF RotatePlane, Plane, TurnedW, TurnedH, Unturned
<1>. QED  BY <1>1, <1>2, <1>3, <1>4

(* A place of the turned plane is a place of the plane. *)
LEMMA UnturnedWithin ==
  ASSUME NEW mode \in {0, 90, 180, 270}, NEW w \in Nat, NEW h \in Nat,
         NEW x \in 0 .. TurnedW(mode, w, h) - 1, NEW y \in 0 .. TurnedH(mode, w, h) - 1
  PROVE  \E u \in 0 .. w-1, v \in 0 .. h-1 : Unturned(mode, w, h, x, y) = <<u, v>>
BY DEF Unturned, TurnedW, TurnedH

-----------------------------------------------------------------------------
(* Planes that are right but for the rotation. *)

(* The pixel of the frame at a place of the crop, flipped. *)
FlippedRow(c, v) == c.crop.y + IF c.height < 0 THEN AbsOf(c.crop.h) - 1 - v ELSE v
Pixel(c, u, v) == <<c.crop.x + u, FlippedRow(c, v)>>

UprightLuma(c, p) ==
    /\ p.w = c.crop.w /\ p.h = AbsOf(c.crop.h)
    /\ \A u \in 0 .. p.w - 1, v \in 0 .. p.h - 1 :
         \E a : /\ p.at[<<u, v>>] = {a}
                /\ Holds(c, a) = Sample(IF c.format = "RGB" THEN "RGB" ELSE "Y",
                                        c.crop.x + u, FlippedRow(c, v), 1, 1)

(* Of the pixels a sample of chroma is shown with, the first belongs to it    *)
(* in every rotation.                                                       *)
Belongs(c, s, of, u, v) ==
    /\ s.of \in {of, "RGB"} /\ s.y + s.h <= AbsHeight(c) + 1
    /\ Near(s, Pixel(c, 2 * u, 2 * v), 1)

UprightChroma(c, p, of) ==
    /\ p.w = HalfUp(c.crop.w) /\ p.h = HalfUp(AbsOf(c.crop.h))
    /\ c.format # "I400" =>
         \A u \in 0 .. p.w - 1, v \in 0 .. p.h - 1 :
           p.at[<<u, v>>] # {} /\ \A a \in p.at[<<u, v>>] : Belongs(c, Holds(c, a), of, u, v)

Upright(c, q) ==
    UprightLuma(c, q.Y) /\ UprightChroma(c, q.U, "U") /\ UprightChroma(c, q.V, "V")

(* The planes p are the planes q turned as the call asks. *)
TurnedFrom(c, q, p) ==
    /\ p.Y = RotatePlane(q.Y, c.rotation)
    /\ p.U = RotatePlane(q.U, c.rotation)
    /\ p.V = RotatePlane(q.V, c.rotation)

(* The pixel at a place of the result is the one at the place it is turned    *)
(* from.                                                                    *)
LEMMA SourceTurned ==
  ASSUME NEW c \in Conversions, Valid(c), NEW x \in Int, NEW y \in Int, NEW u, NEW v,
         Unturned(c.rotation, c.crop.w, AbsOf(c.crop.h), x, y) = <<u, v>>
  PROVE  Source(c, x, y) = Pixel(c, u, v)
<1>. c.rotation \in {0, 90, 180, 270}
  BY CallFacts
<1>1. CASE c.rotation = 0
  BY <1>1 DEF Source, Pixel, FlippedRow, Unturned
<1>2. CASE c.rotation = 90
  BY <1>2 DEF Source, Pixel, FlippedRow, Unturned
<1>3. CASE c.rotation = 180
  BY <1>3 DEF Source, Pixel, FlippedRow, Unturned
<1>4. CASE c.rotation = 270
  BY <1>4 DEF Source, Pixel, FlippedRow, Unturned
<1>. QED  BY <1>1, <1>2, <1>3, <1>4

(* Luma that is right upright is right when it is turned. *)
LEMMA LumaTurned ==
  ASSUME NEW c \in Conversions, Valid(c), NEW p, UprightLuma(c, p),
         planes.Y = RotatePlane(p, c.rotation)
  PROVE  LumaRight(c) /\ planes.Y.w = WidthAfter(c) /\ planes.Y.h = HeightAfter(c)
<1> DEFINE w == c.crop.w
           h == AbsOf(c.crop.h)
           mode == c.rotation
           kind == IF c.format = "RGB" THEN "RGB" ELSE "Y"
<1>1. mode \in {0, 90, 180, 270} /\ w \in Nat \ {0} /\ h \in Nat \ {0} /\ p.w = w /\ p.h = h
  BY CallFacts DEF UprightLuma
<1>2. TurnedW(mode, w, h) = WidthAfter(c) /\ TurnedH(mode, w, h) = HeightAfter(c)
  BY DEF TurnedW, TurnedH, WidthAfter, HeightAfter, Turns
<1>3. /\ planes.Y.w = WidthAfter(c) /\ planes.Y.h = HeightAfter(c)
      /\ \A x \in 0 .. WidthAfter(c) - 1, y \in 0 .. HeightAfter(c) - 1 :
           planes.Y.at[<<x, y>>] = p.at[Unturned(mode, w, h, x, y)]
  BY <1>1, <1>2, RotateFacts
<1>4. ASSUME NEW x \in 0 .. planes.Y.w - 1, NEW y \in 0 .. planes.Y.h - 1
      PROVE  {Holds(c, a) : a \in planes.Y.at[<<x, y>>]}
               = {Sample(kind, Source(c, x, y)[1], Source(c, x, y)[2], 1, 1)}
  <2>1. PICK u \in 0 .. w-1, v \in 0 .. h-1 : Unturned(mode, w, h, x, y) = <<u, v>>
    <3>1. x \in 0 .. TurnedW(mode, w, h) - 1 /\ y \in 0 .. TurnedH(mode, w, h) - 1
      BY <1>2, <1>3
    <3>2. w \in Nat /\ h \in Nat
      BY <1>1
    <3>. HIDE DEF w, h, mode
    <3>. QED  BY <1>1, <3>1, <3>2, UnturnedWithin
  <2>2. PICK a : /\ p.at[<<u, v>>] = {a}
                 /\ Holds(c, a) = Sample(kind, c.crop.x + u, FlippedRow(c, v), 1, 1)
    BY <1>1 DEF UprightLuma
  <2>3. Source(c, x, y) = Pixel(c, u, v)
    <3>1. x \in Int /\ y \in Int
      BY <1>3
    <3>. QED  BY <2>1, <3>1, SourceTurned
  <2>4. planes.Y.at[<<x, y>>] = {a}
    BY <1>3, <2>1, <2>2
  <2>5. Source(c, x, y)[1] = c.crop.x + u /\ Source(c, x, y)[2] = FlippedRow(c, v)
    BY <2>3 DEF Pixel
  <2>. QED  BY <2>2, <2>4, <2>5
<1>. QED  BY <1>3, <1>4 DEF LumaRight

(* The first of the pixels of a sample of chroma is shown with it wherever    *)
(* it is turned to, odd sides included.                                     *)
LEMMA FirstIsShown ==
  ASSUME NEW mode \in {0, 90, 180, 270}, NEW w \in Nat \ {0}, NEW h \in Nat \ {0},
         NEW x \in 0 .. TurnedW(mode, HalfUp(w), HalfUp(h)) - 1,
         NEW y \in 0 .. TurnedH(mode, HalfUp(w), HalfUp(h)) - 1,
         NEW u, NEW v, Unturned(mode, HalfUp(w), HalfUp(h), x, y) = <<u, v>>
  PROVE  /\ u \in 0 .. HalfUp(w) - 1 /\ v \in 0 .. HalfUp(h) - 1
         /\ \E i \in {2 * x, 2 * x + 1} \cap 0 .. TurnedW(mode, w, h) - 1,
               j \in {2 * y, 2 * y + 1} \cap 0 .. TurnedH(mode, w, h) - 1 :
              Unturned(mode, w, h, i, j) = <<2 * u, 2 * v>>
<1> DEFINE a == HalfUp(w)
           b == HalfUp(h)
<1>1. a \in Nat \ {0} /\ b \in Nat \ {0} /\ 2 * a \in {w, w + 1} /\ 2 * b \in {h, h + 1}
  BY Half
<1>2. x \in 0 .. TurnedW(mode, a, b) - 1 /\ y \in 0 .. TurnedH(mode, a, b) - 1
      /\ Unturned(mode, a, b, x, y) = <<u, v>>
  OBVIOUS
<1>. HIDE DEF a, b
<1>. SUFFICES /\ u \in 0 .. a - 1 /\ v \in 0 .. b - 1
              /\ \E i \in {2 * x, 2 * x + 1} \cap 0 .. TurnedW(mode, w, h) - 1,
                    j \in {2 * y, 2 * y + 1} \cap 0 .. TurnedH(mode, w, h) - 1 :
                   Unturned(mode, w, h, i, j) = <<2 * u, 2 * v>>
  BY DEF a, b
<1>3. CASE mode = 0
  <2>1. x \in 0 .. a-1 /\ y \in 0 .. b-1 /\ u = x /\ v = y
    BY <1>1, <1>2, <1>3 DEF TurnedW, TurnedH, Unturned
  <2>2. 2 * x \in 0 .. w-1 /\ 2 * y \in 0 .. h-1
    BY <1>1, <2>1
  <2>. QED  BY <1>3, <2>1, <2>2 DEF TurnedW, TurnedH, Unturned
<1>4. CASE mode = 90
  <2>1. x \in 0 .. b-1 /\ y \in 0 .. a-1 /\ u = y /\ v = b - 1 - x
    BY <1>1, <1>2, <1>4 DEF TurnedW, TurnedH, Unturned
  <2> DEFINE i == h + 1 - 2 * b + 2 * x
  <2>2. i \in {2 * x, 2 * x + 1} /\ i \in 0 .. h-1 /\ 2 * y \in 0 .. w-1
        /\ h - 1 - i = 2 * v /\ 2 * y = 2 * u
    BY <1>1, <2>1
  <2>. HIDE DEF i
  <2>. QED  BY <1>1, <1>4, <2>1, <2>2 DEF TurnedW, TurnedH, Unturned
<1>5. CASE mode = 180
  <2>1. x \in 0 .. a-1 /\ y \in 0 .. b-1 /\ u = a - 1 - x /\ v = b - 1 - y
    BY <1>1, <1>2, <1>5 DEF TurnedW, TurnedH, Unturned
  <2> DEFINE i == w + 1 - 2 * a + 2 * x
             j == h + 1 - 2 * b + 2 * y
  <2>2. i \in {2 * x, 2 * x + 1} /\ i \in 0 .. w-1 /\ w - 1 - i = 2 * u
    BY <1>1, <2>1
  <2>3. j \in {2 * y, 2 * y + 1} /\ j \in 0 .. h-1 /\ h - 1 - j = 2 * v
    BY <1>1, <2>1
  <2>. HIDE DEF i, j
  <2>. QED  BY <1>1, <1>5, <2>1, <2>2, <2>3 DEF TurnedW, TurnedH, Unturned
<1>6. CASE mode = 270
  <2>1. x \in 0 .. b-1 /\ y \in 0 .. a-1 /\ u = a - 1 - y /\ v = x
    BY <1>1, <1>2, <1>6 DEF TurnedW, TurnedH, Unturned
  <2> DEFINE j == w + 1 - 2 * a + 2 * y
  <2>2. j \in {2 * y, 2 * y + 1} /\ j \in 0 .. w-1 /\ w - 1 - j = 2 * u
        /\ 2 * x \in 0 .. h-1 /\ 2 * x = 2 * v
    BY <1>1, <2>1
  <2>. HIDE DEF j
  <2>. QED  BY <1>1, <1>6, <2>1, <2>2 DEF TurnedW, TurnedH, Unturned
<1>. QED  BY <1>3, <1>4, <1>5, <1>6

(* Chroma that is right upright is right when it is turned. *)
LEMMA ChromaTurned ==
  ASSUME NEW c \in Conversions, Valid(c), NEW of, NEW q, NEW p, UprightChroma(c, q, of),
         p = RotatePlane(q, c.rotation),
         planes.Y.w = WidthAfter(c), planes.Y.h = HeightAfter(c)
  PROVE  ChromaRight(c, p, of)
<1> DEFINE w == c.crop.w
           h == AbsOf(c.crop.h)
           a == HalfUp(w)
           b == HalfUp(h)
           mode == c.rotation
           held(x, y) == {Holds(c, d) : d \in p.at[<<x, y>>]}
           shown(x, y) == {Source(c, i, j) :
                             i \in {2 * x, 2 * x + 1} \cap 0 .. planes.Y.w - 1,
                             j \in {2 * y, 2 * y + 1} \cap 0 .. planes.Y.h - 1}
<1>1. mode \in {0, 90, 180, 270} /\ w \in Nat \ {0} /\ h \in Nat \ {0} /\ q.w = a /\ q.h = b
  BY CallFacts DEF UprightChroma
<1>2. a \in Nat \ {0} /\ b \in Nat \ {0}
  BY <1>1, Half
<1>3. /\ TurnedW(mode, w, h) = WidthAfter(c) /\ TurnedH(mode, w, h) = HeightAfter(c)
      /\ TurnedW(mode, a, b) = HalfUp(WidthAfter(c)) /\ TurnedH(mode, a, b) = HalfUp(HeightAfter(c))
  BY DEF TurnedW, TurnedH, WidthAfter, HeightAfter, Turns
<1>4. /\ p.w = TurnedW(mode, a, b) /\ p.h = TurnedH(mode, a, b)
      /\ \A x \in 0 .. TurnedW(mode, a, b) - 1, y \in 0 .. TurnedH(mode, a, b) - 1 :
           p.at[<<x, y>>] = q.at[Unturned(mode, a, b, x, y)]
  BY <1>1, RotateFacts
<1>5. ASSUME c.format # "I400", NEW x \in 0 .. p.w - 1, NEW y \in 0 .. p.h - 1
      PROVE  /\ held(x, y) # {}
             /\ \A s \in held(x, y) :
                  /\ s.of \in {of, "RGB"}
                  /\ s.y + s.h <= AbsHeight(c) + 1
                  /\ \E pixel \in shown(x, y) : Near(s, pixel, 1)
  <2>1. x \in 0 .. TurnedW(mode, a, b) - 1 /\ y \in 0 .. TurnedH(mode, a, b) - 1
    BY <1>4
  <2>2. x \in Int /\ y \in Int
    BY <1>4
  <2>3. PICK u, v : Unturned(mode, a, b, x, y) = <<u, v>>
    BY <1>1 DEF Unturned
  <2>4. /\ u \in 0 .. a - 1 /\ v \in 0 .. b - 1
        /\ \E i \in {2 * x, 2 * x + 1} \cap 0 .. TurnedW(mode, w, h) - 1,
              j \in {2 * y, 2 * y + 1} \cap 0 .. TurnedH(mode, w, h) - 1 :
             Unturned(mode, w, h, i, j) = <<2 * u, 2 * v>>
    <3>. HIDE DEF mode, w, h
    <3>. QED  BY <1>1, <2>1, <2>3, FirstIsShown
  <2>5. PICK i \in {2 * x, 2 * x + 1} \cap 0 .. TurnedW(mode, w, h) - 1,
             j \in {2 * y, 2 * y + 1} \cap 0 .. TurnedH(mode, w, h) - 1 :
               Unturned(mode, w, h, i, j) = <<2 * u, 2 * v>>
    BY <2>4
  <2>6. Source(c, i, j) = Pixel(c, 2 * u, 2 * v)
    <3>1. i \in Int /\ j \in Int
      BY <2>2
    <3>. QED  BY <2>5, <3>1, SourceTurned
  <2>7. Pixel(c, 2 * u, 2 * v) \in shown(x, y)
    BY <1>3, <2>6
  <2>8. /\ q.at[<<u, v>>] # {} /\ p.at[<<x, y>>] = q.at[<<u, v>>]
        /\ \A d \in q.at[<<u, v>>] : Belongs(c, Holds(c, d), of, u, v)
    BY <1>1, <1>4, <1>5, <2>1, <2>3, <2>4 DEF UprightChroma
  <2>. HIDE DEF shown
  <2>. QED  BY <2>7, <2>8 DEF Belongs
<1>6. p.w = HalfUp(WidthAfter(c)) /\ p.h = HalfUp(HeightAfter(c))
  BY <1>3, <1>4
<1>. QED  BY <1>5, <1>6 DEF ChromaRight

(* Planes that are right upright are right when they are turned. *)
LEMMA TurnedRight ==
  ASSUME NEW c \in Conversions, Valid(c), NEW q, Upright(c, q), TurnedFrom(c, q, planes)
  PROVE  LumaRight(c) /\ ChromaRight(c, planes.U, "U") /\ ChromaRight(c, planes.V, "V")
<1>1. /\ planes.Y = RotatePlane(q.Y, c.rotation) /\ planes.U = RotatePlane(q.U, c.rotation)
      /\ planes.V = RotatePlane(q.V, c.rotation)
  BY DEF TurnedFrom
<1>. QED  BY <1>1, LumaTurned, ChromaTurned DEF Upright

-----------------------------------------------------------------------------
(* Addresses. *)

(* The row of a view that is read as row y. *)
ReadRow(h, y) == IF h > 0 THEN y ELSE AbsOf(h) - 1 - y

(* A view of negative height is read upwards. *)
LEMMA InvertedFacts ==
  ASSUME NEW v, v \in [base : Int, stride : Int, step : Int, w : Int, h : Int \ {0}]
  PROVE  /\ Inverted(v).w = v.w /\ Inverted(v).h = AbsOf(v.h)
         /\ \A x, y \in Int : At(Inverted(v), x, y) = At(v, x, ReadRow(v.h, y))
<1>0. v.base \in Int /\ v.stride \in Int /\ v.step \in Int /\ v.h \in Int \ {0}
  OBVIOUS
<1>1. CASE v.h > 0
  BY <1>1 DEF Inverted, At, AbsOf, ReadRow
<1>2. CASE ~(v.h > 0)
  <2>1. /\ Inverted(v).w = v.w /\ Inverted(v).h = -v.h /\ Inverted(v).stride = -v.stride
        /\ Inverted(v).base = v.base + (-v.h - 1) * v.stride /\ Inverted(v).step = v.step
    BY <1>2 DEF Inverted
  <2>2. ASSUME NEW x \in Int, NEW y \in Int
        PROVE  At(Inverted(v), x, y) = At(v, x, ReadRow(v.h, y))
    <3> DEFINE n == -v.h - 1
    <3>1. At(Inverted(v), x, y) = v.base + n * v.stride + y * (-v.stride) + x * v.step
      BY <2>1 DEF At
    <3>2. n \in Int /\ ReadRow(v.h, y) = n - y
      BY <1>0, <1>2 DEF AbsOf, ReadRow
    <3>3. At(v, x, ReadRow(v.h, y)) = v.base + (n - y) * v.stride + x * v.step
      BY <3>2 DEF At
    <3>. HIDE DEF n
    <3>4. (n - y) * v.stride = n * v.stride - y * v.stride /\ y * (-v.stride) = -(y * v.stride)
      BY <1>0, <3>2, Spread
    <3>5. n * v.stride \in Int /\ y * v.stride \in Int /\ x * v.step \in Int
      BY <1>0, <3>2, Times
    <3>. QED  BY <1>0, <3>1, <3>3, <3>4, <3>5
  <2>3. Inverted(v).h = AbsOf(v.h)
    BY <1>0, <1>2, <2>1 DEF AbsOf
  <2>. QED  BY <2>1, <2>2, <2>3
<1>. QED  BY <1>1, <1>2

(* inv_crop_height has the sign of the frame's height. *)
LEMMA InvCropFacts ==
  ASSUME NEW c \in Conversions, Valid(c)
  PROVE  /\ InvCropHeight(c) \in Int \ {0} /\ AbsOf(InvCropHeight(c)) = AbsOf(c.crop.h)
         /\ InvCropHeight(c) > 0 <=> ~(c.height < 0)
         /\ InvCropHeight(c) = IF c.height < 0 THEN -AbsOf(c.crop.h) ELSE AbsOf(c.crop.h)
<1>1. AbsOf(c.crop.h) \in Nat \ {0} /\ c.height \in Int \ {0}
  BY CallFacts
<1>2. ASSUME NEW n \in Nat PROVE AbsOf(n) = n /\ AbsOf(-n) = n
  BY DEF AbsOf
<1>. QED  BY <1>1, <1>2 DEF InvCropHeight

(* The address of a pixel is its row and its column. *)
LEMMA LumaAddress ==
  ASSUME NEW c \in Conversions, Valid(c)
  PROVE  LET v == Inverted(Luma(c))
         IN /\ v.w = c.crop.w /\ v.h = AbsOf(c.crop.h)
            /\ \A x, y \in Int : At(v, x, y) = FlippedRow(c, y) * c.width + (c.crop.x + x)
<1> DEFINE v == Inverted(Luma(c))
           i == InvCropHeight(c)
<1>1. /\ c.width \in Nat /\ c.crop.x \in Nat /\ c.crop.y \in Nat /\ c.crop.w \in Nat
      /\ i \in Int \ {0} /\ AbsOf(i) = AbsOf(c.crop.h) /\ AbsOf(i) \in Nat
      /\ i > 0 <=> ~(c.height < 0)
  BY CallFacts, InvCropFacts
<1>2. /\ Luma(c) \in [base : Int, stride : Int, step : Int, w : Int, h : Int \ {0}]
      /\ Luma(c).w = c.crop.w /\ Luma(c).h = i
  <2>1. c.width * c.crop.y + c.crop.x \in Int
    BY <1>1, Times
  <2>. QED  BY <1>1, <2>1 DEF Luma, View
<1>3. /\ v.w = c.crop.w /\ v.h = AbsOf(i)
      /\ \A x, y \in Int : At(v, x, y) = At(Luma(c), x, ReadRow(i, y))
  BY <1>2, InvertedFacts
<1>4. ASSUME NEW x \in Int, NEW y \in Int
      PROVE  At(v, x, y) = FlippedRow(c, y) * c.width + (c.crop.x + x)
  <2> DEFINE r == ReadRow(i, y)
  <2>1. r \in Int /\ FlippedRow(c, y) = c.crop.y + r
    BY <1>1 DEF FlippedRow, ReadRow
  <2>2. At(v, x, y) = At(Luma(c), x, r)
    BY <1>3
  <2>. HIDE DEF r, v
  <2>3. At(Luma(c), x, r) = c.width * c.crop.y + c.crop.x + r * c.width + x
    BY <1>1, <2>1 DEF Luma, View, At
  <2>4. (c.crop.y + r) * c.width = c.crop.y * c.width + r * c.width
    BY <1>1, <2>1, Spread
  <2>5. c.crop.y * c.width \in Int /\ r * c.width \in Int /\ c.crop.y * c.width = c.width * c.crop.y
    BY <1>1, <2>1, Times
  <2>. QED  BY <1>1, <2>1, <2>2, <2>3, <2>4, <2>5
<1>. QED  BY <1>1, <1>3, <1>4

(* The pixels of the crop are pixels of the frame. *)
LEMMA PixelWithin ==
  ASSUME NEW c \in Conversions, Valid(c), NEW u \in 0 .. c.crop.w - 1,
         NEW v \in 0 .. AbsOf(c.crop.h) - 1
  PROVE  /\ c.crop.x + u \in 0 .. c.width - 1
         /\ FlippedRow(c, v) \in 0 .. AbsHeight(c) - 1
BY CallFacts DEF FlippedRow, InFrame

(* An address within a plane is a column and a row. *)
LEMMA InPlaneFacts ==
  ASSUME NEW of, NEW n \in Nat \ {0}, NEW x \in 0 .. n-1, NEW y \in Int, NEW w \in Int,
         NEW h \in Int, NEW a, a = y * n + x
  PROVE  InPlane(of, a, n, w, h) = Sample(of, x * w, y * h, w, h)
BY OneQuotient DEF InPlane

(* A place of n columns and m rows comes before the end of the plane. *)
LEMMA BeforeEnd ==
  ASSUME NEW n \in Nat \ {0}, NEW m \in Nat, NEW x \in 0 .. n-1, NEW y \in 0 .. m-1
  PROVE  y * n + x < n * m /\ y * n + x \in Nat /\ n * m \in Nat
<1>1. (y + 1) * n <= m * n
  BY Grows
<1>2. (y + 1) * n = y * n + 1 * n
  BY Spread
<1>3. y * n \in Nat /\ m * n = n * m /\ n * m \in Nat
  BY Times
<1>. QED  BY <1>1, <1>2, <1>3

-----------------------------------------------------------------------------
(* What the addresses of each format hold. *)

(* The formats of planes. *)
Planar == {"I420", "YV12", "I422", "YV16", "I444", "YV24", "NV12", "NV21"}

(* The planes of chroma in their order, format by format.                    *)
LEMMA KindsFacts ==
  /\ DOMAIN Kinds = Planar
  /\ \A f \in Planar : \/ f \in {"I420", "I422", "I444", "NV12"} /\ Kinds[f] = <<"U", "V">>
                       \/ f \in {"YV12", "YV16", "YV24", "NV21"} /\ Kinds[f] = <<"V", "U">>
BY DEF Kinds, Planar

(* The addresses below the area of the frame hold luma, or pixels. *)
LEMMA LumaHeld ==
  ASSUME NEW c \in Conversions, Valid(c), c.format \notin {"YUY2", "UYVY"},
         NEW u \in 0 .. c.crop.w - 1, NEW v \in 0 .. AbsOf(c.crop.h) - 1
  PROVE  Holds(c, FlippedRow(c, v) * c.width + (c.crop.x + u))
           = Sample(IF c.format = "RGB" THEN "RGB" ELSE "Y", c.crop.x + u, FlippedRow(c, v), 1, 1)
<1> DEFINE x == c.crop.x + u
           y == FlippedRow(c, v)
           a == y * c.width + x
<1>1. x \in 0 .. c.width - 1 /\ y \in 0 .. AbsHeight(c) - 1
  BY PixelWithin
<1>2. c.width \in Nat \ {0} /\ AbsHeight(c) \in Nat /\ c.format \in Formats
  BY CallFacts
<1>. HIDE DEF x, y
<1>3. a < c.width * AbsHeight(c) /\ a \in Nat /\ c.width * AbsHeight(c) \in Nat
  BY <1>1, <1>2, BeforeEnd
<1>4. ASSUME NEW of PROVE InPlane(of, a, c.width, 1, 1) = Sample(of, x, y, 1, 1)
  <2>1. x * 1 = x /\ y * 1 = y
    BY <1>1
  <2>2. InPlane(of, a, c.width, 1, 1) = Sample(of, x * 1, y * 1, 1, 1)
    BY <1>1, <1>2, InPlaneFacts
  <2>. QED  BY <2>1, <2>2
<1>. HIDE DEF a
<1>5. CASE c.format = "RGB"
  BY <1>4, <1>5, KindsFacts DEF Holds, Planar, x, y, a
<1>6. CASE c.format # "RGB"
  <2>1. c.format \in DOMAIN Kinds \cup {"I400"}
    BY <1>2, <1>6, KindsFacts DEF Formats, Planar
  <2>2. Holds(c, a) = InPlane("Y", a, c.width, 1, 1)
    <3>1. ~(a - c.width * AbsHeight(c) >= 0)
      BY <1>3
    <3>. QED  BY <1>3, <1>6, <2>1, <3>1 DEF Holds
  <2>. QED  BY <1>4, <1>6, <2>2 DEF x, y, a
<1>. QED  BY <1>5, <1>6

(* The addresses behind the area of the frame hold chroma. *)
LEMMA ChromaHeld ==
  ASSUME NEW c \in Conversions, Valid(c), c.format \in Planar, NEW b \in Nat
  PROVE  LET half == HalfUp(c.width)
             a == c.width * AbsHeight(c) + b
         IN /\ c.format \in {"NV12", "NV21"} =>
                 Holds(c, a) = InPlane(Kinds[c.format][(b % 2) + 1], b \div 2, half, 2, 2)
            /\ c.format \in {"I420", "YV12"} =>
                 Holds(c, a) = InPlanes(Kinds[c.format], b, half, HalfUp(AbsHeight(c)), 2, 2)
            /\ c.format \in {"I422", "YV16"} =>
                 Holds(c, a) = InPlanes(Kinds[c.format], b, half, AbsHeight(c), 2, 1)
            /\ c.format \in {"I444", "YV24"} =>
                 Holds(c, a) = InPlanes(Kinds[c.format], b, c.width, AbsHeight(c), 1, 1)
<1> DEFINE area == c.width * AbsHeight(c)
           a == area + b
<1>1. area \in Nat
  <2>1. c.width \in Nat /\ AbsHeight(c) \in Nat
    BY CallFacts
  <2>. QED  BY <2>1, Times
<1>. HIDE DEF area
<1>2. a - area = b /\ b >= 0 /\ ~(a < area)
  BY <1>1
<1>. HIDE DEF a
<1>3. CASE c.format \in {"NV12", "NV21"}
  BY <1>2, <1>3 DEF Holds, area, a
<1>4. CASE c.format \in {"I420", "YV12"}
  BY <1>2, <1>4 DEF Holds, area, a
<1>5. CASE c.format \in {"I422", "YV16"}
  BY <1>2, <1>5 DEF Holds, area, a
<1>6. CASE c.format \in {"I444", "YV24"}
  BY <1>2, <1>6 DEF Holds, area, a
<1>. QED  BY <1>3, <1>4, <1>5, <1>6 DEF Planar, area, a

-----------------------------------------------------------------------------
(* The planes of chroma. *)

(* The columns and rows of the crop in a plane of every, or every other, one. *)
CropColumns(c, across) == IF across = 2 THEN HalfUp(c.crop.w) ELSE c.crop.w
CropRows(c, down) == IF down = 1 THEN AbsOf(c.crop.h) ELSE HalfUp(AbsOf(c.crop.h))

(* The row of the plane that is shown as row r of the crop. *)
PlaneRow(c, down, r) ==
    c.crop.y \div down + IF c.height < 0 THEN CropRows(c, down) - 1 - r ELSE r

(* The view of the crop in a plane, turned upright. *)
CropView(c, base, stride, step, across, down) ==
    Inverted(Chroma(c, base, stride, step, c.crop.x \div across, c.crop.y \div down, across, down))

(* The address of a place of the crop in a plane. *)
Address(c, base, stride, step, across, down, x, y) ==
    base + (PlaneRow(c, down, y) * stride + (c.crop.x \div across + x) * step)

(* A view of a plane of chroma reads columns and rows of the plane. *)
LEMMA ChromaAddress ==
  ASSUME NEW c \in Conversions, Valid(c), NEW base \in Int, NEW stride \in Int, NEW step \in Int,
         NEW across \in {1, 2}, NEW down \in {1, 2}
  PROVE  LET v == CropView(c, base, stride, step, across, down)
         IN /\ v.w = CropColumns(c, across) /\ v.h = CropRows(c, down)
            /\ \A x, y \in Int :
                 At(v, x, y) = Address(c, base, stride, step, across, down, x, y)
<1> DEFINE l == Chroma(c, base, stride, step, c.crop.x \div across, c.crop.y \div down, across, down)
           cx == c.crop.x \div across
           cy == c.crop.y \div down
           n == CropRows(c, down)
           i == IF c.height < 0 THEN -n ELSE n
<1>1. /\ cx \in Nat /\ cy \in Nat /\ c.crop.w \in Nat /\ c.height \in Int
      /\ CropColumns(c, across) \in Nat /\ n \in Nat \ {0} /\ AbsOf(c.crop.h) \in Nat \ {0}
  BY CallFacts, Half DEF CropColumns, CropRows
<1>2. i \in Int \ {0} /\ AbsOf(i) = n /\ (i > 0 <=> ~(c.height < 0))
  BY <1>1 DEF AbsOf
<1>3. l = View(base + cy * stride + cx * step, stride, step, CropColumns(c, across), i)
  <2>1. InvCropHeight(c) = (IF c.height < 0 THEN -AbsOf(c.crop.h) ELSE AbsOf(c.crop.h))
        /\ -(-AbsOf(c.crop.h)) = AbsOf(c.crop.h)
    BY <1>1, InvCropFacts
  <2>. QED  BY <1>1, <2>1 DEF Chroma, CropColumns, CropRows
<1>. HIDE DEF l, n, cx, cy, i
<1>4. l \in [base : Int, stride : Int, step : Int, w : Int, h : Int \ {0}]
      /\ l.w = CropColumns(c, across) /\ l.h = i /\ l.stride = stride /\ l.step = step
      /\ l.base = base + cy * stride + cx * step
  <2>1. base + cy * stride + cx * step \in Int
    BY <1>1, Times
  <2>. QED  BY <1>1, <1>2, <1>3, <2>1 DEF View
<1>5. /\ Inverted(l).w = CropColumns(c, across) /\ Inverted(l).h = n
      /\ \A x, y \in Int : At(Inverted(l), x, y) = At(l, x, ReadRow(i, y))
  <2>1. /\ Inverted(l).w = l.w /\ Inverted(l).h = AbsOf(l.h)
        /\ \A x, y \in Int : At(Inverted(l), x, y) = At(l, x, ReadRow(l.h, y))
    BY <1>4, InvertedFacts
  <2>. QED  BY <1>2, <1>4, <2>1
<1>6. ASSUME NEW x \in Int, NEW y \in Int
      PROVE  At(Inverted(l), x, y) = base + (PlaneRow(c, down, y) * stride + (cx + x) * step)
  <2> DEFINE r == ReadRow(i, y)
  <2>1. r \in Int /\ PlaneRow(c, down, y) = cy + r
    BY <1>1, <1>2 DEF PlaneRow, ReadRow, n, cy
  <2>. HIDE DEF r
  <2>2. At(l, x, r) = base + cy * stride + cx * step + r * stride + x * step
    BY <1>4 DEF At
  <2>3. (cy + r) * stride = cy * stride + r * stride /\ (cx + x) * step = cx * step + x * step
    BY <1>1, <2>1, Spread
  <2>4. cy * stride \in Int /\ r * stride \in Int /\ cx * step \in Int /\ x * step \in Int
    BY <1>1, <2>1, Times
  <2>. QED  BY <1>5, <2>1, <2>2, <2>3, <2>4 DEF r
<1>. QED  BY <1>5, <1>6 DEF CropView, Address, l, n, cx, cy

(* The sample in a column and a row of the crop, in a plane. *)
Spot(c, kind, across, down, i, r) ==
    Sample(kind, (c.crop.x \div across + i) * across, PlaneRow(c, down, r) * down, across, down)

(* A column and a row of the crop in a plane, that go into place u, v of the   *)
(* chroma: their own, or when they are scaled one beside.                    *)
Placed(c, across, down, i, r, u, v) ==
    /\ across \in {1, 2} /\ down \in {1, 2}
    /\ u \in 0 .. HalfUp(c.crop.w) - 1 /\ v \in 0 .. HalfUp(AbsOf(c.crop.h)) - 1
    /\ i \in 0 .. CropColumns(c, across) - 1 /\ r \in 0 .. CropRows(c, down) - 1
    /\ IF across = 2 THEN i = u ELSE i \in 2 * u - 1 .. 2 * u + 1
    /\ IF down = 2 THEN r = v ELSE r \in 2 * v - 1 .. 2 * v + 1

(* The sample in a column and row of a plane belongs to the chroma it goes    *)
(* into.                                                                    *)
LEMMA SampleBelongs ==
  ASSUME NEW c \in Conversions, Valid(c), NEW of, NEW kind \in {of, "RGB"}, NEW across, NEW down,
         NEW i, NEW r, NEW u, NEW v, Placed(c, across, down, i, r, u, v)
  PROVE  Belongs(c, Spot(c, kind, across, down, i, r), of, u, v)
<1> DEFINE x == (c.crop.x \div across + i) * across
           y == PlaneRow(c, down, r) * down
           h == AbsOf(c.crop.h)
           s == Sample(kind, x, y, across, down)
<1>0. /\ across \in {1, 2} /\ down \in {1, 2}
      /\ u \in 0 .. HalfUp(c.crop.w) - 1 /\ v \in 0 .. HalfUp(AbsOf(c.crop.h)) - 1
      /\ i \in 0 .. CropColumns(c, across) - 1 /\ r \in 0 .. CropRows(c, down) - 1
      /\ IF across = 2 THEN i = u ELSE i \in 2 * u - 1 .. 2 * u + 1
      /\ IF down = 2 THEN r = v ELSE r \in 2 * v - 1 .. 2 * v + 1
  BY DEF Placed
<1>1. /\ c.crop.x \in Nat /\ c.crop.y \in Nat /\ c.crop.w \in Nat \ {0} /\ h \in Nat \ {0}
      /\ c.height \in Int /\ AbsHeight(c) \in Nat /\ c.crop.y + h <= AbsHeight(c)
  BY CallFacts DEF InFrame
<1>. HIDE DEF h
<1>2. 2 * HalfUp(c.crop.w) \in {c.crop.w, c.crop.w + 1} /\ HalfUp(c.crop.w) \in Int
      /\ 2 * HalfUp(h) \in {h, h + 1} /\ HalfUp(h) \in Int
  BY <1>1, Half
<1>3. x \in Int /\ Off(x, across, c.crop.x + 2 * u) <= 1
  BY <1>0, <1>1, <1>2 DEF Off, CropColumns
<1>4. y \in Int /\ Off(y, down, FlippedRow(c, 2 * v)) <= 1 /\ y + down <= AbsHeight(c) + 1
  <2>1. CASE down = 1
    BY <1>0, <1>1, <1>2, <2>1 DEF Off, CropRows, PlaneRow, FlippedRow, h
  <2>2. CASE down = 2
    BY <1>0, <1>1, <1>2, <2>2 DEF Off, CropRows, PlaneRow, FlippedRow, h
  <2>. QED  BY <1>0, <2>1, <2>2
<1>. HIDE DEF x, y
<1>5. Belongs(c, s, of, u, v)
  BY <1>3, <1>4 DEF Belongs, Near, Pixel, Sample
<1>. QED  BY <1>5 DEF x, y, Spot

(* The columns and rows of the crop are columns and rows of the plane. *)
LEMMA PlaneWithin ==
  ASSUME NEW c \in Conversions, Valid(c), NEW across \in {1, 2}, NEW down \in {1, 2},
         NEW i \in 0 .. CropColumns(c, across) - 1, NEW r \in 0 .. CropRows(c, down) - 1
  PROVE  /\ c.crop.x \div across + i
               \in 0 .. (IF across = 2 THEN HalfUp(c.width) ELSE c.width) - 1
         /\ PlaneRow(c, down, r)
               \in 0 .. (IF down = 2 THEN HalfUp(AbsHeight(c)) ELSE AbsHeight(c)) - 1
<1> DEFINE h == AbsOf(c.crop.h)
<1>1. /\ c.crop.x \in Nat /\ c.crop.y \in Nat /\ c.crop.w \in Nat \ {0} /\ h \in Nat \ {0}
      /\ c.height \in Int /\ AbsHeight(c) \in Nat /\ c.crop.y + h <= AbsHeight(c)
      /\ c.width \in Nat /\ c.crop.x + c.crop.w <= c.width
  BY CallFacts DEF InFrame
<1>. HIDE DEF h
<1>2. c.crop.x \div across + i \in 0 .. (IF across = 2 THEN HalfUp(c.width) ELSE c.width) - 1
  <2>1. CASE across = 1
    BY <1>1, <2>1 DEF CropColumns
  <2>2. CASE across = 2
    BY <1>1, <2>2 DEF CropColumns, HalfUp
  <2>. QED  BY <2>1, <2>2
<1>3. PlaneRow(c, down, r)
        \in 0 .. (IF down = 2 THEN HalfUp(AbsHeight(c)) ELSE AbsHeight(c)) - 1
  <2>1. CASE down = 1
    BY <1>1, <2>1 DEF CropRows, PlaneRow, h
  <2>2. CASE down = 2
    BY <1>1, <2>2 DEF CropRows, PlaneRow, HalfUp, h
  <2>. QED  BY <2>1, <2>2
<1>. QED  BY <1>2, <1>3

-----------------------------------------------------------------------------
(* Format by format. *)

(* Luma, or pixels, of a format that is not one of pairs. *)
LEMMA LumaUpright ==
  ASSUME NEW c \in Conversions, Valid(c), c.format \notin {"YUY2", "UYVY"}
  PROVE  UprightLuma(c, CopyPlane(Inverted(Luma(c))))
<1> DEFINE l == Inverted(Luma(c))
           p == CopyPlane(l)
<1>1. /\ l.w = c.crop.w /\ l.h = AbsOf(c.crop.h)
      /\ \A x, y \in Int : At(l, x, y) = FlippedRow(c, y) * c.width + (c.crop.x + x)
  BY LumaAddress
<1>. HIDE DEF l
<1>2. /\ p.w = c.crop.w /\ p.h = AbsOf(c.crop.h)
      /\ \A x \in 0 .. l.w - 1, y \in 0 .. l.h - 1 : p.at[<<x, y>>] = {At(l, x, y)}
  BY <1>1, CopyFacts
<1>. HIDE DEF p
<1>3. ASSUME NEW u \in 0 .. p.w - 1, NEW v \in 0 .. p.h - 1
      PROVE  \E a : /\ p.at[<<u, v>>] = {a}
                    /\ Holds(c, a) = Sample(IF c.format = "RGB" THEN "RGB" ELSE "Y",
                                            c.crop.x + u, FlippedRow(c, v), 1, 1)
  <2>1. u \in 0 .. c.crop.w - 1 /\ v \in 0 .. AbsOf(c.crop.h) - 1 /\ u \in Int /\ v \in Int
    BY <1>2
  <2>2. p.at[<<u, v>>] = {At(l, u, v)}
    BY <1>1, <1>2, <2>1
  <2>3. At(l, u, v) = FlippedRow(c, v) * c.width + (c.crop.x + u)
    BY <1>1, <2>1
  <2>4. Holds(c, FlippedRow(c, v) * c.width + (c.crop.x + u))
          = Sample(IF c.format = "RGB" THEN "RGB" ELSE "Y", c.crop.x + u, FlippedRow(c, v), 1, 1)
    BY <2>1, LumaHeld
  <2>. QED  BY <2>2, <2>3, <2>4
<1>. QED  BY <1>2, <1>3 DEF UprightLuma, p, l

(* A plane of chroma of half the columns and rows is copied as it is. *)
LEMMA CopiedUpright ==
  ASSUME NEW c \in Conversions, Valid(c), NEW of, NEW v, v.w = CropColumns(c, 2), v.h = CropRows(c, 2),
         \A x \in 0 .. v.w - 1, y \in 0 .. v.h - 1 :
           Holds(c, At(v, x, y)) = Sample(of, (c.crop.x \div 2 + x) * 2, PlaneRow(c, 2, y) * 2, 2, 2)
  PROVE  UprightChroma(c, CopyPlane(v), of)
<1> DEFINE p == CopyPlane(v)
<1>1. /\ v.w = HalfUp(c.crop.w) /\ v.h = HalfUp(AbsOf(c.crop.h)) /\ p.w = v.w /\ p.h = v.h
      /\ \A x \in 0 .. v.w - 1, y \in 0 .. v.h - 1 : p.at[<<x, y>>] = {At(v, x, y)}
  BY CopyFacts DEF CropColumns, CropRows
<1>. HIDE DEF p
<1>2. ASSUME NEW x \in 0 .. p.w - 1, NEW y \in 0 .. p.h - 1
      PROVE  p.at[<<x, y>>] # {} /\ \A a \in p.at[<<x, y>>] : Belongs(c, Holds(c, a), of, x, y)
  <2>1. x \in 0 .. v.w - 1 /\ y \in 0 .. v.h - 1
    BY <1>1
  <2>2. Belongs(c, Sample(of, (c.crop.x \div 2 + x) * 2, PlaneRow(c, 2, y) * 2, 2, 2), of, x, y)
    <3>1. of \in {of, "RGB"} /\ 2 \in {1, 2}
      OBVIOUS
    <3>2. /\ x \in 0 .. HalfUp(c.crop.w) - 1 /\ y \in 0 .. HalfUp(AbsOf(c.crop.h)) - 1
          /\ x \in 0 .. CropColumns(c, 2) - 1 /\ y \in 0 .. CropRows(c, 2) - 1
      BY <1>1, <2>1
    <3>3. Placed(c, 2, 2, x, y, x, y)
      BY <3>1, <3>2 DEF Placed
    <3>4. Belongs(c, Spot(c, of, 2, 2, x, y), of, x, y)
      BY <3>1, <3>3, SampleBelongs
    <3>. QED  BY <3>4 DEF Spot
  <2>. QED  BY <1>1, <2>1, <2>2
<1>. QED  BY <1>1, <1>2 DEF UprightChroma, p

(* The two bytes of a pair of NV12 and NV21. *)
LEMMA BiplanarUpright ==
  ASSUME NEW c \in Conversions, Valid(c), c.format \in {"NV12", "NV21"}, NEW first \in {0, 1}
  PROVE  UprightChroma(c,
           CopyPlane(CropView(c, c.width * AbsHeight(c) + first, AlignedWidth(c), 2, 2, 2)),
           Kinds[c.format][first + 1])
<1> DEFINE area == c.width * AbsHeight(c)
           half == HalfUp(c.width)
           v == CropView(c, area + first, AlignedWidth(c), 2, 2, 2)
           of == Kinds[c.format][first + 1]
<1>1. area \in Nat /\ half \in Nat \ {0} /\ AlignedWidth(c) = 2 * half
  <2>1. c.width \in Nat \ {0} /\ AbsHeight(c) \in Nat
    BY CallFacts
  <2>. QED  BY <2>1, Half, Times DEF AlignedWidth
<1>2. /\ v.w = CropColumns(c, 2) /\ v.h = CropRows(c, 2)
      /\ \A x, y \in Int : At(v, x, y) = Address(c, area + first, AlignedWidth(c), 2, 2, 2, x, y)
  <2>1. area + first \in Int /\ AlignedWidth(c) \in Int /\ 2 \in Int
    BY <1>1
  <2>. HIDE DEF area
  <2>. QED  BY <2>1, ChromaAddress
<1>. HIDE DEF v, half
<1>3. ASSUME NEW x \in 0 .. v.w - 1, NEW y \in 0 .. v.h - 1
      PROVE  Holds(c, At(v, x, y)) = Sample(of, (c.crop.x \div 2 + x) * 2, PlaneRow(c, 2, y) * 2, 2, 2)
  <2> DEFINE X == c.crop.x \div 2 + x
             R == PlaneRow(c, 2, y)
             q == R * half + X
             b == 2 * q + first
  <2>1. X \in 0 .. half - 1 /\ R \in Nat /\ x \in Int /\ y \in Int
    <3>1. x \in 0 .. CropColumns(c, 2) - 1 /\ y \in 0 .. CropRows(c, 2) - 1 /\ 2 \in {1, 2}
      BY <1>2
    <3>2. X \in 0 .. half - 1 /\ R \in 0 .. HalfUp(AbsHeight(c)) - 1
      BY <3>1, PlaneWithin DEF half
    <3>. HIDE DEF X, R
    <3>. QED  BY <1>2, <3>1, <3>2
  <2>2. At(v, x, y) = (area + first) + (R * AlignedWidth(c) + X * 2)
    BY <1>2, <2>1 DEF Address
  <2>. HIDE DEF X, R
  <2>3. R * half \in Nat /\ R * (2 * half) = 2 * (R * half)
    BY <1>1, <2>1, Times
  <2>4. q \in Nat /\ b \in Nat
    BY <2>1, <2>3
  <2>5. At(v, x, y) = area + b
    BY <1>1, <2>1, <2>2, <2>3
  <2>6. b % 2 = first /\ b \div 2 = q
    <3>. HIDE DEF q
    <3>. QED  BY <2>4
  <2>7. q \div half = R /\ q % half = X
    <3>1. R \in Int /\ half \in Nat \ {0} /\ X \in 0 .. half - 1
      BY <1>1, <2>1
    <3>. QED  BY <3>1, OneQuotient
  <2>. HIDE DEF b, q
  <2>8. c.format \in Planar
    BY DEF Planar
  <2>9. Holds(c, area + b) = InPlane(Kinds[c.format][(b % 2) + 1], b \div 2, half, 2, 2)
    BY <2>4, <2>8, ChromaHeld DEF half
  <2>10. Holds(c, area + b) = InPlane(of, q, half, 2, 2)
    BY <2>6, <2>9
  <2>11. InPlane(of, q, half, 2, 2) = Sample(of, X * 2, R * 2, 2, 2)
    BY <2>7 DEF InPlane
  <2>. QED  BY <2>5, <2>10, <2>11 DEF X, R
<1>. HIDE DEF of
<1>4. UprightChroma(c, CopyPlane(v), of)
  BY <1>2, <1>3, CopiedUpright
<1>. QED  BY <1>4 DEF v, of

(* Formats with two planes of chroma behind the luma: how many pixels a       *)
(* column and a row of them stand for, and how many columns and rows.        *)
TwoPlanes == {"I420", "YV12", "I422", "YV16", "I444", "YV24"}
Across(c) == IF c.format \in {"I444", "YV24"} THEN 1 ELSE 2
Down(c) == IF c.format \in {"I420", "YV12"} THEN 2 ELSE 1
PlaneColumns(c) == IF Across(c) = 2 THEN HalfUp(c.width) ELSE c.width
PlaneRows(c) == IF Down(c) = 2 THEN HalfUp(AbsHeight(c)) ELSE AbsHeight(c)

(* The view of the crop in the first or the second of them. *)
PlaneView(c, k) ==
    CropView(c, c.width * AbsHeight(c) + k * PlaneColumns(c) * PlaneRows(c), PlaneColumns(c), 1,
             Across(c), Down(c))

(* What the view shows is in its plane, and in its columns and rows. *)
LEMMA PlanesHeld ==
  ASSUME NEW c \in Conversions, Valid(c), c.format \in TwoPlanes, NEW k \in {0, 1}
  PROVE  LET v == PlaneView(c, k)
         IN /\ v.w = CropColumns(c, Across(c)) /\ v.h = CropRows(c, Down(c))
            /\ \A x \in 0 .. v.w - 1, y \in 0 .. v.h - 1 :
                 Holds(c, At(v, x, y))
                   = Sample(Kinds[c.format][k + 1], (c.crop.x \div Across(c) + x) * Across(c),
                            PlaneRow(c, Down(c), y) * Down(c), Across(c), Down(c))
<1> DEFINE area == c.width * AbsHeight(c)
           n == PlaneColumns(c)
           m == PlaneRows(c)
           i == Across(c)
           j == Down(c)
           base == area + k * n * m
           v == PlaneView(c, k)
<1>1. n \in Nat \ {0} /\ m \in Nat /\ area \in Nat /\ n * m \in Nat /\ i \in {1, 2} /\ j \in {1, 2}
  <2>1. c.width \in Nat \ {0} /\ AbsHeight(c) \in Nat
    BY CallFacts
  <2>2. n \in Nat \ {0} /\ m \in Nat
    BY <2>1, Half DEF PlaneColumns, PlaneRows
  <2>. HIDE DEF n, m
  <2>. QED  BY <2>1, <2>2, Times DEF Across, Down
<1>2. base = area + k * (n * m) /\ base \in Int
  <2>. HIDE DEF n, m, area
  <2>1. k * n * m = k * (n * m) /\ k * (n * m) \in Int
    <3>1. CASE k = 0
      BY <1>1, <3>1
    <3>2. CASE k = 1
      BY <1>1, <3>2
    <3>. QED  BY <3>1, <3>2
  <2>. QED  BY <1>1, <2>1
<1>3. v = CropView(c, base, n, 1, i, j)
  BY DEF PlaneView
<1>. HIDE DEF v, n, m, area, base, i, j
<1>4. /\ v.w = CropColumns(c, i) /\ v.h = CropRows(c, j)
      /\ \A x, y \in Int : At(v, x, y) = Address(c, base, n, 1, i, j, x, y)
  <2> DEFINE one == 1
  <2>1. one \in Int /\ n \in Int /\ v = CropView(c, base, n, one, i, j)
    BY <1>1, <1>3
  <2>. HIDE DEF one
  <2>2. /\ v.w = CropColumns(c, i) /\ v.h = CropRows(c, j)
        /\ \A x, y \in Int : At(v, x, y) = Address(c, base, n, one, i, j, x, y)
    BY <1>1, <1>2, <2>1, ChromaAddress
  <2>. QED  BY <2>2 DEF one
<1>5. ASSUME NEW x \in 0 .. v.w - 1, NEW y \in 0 .. v.h - 1
      PROVE  Holds(c, At(v, x, y))
               = Sample(Kinds[c.format][k + 1], (c.crop.x \div i + x) * i, PlaneRow(c, j, y) * j, i, j)
  <2> DEFINE X == c.crop.x \div i + x
             R == PlaneRow(c, j, y)
             b == k * (n * m) + (R * n + X)
  <2>1. X \in 0 .. n - 1 /\ R \in 0 .. m - 1 /\ x \in Int /\ y \in Int
    <3>1. x \in 0 .. CropColumns(c, i) - 1 /\ y \in 0 .. CropRows(c, j) - 1
      BY <1>4
    <3>2. /\ X \in 0 .. (IF i = 2 THEN HalfUp(c.width) ELSE c.width) - 1
          /\ R \in 0 .. (IF j = 2 THEN HalfUp(AbsHeight(c)) ELSE AbsHeight(c)) - 1
      BY <1>1, <3>1, PlaneWithin
    <3>. HIDE DEF X, R
    <3>. QED  BY <1>4, <3>2 DEF PlaneColumns, PlaneRows, n, m, i, j
  <2>2. At(v, x, y) = base + (R * n + X * 1)
    BY <1>4, <2>1 DEF Address
  <2>. HIDE DEF X, R
  <2>3. R * n + X \in Nat /\ k * (n * m) \in Nat
    <3>1. R * n + X \in Nat
      BY <1>1, <2>1, BeforeEnd
    <3>. QED  BY <1>1, <3>1, Times
  <2>4. b \in Nat /\ At(v, x, y) = area + b
    BY <1>1, <1>2, <2>1, <2>2, <2>3
  <2>. HIDE DEF b
  <2>5. InPlanes(Kinds[c.format], b, n, m, i, j) = Sample(Kinds[c.format][k + 1], X * i, R * j, i, j)
    <3> DEFINE q == R * n + X
    <3>1. q \in Nat /\ q < n * m
      BY <1>1, <2>1, BeforeEnd
    <3>2. q \div n = R /\ q % n = X
      <4>1. R \in Int
        BY <2>1
      <4>. QED  BY <1>1, <2>1, <4>1, OneQuotient
    <3>. HIDE DEF q
    <3>3. b = k * (n * m) + q
      BY DEF b, q
    <3>4. CASE k = 0
      <4>1. b = q /\ b < n * m /\ k + 1 = 1
        BY <1>1, <3>1, <3>3, <3>4
      <4>. QED  BY <3>2, <4>1 DEF InPlanes, InPlane
    <3>5. CASE k = 1
      <4>1. b - n * m = q /\ ~(b < n * m) /\ k + 1 = 2
        BY <1>1, <3>1, <3>3, <3>5
      <4>. QED  BY <3>2, <4>1 DEF InPlanes, InPlane
    <3>. QED  BY <3>4, <3>5
  <2>6. Holds(c, area + b) = InPlanes(Kinds[c.format], b, n, m, i, j)
    <3>1. c.format \in Planar
      BY DEF Planar, TwoPlanes
    <3>2. CASE c.format \in {"I420", "YV12"}
      BY <2>4, <3>1, <3>2, ChromaHeld DEF area, n, m, i, j, PlaneColumns, PlaneRows, Across, Down
    <3>3. CASE c.format \in {"I422", "YV16"}
      BY <2>4, <3>1, <3>3, ChromaHeld DEF area, n, m, i, j, PlaneColumns, PlaneRows, Across, Down
    <3>4. CASE c.format \in {"I444", "YV24"}
      BY <2>4, <3>1, <3>4, ChromaHeld DEF area, n, m, i, j, PlaneColumns, PlaneRows, Across, Down
    <3>. QED  BY <3>2, <3>3, <3>4 DEF TwoPlanes
  <2>. QED  BY <2>4, <2>5, <2>6 DEF X, R
<1>. QED  BY <1>4, <1>5 DEF v, i, j

(* The planes of I420 and YV12 are copied. *)
LEMMA HalvesUpright ==
  ASSUME NEW c \in Conversions, Valid(c), c.format \in {"I420", "YV12"}, NEW k \in {0, 1}
  PROVE  UprightChroma(c, CopyPlane(PlaneView(c, k)), Kinds[c.format][k + 1])
<1>1. Across(c) = 2 /\ Down(c) = 2 /\ c.format \in TwoPlanes
  BY DEF Across, Down, TwoPlanes
<1> DEFINE of == Kinds[c.format][k + 1]
           v == PlaneView(c, k)
<1>2. /\ v.w = CropColumns(c, 2) /\ v.h = CropRows(c, 2)
      /\ \A x \in 0 .. v.w - 1, y \in 0 .. v.h - 1 :
           Holds(c, At(v, x, y)) = Sample(of, (c.crop.x \div 2 + x) * 2, PlaneRow(c, 2, y) * 2, 2, 2)
  BY <1>1, PlanesHeld
<1>. HIDE DEF of, v
<1>3. UprightChroma(c, CopyPlane(v), of)
  BY <1>2, CopiedUpright
<1>. QED  BY <1>3 DEF of, v

(* The rows that a row of chroma is made from. *)
LEMMA RowPairFacts ==
  ASSUME NEW v, v.h \in Nat, NEW y \in 0 .. HalfUp(v.h) - 1
  PROVE  2 * y \in RowPair(v, y) /\ \A r \in RowPair(v, y) : r \in 0 .. v.h - 1 /\ r \in {2 * y, 2 * y + 1}
BY DEF RowPair, HalfUp

(* Pixels: luma from each, chroma from two by two. *)
LEMMA PixelsUpright ==
  ASSUME NEW c \in Conversions, Valid(c), c.format = "RGB"
  PROVE  Upright(c, FromPixels(Inverted(Luma(c))))
<1> DEFINE v == Inverted(Luma(c))
           q == FromPixels(v)
           among(x) == {2 * x} \cup ({2 * x + 1} \cap 0 .. v.w - 1)
<1>1. /\ v.w = c.crop.w /\ v.h = AbsOf(c.crop.h)
      /\ \A x, y \in Int : At(v, x, y) = FlippedRow(c, y) * c.width + (c.crop.x + x)
  BY LumaAddress
<1>2. /\ c.crop.w \in Nat \ {0} /\ AbsOf(c.crop.h) \in Nat \ {0} /\ c.height \in Int
      /\ c.crop.x \in Nat /\ c.crop.y \in Nat
  BY CallFacts
<1>3. UprightLuma(c, q.Y)
  <2>1. q.Y = CopyPlane(v)
    <3>. HIDE DEF v
    <3>. QED  BY DEF FromPixels, I420, Plane
  <2>2. c.format \notin {"YUY2", "UYVY"}
    OBVIOUS
  <2>. QED  BY <2>1, <2>2, LumaUpright
<1>. HIDE DEF v
<1>4. ASSUME NEW p, p \in {q.U, q.V}
      PROVE  /\ p.w = HalfUp(v.w) /\ p.h = HalfUp(v.h)
             /\ \A x \in 0 .. p.w - 1, y \in 0 .. p.h - 1 :
                  p.at[<<x, y>>] = {At(v, i, r) : i \in among(x), r \in RowPair(v, y)}
  BY <1>4 DEF FromPixels, I420, Plane
<1>. HIDE DEF q
<1>5. ASSUME NEW p, p \in {q.U, q.V}, NEW of,
             NEW x \in 0 .. p.w - 1, NEW y \in 0 .. p.h - 1
      PROVE  p.at[<<x, y>>] # {} /\ \A a \in p.at[<<x, y>>] : Belongs(c, Holds(c, a), of, x, y)
  <2>1. x \in 0 .. HalfUp(v.w) - 1 /\ y \in 0 .. HalfUp(v.h) - 1 /\ x \in Int /\ y \in Int
    BY <1>2, <1>4, <1>5
  <2>2. 2 * y \in RowPair(v, y) /\ \A r \in RowPair(v, y) : r \in 0 .. v.h - 1 /\ r \in {2 * y, 2 * y + 1}
    BY <1>1, <1>2, <2>1, RowPairFacts
  <2>3. 2 * x \in among(x) /\ \A i \in among(x) : i \in 0 .. v.w - 1 /\ i \in {2 * x, 2 * x + 1}
    BY <1>1, <1>2, <2>1 DEF HalfUp
  <2>. HIDE DEF among
  <2>4. p.at[<<x, y>>] = {At(v, i, r) : i \in among(x), r \in RowPair(v, y)}
    BY <1>4, <1>5
  <2>5. ASSUME NEW i \in among(x), NEW r \in RowPair(v, y)
        PROVE  Belongs(c, Holds(c, At(v, i, r)), of, x, y)
    <3>1. /\ i \in 0 .. c.crop.w - 1 /\ i \in 2 * x - 1 .. 2 * x + 1
          /\ r \in 0 .. AbsOf(c.crop.h) - 1 /\ r \in 2 * y - 1 .. 2 * y + 1
      BY <1>1, <2>1, <2>2, <2>3
    <3>2. Holds(c, At(v, i, r)) = Sample("RGB", c.crop.x + i, FlippedRow(c, r), 1, 1)
      <4>1. At(v, i, r) = FlippedRow(c, r) * c.width + (c.crop.x + i)
        BY <1>1, <1>2, <3>1
      <4>. QED  BY <3>1, <4>1, LumaHeld
    <3>3. (c.crop.x \div 1 + i) * 1 = c.crop.x + i /\ PlaneRow(c, 1, r) * 1 = FlippedRow(c, r)
      BY <1>2, <3>1 DEF PlaneRow, FlippedRow, CropRows
    <3>4. Belongs(c, Sample("RGB", (c.crop.x \div 1 + i) * 1, PlaneRow(c, 1, r) * 1, 1, 1), of, x, y)
      <4>1. /\ 1 \in {1, 2} /\ "RGB" \in {of, "RGB"} /\ i \in 0 .. CropColumns(c, 1) - 1
            /\ r \in 0 .. CropRows(c, 1) - 1
        BY <3>1 DEF CropColumns, CropRows
      <4>2. x \in 0 .. HalfUp(c.crop.w) - 1 /\ y \in 0 .. HalfUp(AbsOf(c.crop.h)) - 1
        BY <1>1, <2>1
      <4>3. Placed(c, 1, 1, i, r, x, y)
        BY <3>1, <4>1, <4>2 DEF Placed
      <4>4. Belongs(c, Spot(c, "RGB", 1, 1, i, r), of, x, y)
        BY <4>1, <4>3, SampleBelongs
      <4>. QED  BY <4>4 DEF Spot
    <3>. QED  BY <3>2, <3>3, <3>4
  <2>6. At(v, 2 * x, 2 * y) \in p.at[<<x, y>>]
    BY <2>2, <2>3, <2>4
  <2>7. \A a \in p.at[<<x, y>>] : \E i \in among(x), r \in RowPair(v, y) : a = At(v, i, r)
    BY <2>4
  <2>. QED  BY <2>5, <2>6, <2>7
<1>6. ASSUME NEW p, p \in {q.U, q.V}, NEW of PROVE UprightChroma(c, p, of)
  <2>1. p.w = HalfUp(c.crop.w) /\ p.h = HalfUp(AbsOf(c.crop.h))
    BY <1>1, <1>4, <1>6
  <2>. QED  BY <1>5, <1>6, <2>1 DEF UprightChroma
<1>7. q.U \in {q.U, q.V} /\ q.V \in {q.U, q.V}
  OBVIOUS
<1>. QED  BY <1>3, <1>6, <1>7 DEF Upright, q, v

(* Grey: no chroma is taken from the frame. *)
LEMMA GreyUpright ==
  ASSUME NEW c \in Conversions, Valid(c), c.format = "I400"
  PROVE  Upright(c, FromGrey(Inverted(Luma(c))))
<1> DEFINE v == Inverted(Luma(c))
           q == FromGrey(v)
<1>1. v.w = c.crop.w /\ v.h = AbsOf(c.crop.h)
  BY LumaAddress
<1>2. UprightLuma(c, q.Y)
  <2>1. q.Y = CopyPlane(v) /\ c.format \notin {"YUY2", "UYVY"}
    BY DEF FromGrey, I420
  <2>. QED  BY <2>1, LumaUpright
<1>. HIDE DEF v
<1>3. /\ q.U.w = HalfUp(v.w) /\ q.U.h = HalfUp(v.h)
      /\ q.V.w = HalfUp(v.w) /\ q.V.h = HalfUp(v.h)
  BY DEF FromGrey, I420, SetPlane, Plane
<1>. HIDE DEF q
<1>4. UprightChroma(c, q.U, "U") /\ UprightChroma(c, q.V, "V")
  BY <1>1, <1>3 DEF UprightChroma
<1>. QED  BY <1>2, <1>4 DEF Upright, q, v

(* The address of a byte of pixel X of row R, in rows of n pixels. *)
PairAt(n, R, X, e) == R * (2 * n) + (2 * X + e)

(* The bytes of a row of pairs: luma of each pixel, u and v of each pair. *)
LEMMA PairByte ==
  ASSUME NEW n \in Nat, n % 2 = 0, NEW luma \in {0, 1}, NEW R \in Int, NEW X \in 0 .. n-1,
         NEW e \in {0, 1}
  PROVE  InPairs(PairAt(n, R, X, e), n, luma)
           = IF e = luma THEN Sample("Y", X, R, 1, 1)
             ELSE Sample(IF X % 2 = 0 THEN "U" ELSE "V", X - (X % 2), R, 2, 1)
<1> DEFINE a == PairAt(n, R, X, e)
<1>1. a \div (2 * n) = R /\ a % (2 * n) = 2 * X + e
  <2> DEFINE m == 2 * n
             t == 2 * X + e
  <2>1. m \in Nat \ {0} /\ t \in 0 .. m - 1 /\ a = R * m + t
    BY DEF PairAt
  <2>. HIDE DEF m, t, a
  <2>2. a \div m = R /\ a % m = t
    BY <2>1, OneQuotient
  <2>. QED  BY <2>2 DEF m, t
<1>2. a % 2 = e
  <2> DEFINE b == R * n + X
  <2>1. b \in Int /\ R * n \in Int
    BY Times
  <2>2. R * (2 * n) = 2 * (R * n)
    OBVIOUS
  <2>3. a = 2 * b + e
    BY <2>1, <2>2 DEF PairAt
  <2>. HIDE DEF b
  <2>. QED  BY <2>1, <2>3
<1>3. (2 * X + e) \div 2 = X
  OBVIOUS
<1>. QED  BY <1>1, <1>2, <1>3 DEF InPairs

(* The address of the first byte of a pixel in aligned rows of pairs. *)
LEMMA PairAddress ==
  ASSUME NEW c \in Conversions, Valid(c)
  PROVE  LET v == PairView(c)
         IN /\ v.w = c.crop.w /\ v.h = AbsOf(c.crop.h)
            /\ v.step = 2 /\ v.base \in Int /\ v.stride \in Int
            /\ \A x, y \in Int : At(v, x, y) = FlippedRow(c, y) * (2 * AlignedWidth(c)) + 2 * (c.crop.x + x)
<1> DEFINE n == AlignedWidth(c)
           i == InvCropHeight(c)
           l == View((n * c.crop.y + c.crop.x) * 2, n * 2, 2, c.crop.w, i)
           v == PairView(c)
<1>1. /\ c.width \in Nat /\ c.crop.x \in Nat /\ c.crop.y \in Nat /\ c.crop.w \in Nat
      /\ i \in Int \ {0} /\ AbsOf(i) = AbsOf(c.crop.h) /\ AbsOf(i) \in Nat
      /\ i > 0 <=> ~(c.height < 0)
  BY CallFacts, InvCropFacts
<1>2. n \in Nat
  BY <1>1, Half DEF AlignedWidth
<1>3. v = Inverted(l)
  BY DEF PairView
<1>. HIDE DEF n, v
<1>4. /\ l \in [base : Int, stride : Int, step : Int, w : Int, h : Int \ {0}]
      /\ l.w = c.crop.w /\ l.h = i /\ l.step = 2 /\ l.stride = n * 2
      /\ l.base = (n * c.crop.y + c.crop.x) * 2
  <2>1. n * c.crop.y + c.crop.x \in Int
    BY <1>1, <1>2, Times
  <2>. QED  BY <1>1, <1>2, <2>1 DEF View
<1>. HIDE DEF l
<1>5. /\ v.w = c.crop.w /\ v.h = AbsOf(i)
      /\ \A x, y \in Int : At(v, x, y) = At(l, x, ReadRow(l.h, y))
  <2>1. /\ Inverted(l).w = l.w /\ Inverted(l).h = AbsOf(l.h)
        /\ \A x, y \in Int : At(Inverted(l), x, y) = At(l, x, ReadRow(l.h, y))
    BY <1>4, InvertedFacts
  <2>. QED  BY <1>3, <1>4, <2>1
<1>6. v.step = 2 /\ v.base \in Int /\ v.stride \in Int
  <2>1. l.base \in Int /\ l.stride \in Int /\ l.h \in Int
    BY <1>4
  <2>2. (-l.h - 1) * l.stride \in Int
    BY <2>1, Times
  <2>. QED  BY <1>3, <1>4, <2>1, <2>2 DEF Inverted
<1>7. ASSUME NEW x \in Int, NEW y \in Int
      PROVE  At(v, x, y) = FlippedRow(c, y) * (2 * n) + 2 * (c.crop.x + x)
  <2> DEFINE r == ReadRow(i, y)
  <2>1. r \in Int /\ FlippedRow(c, y) = c.crop.y + r
    BY <1>1 DEF FlippedRow, ReadRow
  <2>2. At(v, x, y) = At(l, x, r)
    BY <1>4, <1>5
  <2>. HIDE DEF r
  <2>3. At(l, x, r) = (n * c.crop.y + c.crop.x) * 2 + r * (n * 2) + x * 2
    BY <1>4 DEF At
  <2>4. (c.crop.y + r) * (2 * n) = 2 * (n * c.crop.y) + 2 * (r * n) /\ r * (n * 2) = 2 * (r * n)
    <3>1. ASSUME NEW a \in Int, NEW b \in Int PROVE a * (2 * b) = 2 * (b * a) /\ a * (b * 2) = 2 * (a * b)
      OBVIOUS
    <3>2. c.crop.y \in Int /\ r \in Int /\ n \in Int /\ 2 * n \in Int
      BY <1>1, <1>2, <2>1
    <3>3. (c.crop.y + r) * (2 * n) = c.crop.y * (2 * n) + r * (2 * n)
      <4>1. PICK y0 \in Int, s \in Int : y0 = c.crop.y /\ s = 2 * n
        BY <3>2
      <4>2. (y0 + r) * s = y0 * s + r * s
        BY <3>2, Spread
      <4>. QED  BY <4>1, <4>2
    <3>4. c.crop.y * (2 * n) = 2 * (n * c.crop.y) /\ r * (2 * n) = 2 * (n * r) /\ n * r = r * n
          /\ r * (n * 2) = 2 * (r * n)
      BY <3>1, <3>2
    <3>. QED  BY <3>3, <3>4
  <2>5. n * c.crop.y \in Int /\ r * n \in Int
    BY <1>1, <1>2, <2>1, Times
  <2>. QED  BY <1>1, <2>1, <2>2, <2>3, <2>4, <2>5
<1>. QED  BY <1>1, <1>5, <1>6, <1>7 DEF v, n

(* What is made of a row of pairs. *)
LEMMA FromPairsFacts ==
  ASSUME NEW v, NEW luma, NEW u
  PROVE  LET q == FromPairs(v, luma, u)
         IN /\ q.Y.w = v.w /\ q.Y.h = v.h
            /\ \A x \in 0 .. v.w - 1, y \in 0 .. v.h - 1 :
                 q.Y.at[<<x, y>>] = {v.base + y * v.stride + 2 * x + luma}
            /\ q.U.w = HalfUp(v.w) /\ q.U.h = HalfUp(v.h)
            /\ \A x \in 0 .. HalfUp(v.w) - 1, y \in 0 .. HalfUp(v.h) - 1 :
                 q.U.at[<<x, y>>] = {v.base + r * v.stride + 4 * x + u : r \in RowPair(v, y)}
            /\ q.V.w = HalfUp(v.w) /\ q.V.h = HalfUp(v.h)
            /\ \A x \in 0 .. HalfUp(v.w) - 1, y \in 0 .. HalfUp(v.h) - 1 :
                 q.V.at[<<x, y>>] = {v.base + r * v.stride + 4 * x + (u + 2) : r \in RowPair(v, y)}
<1> DEFINE q == FromPairs(v, luma, u)
<1>1. /\ q.Y.w = v.w /\ q.Y.h = v.h
      /\ \A x \in 0 .. v.w - 1, y \in 0 .. v.h - 1 :
           q.Y.at[<<x, y>>] = {v.base + y * v.stride + 2 * x + luma}
  BY DEF FromPairs, I420, Plane
<1>2. /\ q.U.w = HalfUp(v.w) /\ q.U.h = HalfUp(v.h)
      /\ \A x \in 0 .. HalfUp(v.w) - 1, y \in 0 .. HalfUp(v.h) - 1 :
           q.U.at[<<x, y>>] = {v.base + r * v.stride + 4 * x + u : r \in RowPair(v, y)}
  BY DEF FromPairs, I420, Plane
<1>3. /\ q.V.w = HalfUp(v.w) /\ q.V.h = HalfUp(v.h)
      /\ \A x \in 0 .. HalfUp(v.w) - 1, y \in 0 .. HalfUp(v.h) - 1 :
           q.V.at[<<x, y>>] = {v.base + r * v.stride + 4 * x + (u + 2) : r \in RowPair(v, y)}
  BY DEF FromPairs, I420, Plane
<1>. QED  BY <1>1, <1>2, <1>3

(* What is known of a call for a format of pairs. *)
LEMMA PairFacts ==
  ASSUME NEW c \in Conversions, Valid(c), c.format \in {"YUY2", "UYVY"}
  PROVE  /\ c.crop.w \in Nat \ {0} /\ AbsOf(c.crop.h) \in Nat \ {0} /\ c.height \in Int
         /\ c.crop.x \in Nat /\ c.crop.y \in Nat /\ c.crop.x % 2 = 0
         /\ AlignedWidth(c) \in Nat /\ AlignedWidth(c) % 2 = 0
         /\ c.crop.x + c.crop.w <= AlignedWidth(c)
<1>1. /\ c.crop.w \in Nat \ {0} /\ AbsOf(c.crop.h) \in Nat \ {0} /\ c.height \in Int
      /\ c.crop.x \in Nat /\ c.crop.y \in Nat /\ c.width \in Nat \ {0}
      /\ Fits(c) /\ InFrame(c)
  BY CallFacts
<1>2. c.crop.x + c.crop.w <= c.width
  BY <1>1 DEF InFrame
<1>3. c.crop.x % 2 = 0
  BY <1>1 DEF Fits
<1>4. AlignedWidth(c) \in Nat /\ AlignedWidth(c) % 2 = 0 /\ c.width <= AlignedWidth(c)
  <2> DEFINE half == HalfUp(c.width)
  <2>1. half \in Int /\ 2 * half \in {c.width, c.width + 1} /\ AlignedWidth(c) = 2 * half
    BY <1>1, Half DEF AlignedWidth
  <2>. HIDE DEF half
  <2>. QED  BY <1>1, <2>1
<1>. QED  BY <1>1, <1>2, <1>3, <1>4

(* A byte of a pair, in the frame. *)
LEMMA PairHeld ==
  ASSUME NEW c \in Conversions, Valid(c), NEW luma \in {0, 1},
         c.format = IF luma = 0 THEN "YUY2" ELSE "UYVY",
         NEW R \in Int, NEW X \in 0 .. AlignedWidth(c) - 1, NEW e \in {0, 1}
  PROVE  Holds(c, PairAt(AlignedWidth(c), R, X, e))
           = IF e = luma THEN Sample("Y", X, R, 1, 1)
             ELSE Sample(IF X % 2 = 0 THEN "U" ELSE "V", X - (X % 2), R, 2, 1)
<1>1. ASSUME NEW a PROVE Holds(c, a) = InPairs(a, AlignedWidth(c), luma)
  <2>1. CASE luma = 0
    BY <2>1, KindsFacts DEF Holds, AlignedWidth, Planar
  <2>2. CASE luma = 1
    BY <2>2, KindsFacts DEF Holds, AlignedWidth, Planar
  <2>. QED  BY <2>1, <2>2
<1>2. AlignedWidth(c) \in Nat /\ AlignedWidth(c) % 2 = 0
  BY PairFacts
<1>. QED  BY <1>1, <1>2, PairByte

(* Luma of pairs. *)
LEMMA PairLumaUpright ==
  ASSUME NEW c \in Conversions, Valid(c), NEW luma \in {0, 1},
         c.format = IF luma = 0 THEN "YUY2" ELSE "UYVY",
         NEW v, v = PairView(c), NEW p, p.w = v.w, p.h = v.h,
         \A x \in 0 .. v.w - 1, y \in 0 .. v.h - 1 :
           p.at[<<x, y>>] = {v.base + y * v.stride + 2 * x + luma}
  PROVE  UprightLuma(c, p)
<1> DEFINE n == AlignedWidth(c)
           h == AbsOf(c.crop.h)
<1>1. v.w = c.crop.w /\ v.h = h /\ v.step = 2 /\ v.base \in Int /\ v.stride \in Int
  BY PairAddress
<1>2. \A x, y \in Int : At(v, x, y) = FlippedRow(c, y) * (2 * n) + 2 * (c.crop.x + x)
  <2>1. \A x, y \in Int :
          At(PairView(c), x, y) = FlippedRow(c, y) * (2 * AlignedWidth(c)) + 2 * (c.crop.x + x)
    BY PairAddress
  <2>. QED  BY <2>1, Zenon
<1>3. /\ c.crop.w \in Nat \ {0} /\ h \in Nat \ {0} /\ c.height \in Int
      /\ c.crop.x \in Nat /\ c.crop.y \in Nat /\ n \in Nat /\ c.crop.x + c.crop.w <= n
  BY PairFacts
<1>4. ASSUME NEW x \in 0 .. p.w - 1, NEW y \in 0 .. p.h - 1
      PROVE  \E a : /\ p.at[<<x, y>>] = {a}
                    /\ Holds(c, a) = Sample("Y", c.crop.x + x, FlippedRow(c, y), 1, 1)
  <2> DEFINE a == v.base + y * v.stride + 2 * x + luma
             R == FlippedRow(c, y)
             X == c.crop.x + x
  <2>0. x \in 0 .. c.crop.w - 1 /\ y \in 0 .. h - 1 /\ x \in Int /\ y \in Int
    BY <1>1, <1>3
  <2>1. X \in 0 .. n - 1
    BY <1>3, <2>0
  <2>2. R \in Int
    BY <1>3, <2>0 DEF FlippedRow
  <2>3. At(v, x, y) = R * (2 * n) + 2 * X
    BY <1>2, <2>0
  <2>4. At(v, x, y) = v.base + y * v.stride + x * 2
    BY <1>1 DEF At
  <2>5. p.at[<<x, y>>] = {a}
    BY <1>1, <1>3
  <2>. HIDE DEF R, X, n
  <2>6. a = PairAt(n, R, X, luma)
    <3> DEFINE A == y * v.stride
               B == R * (2 * n)
    <3>1. A \in Int /\ B \in Int
      BY <1>1, <1>3, <2>0, <2>2, Times
    <3>2. v.base + A + x * 2 = B + 2 * X
      BY <2>3, <2>4
    <3>3. a = v.base + A + 2 * x + luma /\ PairAt(n, R, X, luma) = B + (2 * X + luma)
      BY DEF PairAt
    <3>4. X \in Int
      BY <1>3, <2>1
    <3>. HIDE DEF A, B, a
    <3>. QED  BY <1>1, <2>0, <3>1, <3>2, <3>3, <3>4
  <2>7. Holds(c, PairAt(n, R, X, luma)) = Sample("Y", X, R, 1, 1)
    BY <2>1, <2>2, PairHeld DEF n
  <2>. QED  BY <2>5, <2>6, <2>7 DEF R, X
<1>5. c.format # "RGB"
  OBVIOUS
<1>. QED  BY <1>1, <1>4, <1>5 DEF UprightLuma

(* Chroma of pairs: u is the first, v the second of a pair. *)
LEMMA PairChromaUpright ==
  ASSUME NEW c \in Conversions, Valid(c), NEW luma \in {0, 1},
         c.format = IF luma = 0 THEN "YUY2" ELSE "UYVY",
         NEW v, v = PairView(c), NEW k \in {0, 1}, NEW of, of = IF k = 0 THEN "U" ELSE "V",
         NEW first, first = 1 - luma + 2 * k,
         NEW p, p.w = HalfUp(v.w), p.h = HalfUp(v.h),
         \A x \in 0 .. HalfUp(v.w) - 1, y \in 0 .. HalfUp(v.h) - 1 :
           p.at[<<x, y>>] = {v.base + r * v.stride + 4 * x + first : r \in RowPair(v, y)}
  PROVE  UprightChroma(c, p, of)
<1> DEFINE n == AlignedWidth(c)
           h == AbsOf(c.crop.h)
           e == 1 - luma
<1>1. v.w = c.crop.w /\ v.h = h /\ v.step = 2 /\ v.base \in Int /\ v.stride \in Int
  BY PairAddress
<1>2. \A x, y \in Int : At(v, x, y) = FlippedRow(c, y) * (2 * n) + 2 * (c.crop.x + x)
  <2>1. \A x, y \in Int :
          At(PairView(c), x, y) = FlippedRow(c, y) * (2 * AlignedWidth(c)) + 2 * (c.crop.x + x)
    BY PairAddress
  <2>. QED  BY <2>1, Zenon
<1>3. /\ c.crop.w \in Nat \ {0} /\ h \in Nat \ {0} /\ c.height \in Int
      /\ c.crop.x \in Nat /\ c.crop.y \in Nat /\ n \in Nat /\ c.crop.x + c.crop.w <= n
      /\ c.crop.x % 2 = 0 /\ n % 2 = 0
  BY PairFacts
<1>4. /\ 2 * HalfUp(c.crop.w) \in {c.crop.w, c.crop.w + 1} /\ HalfUp(c.crop.w) \in Int
      /\ 2 * HalfUp(h) \in {h, h + 1} /\ HalfUp(h) \in Int
  <2>. HIDE DEF h
  <2>. QED  BY <1>3, Half
<1>5. p.w = HalfUp(c.crop.w) /\ p.h = HalfUp(h)
  BY <1>1
<1>6. ASSUME NEW x \in 0 .. HalfUp(c.crop.w) - 1, NEW y \in 0 .. HalfUp(h) - 1
      PROVE  p.at[<<x, y>>] # {} /\ \A a \in p.at[<<x, y>>] : Belongs(c, Holds(c, a), of, x, y)
  <2>1. x \in Int /\ y \in Int /\ x >= 0 /\ 2 * x < c.crop.w /\ 2 * y < h
    BY <1>3, <1>4
  <2>2. 2 * y \in RowPair(v, y) /\ \A r \in RowPair(v, y) : r \in 0 .. h - 1 /\ r \in {2 * y, 2 * y + 1}
    <3>1. v.h \in Nat /\ y \in 0 .. HalfUp(v.h) - 1
      BY <1>1, <1>3
    <3>. QED  BY <1>1, <3>1, RowPairFacts
  <2>3. p.at[<<x, y>>] = {v.base + r * v.stride + 4 * x + first : r \in RowPair(v, y)}
    BY <1>1
  <2>4. ASSUME NEW r \in RowPair(v, y)
        PROVE  Belongs(c, Holds(c, v.base + r * v.stride + 4 * x + first), of, x, y)
    <3> DEFINE a == v.base + r * v.stride + 4 * x + first
               R == FlippedRow(c, r)
               X == c.crop.x + 2 * x + k
    <3>1. r \in Int /\ r \in 0 .. h - 1 /\ r \in 2 * y - 1 .. 2 * y + 1
      BY <1>3, <2>1, <2>2
    <3>2. R \in Int
      BY <1>3, <3>1 DEF FlippedRow
    <3>3. X \in 0 .. n - 1 /\ e \in {0, 1} /\ e # luma
      <4>1. c.crop.x + 2 * x <= n - 1
        BY <1>3, <2>1
      <4>2. c.crop.x + 2 * x # n - 1
        BY <1>3, <2>1
      <4>. QED  BY <1>3, <2>1, <4>1, <4>2
    <3>4. /\ X % 2 = k /\ X - (X % 2) = c.crop.x + 2 * x
          /\ (c.crop.x \div 2 + x) * 2 = c.crop.x + 2 * x /\ X \in Int
      BY <1>3, <2>1
    <3>5. At(v, 2 * x, r) = v.base + r * v.stride + (2 * x) * 2
      BY <1>1 DEF At
    <3>6. At(v, 2 * x, r) = R * (2 * n) + 2 * (c.crop.x + 2 * x)
      BY <1>2, <2>1, <3>1
    <3>. HIDE DEF R, n
    <3>7. a = PairAt(n, R, X, e)
      <4> DEFINE A == r * v.stride
                 B == R * (2 * n)
      <4>1. A \in Int /\ B \in Int
        BY <1>1, <1>3, <3>1, <3>2, Times
      <4>2. v.base + A + (2 * x) * 2 = B + 2 * (c.crop.x + 2 * x)
        BY <3>5, <3>6
      <4>3. a = v.base + A + 4 * x + (e + 2 * k) /\ PairAt(n, R, X, e) = B + (2 * X + e)
        BY DEF PairAt
      <4>4. X = c.crop.x + 2 * x + k /\ e \in Int
        OBVIOUS
      <4>. HIDE DEF A, B, a, X, e
      <4>. QED  BY <1>1, <1>3, <2>1, <4>1, <4>2, <4>3, <4>4
    <3>. HIDE DEF a, X, e
    <3>8. Holds(c, PairAt(n, R, X, e))
            = Sample(IF X % 2 = 0 THEN "U" ELSE "V", X - (X % 2), R, 2, 1)
      BY <3>2, <3>3, PairHeld DEF n
    <3>9. Holds(c, a) = Sample(of, (c.crop.x \div 2 + x) * 2, R, 2, 1)
      BY <3>4, <3>7, <3>8
    <3>10. PlaneRow(c, 1, r) * 1 = R
      BY <1>3, <3>1 DEF PlaneRow, FlippedRow, CropRows, R
    <3>11. Belongs(c, Sample(of, (c.crop.x \div 2 + x) * 2, PlaneRow(c, 1, r) * 1, 2, 1), of, x, y)
      <4>1. /\ 1 \in {1, 2} /\ 2 \in {1, 2} /\ of \in {of, "RGB"} /\ x \in 0 .. CropColumns(c, 2) - 1
            /\ r \in 0 .. CropRows(c, 1) - 1
        BY <3>1 DEF CropColumns, CropRows
      <4>2. Placed(c, 2, 1, x, r, x, y)
        BY <3>1, <4>1 DEF Placed
      <4>3. Belongs(c, Spot(c, of, 2, 1, x, r), of, x, y)
        BY <4>1, <4>2, SampleBelongs
      <4>. QED  BY <4>3 DEF Spot
    <3>. QED  BY <3>9, <3>10, <3>11 DEF a
  <2>. QED  BY <2>2, <2>3, <2>4
<1>. QED  BY <1>5, <1>6 DEF UprightChroma

(* Pairs: luma of each pixel, chroma of the pairs of two rows.  A crop begins *)
(* with a pair.                                                             *)
LEMMA PairsUpright ==
  ASSUME NEW c \in Conversions, Valid(c), NEW luma \in {0, 1},
         c.format = IF luma = 0 THEN "YUY2" ELSE "UYVY"
  PROVE  Upright(c, FromPairs(PairView(c), luma, 1 - luma))
<1> DEFINE v == PairView(c)
           u == 1 - luma
           q == FromPairs(v, luma, u)
<1>. HIDE DEF v, u
<1>1. /\ q.Y.w = v.w /\ q.Y.h = v.h
      /\ \A x \in 0 .. v.w - 1, y \in 0 .. v.h - 1 :
           q.Y.at[<<x, y>>] = {v.base + y * v.stride + 2 * x + luma}
  BY FromPairsFacts
<1>2. /\ q.U.w = HalfUp(v.w) /\ q.U.h = HalfUp(v.h)
      /\ \A x \in 0 .. HalfUp(v.w) - 1, y \in 0 .. HalfUp(v.h) - 1 :
           q.U.at[<<x, y>>] = {v.base + r * v.stride + 4 * x + u : r \in RowPair(v, y)}
  BY FromPairsFacts
<1>3. /\ q.V.w = HalfUp(v.w) /\ q.V.h = HalfUp(v.h)
      /\ \A x \in 0 .. HalfUp(v.w) - 1, y \in 0 .. HalfUp(v.h) - 1 :
           q.V.at[<<x, y>>] = {v.base + r * v.stride + 4 * x + (u + 2) : r \in RowPair(v, y)}
  BY FromPairsFacts
<1>. HIDE DEF q
<1>4. UprightLuma(c, q.Y)
  BY <1>1, PairLumaUpright DEF v
<1>5. UprightChroma(c, q.U, "U")
  <2>1. u = 1 - luma + 2 * 0 /\ 0 \in {0, 1} /\ "U" = IF 0 = 0 THEN "U" ELSE "V"
    BY DEF u
  <2>2. v = PairView(c)
    BY DEF v
  <2>. QED  BY <1>2, <2>1, <2>2, PairChromaUpright
<1>6. UprightChroma(c, q.V, "V")
  <2>1. u + 2 = 1 - luma + 2 * 1 /\ 1 \in {0, 1} /\ "V" = IF 1 = 0 THEN "U" ELSE "V"
    BY DEF u
  <2>2. v = PairView(c)
    BY DEF v
  <2> DEFINE f == u + 2
  <2>3. \A x \in 0 .. HalfUp(v.w) - 1, y \in 0 .. HalfUp(v.h) - 1 :
           q.V.at[<<x, y>>] = {v.base + r * v.stride + 4 * x + f : r \in RowPair(v, y)}
    BY <1>3
  <2>. HIDE DEF f
  <2>. QED  BY <1>3, <2>1, <2>2, <2>3, PairChromaUpright DEF f
<1>. QED  BY <1>4, <1>5, <1>6 DEF Upright, q, v, u
-----------------------------------------------------------------------------
(* Planes that are scaled. *)

(* A quotient in 16.16. *)
LEMMA FixedDivFacts ==
  ASSUME NEW n \in Nat, NEW k \in Nat \ {0}
  PROVE  /\ FixedDiv(n, k) \in Int /\ (n * 65536) % k \in 0 .. k-1
         /\ n * 65536 = FixedDiv(n, k) * k + ((n * 65536) % k)
<1> DEFINE a == n * 65536
           f == a \div k
           rem == a % k
<1>1. f = FixedDiv(n, k)
  BY DEF FixedDiv, One
<1>2. a \in Int
  OBVIOUS
<1>. HIDE DEF a
<1>3. f \in Int /\ rem \in 0 .. k-1 /\ a = f * k + rem
  BY <1>2, Divided
<1>. HIDE DEF f
<1>. QED  BY <1>1, <1>3 DEF a

(* What a step of a halved axis is short of two samples, and all k of them. *)
Lost(n, k) == 131072 - FixedDiv(n, k)
LostInAll(n, k) == k * Lost(n, k)

(* The step of a halved axis is two samples, less what is lost when the axis  *)
(* is odd: over the whole axis that is one sample, and a little by rounding.  *)
LEMMA StepFacts ==
  ASSUME NEW k \in Nat \ {0}, NEW n \in Nat, 2 * k - 1 <= n, n <= 2 * k
  PROVE  /\ FixedDiv(n, k) \in Int /\ Lost(n, k) \in Nat /\ LostInAll(n, k) \in Int
         /\ LostInAll(n, k) >= 65536 * (2 * k - n)
         /\ LostInAll(n, k) < 65536 * (2 * k - n) + k
         /\ k > 1 => Lost(n, k) <= 32768
         /\ n = 2 * k => Lost(n, k) = 0
<1> DEFINE f == FixedDiv(n, k)
           rem == (n * 65536) % k
           d == 131072 - f
<1>1. f \in Int /\ rem \in 0 .. k-1 /\ n * 65536 = f * k + rem
  BY FixedDivFacts
<1>. HIDE DEF f, rem
<1>2. d \in Int /\ f = 131072 - d
  BY <1>1
<1>. HIDE DEF d
<1>3. (131072 - d) * k = 131072 * k - d * k /\ d * k \in Int
  BY <1>2, Spread, Times
<1>4. d * k = 131072 * k - 65536 * n + rem /\ k * d = d * k
  BY <1>1, <1>2, <1>3
<1>5. k * d >= 65536 * (2 * k - n) /\ k * d < 65536 * (2 * k - n) + k /\ k * d \in Int
  BY <1>1, <1>3, <1>4
<1>6. d \in Nat
  <2>1. SUFFICES ASSUME d <= -1 PROVE FALSE
    BY <1>2
  <2>2. d * k <= (-1) * k
    BY <1>2, <2>1, Grows
  <2>. QED  BY <1>4, <1>5, <2>2
<1>7. k > 1 => d <= 32768
  <2>1. SUFFICES ASSUME k > 1, 32769 <= d PROVE FALSE
    BY <1>6
  <2>2. 32769 * k <= d * k
    BY <1>2, <2>1, Grows
  <2>. QED  BY <1>4, <1>5, <2>1, <2>2
<1>8. n = 2 * k => d = 0
  <2>1. SUFFICES ASSUME n = 2 * k, 1 <= d PROVE FALSE
    BY <1>6
  <2>2. 1 * k <= d * k
    BY <1>2, <2>1, Grows
  <2>. QED  BY <1>4, <1>5, <2>1, <2>2
<1>. QED  BY <1>1, <1>5, <1>6, <1>7, <1>8 DEF d, f, Lost, LostInAll

(* Up to a place of the axis less is lost than over the whole. *)
LEMMA LostFacts ==
  ASSUME NEW k \in Nat \ {0}, NEW d \in Nat, NEW x \in 0 .. k-1
  PROVE  /\ x * d \in Nat /\ x * d <= (k - 1) * d /\ (k - 1) * d = k * d - d
         /\ x * (131072 - d) = 131072 * x - x * d
         /\ x = k - 1 => x * d = k * d - d
         /\ x = 0 => x * d = 0
<1>1. x * d \in Nat /\ k * d \in Nat
  BY Times
<1>2. x * d <= (k - 1) * d
  BY Grows
<1>3. (k - 1) * d = k * d - 1 * d
  BY Spread
<1>4. (131072 - d) * x = 131072 * x - d * x
  BY Spread
<1>5. (131072 - d) * x = x * (131072 - d) /\ d * x = x * d
  OBVIOUS
<1>. QED  BY <1>1, <1>2, <1>3, <1>4, <1>5

(* Where place x of a halved axis is read: from the centre, and from row 0. *)
FromCentre(n, k, x) == CenterStart(FixedDiv(n, k)) + x * FixedDiv(n, k)
FromRow0(n, k, y) == AtMost(y * FixedDiv(n, k), (n - 1) * One - 1)
Whole(t) == t \div One

(* A halved axis read from its centre: between two samples, of which neither  *)
(* is beyond the ends nor more than one from the first of its pair.          *)
LEMMA CentreFacts ==
  ASSUME NEW k \in Nat \ {0}, NEW n \in Nat, 2 * k - 1 <= n, n <= 2 * k, n > 1, n < 32768, NEW x \in 0 .. k-1
  PROVE  LET t == FromCentre(n, k, x)
         IN t \in Int /\ Whole(t) \in Nat /\ Whole(t) \in {2 * x - 1, 2 * x} /\ Whole(t) + 1 <= n - 1
<1> DEFINE f == FixedDiv(n, k)
           d == Lost(n, k)
           t == FromCentre(n, k, x)
           q == Whole(t)
<1>0. k * d \in Int /\ k * d >= 65536 * (2 * k - n) /\ k * d < 65536 * (2 * k - n) + k
  <2>1. LostInAll(n, k) \in Int /\ LostInAll(n, k) >= 65536 * (2 * k - n)
        /\ LostInAll(n, k) < 65536 * (2 * k - n) + k
    BY StepFacts
  <2>. QED  BY <2>1 DEF LostInAll
<1>1. f \in Int /\ d \in Nat /\ (k > 1 => d <= 32768) /\ (n = 2 * k => d = 0)
  BY StepFacts
<1>2. t = CenterStart(f) + x * f /\ q = t \div 65536
  BY DEF FromCentre, Whole, One
<1>. HIDE DEF t, q
<1>3. f = 131072 - d
  BY <1>1 DEF Lost, f
<1>. HIDE DEF f, d
<1> DEFINE p == x * d
           m == k * d
<1>4. /\ p \in Nat /\ p <= m - d /\ x * f = 131072 * x - p
      /\ x = k - 1 => p = m - d
      /\ x = 0 => p = 0
  <2>1. /\ x * d \in Nat /\ x * d <= (k - 1) * d /\ (k - 1) * d = k * d - d
        /\ x * (131072 - d) = 131072 * x - x * d
        /\ x = k - 1 => x * d = k * d - d
        /\ x = 0 => x * d = 0
    BY <1>1, LostFacts
  <2>. QED  BY <1>0, <1>1, <1>3, <2>1
<1>5. m \in Int /\ m >= 65536 * (2 * k - n) /\ m < 65536 * (2 * k - n) + k
  BY <1>0
<1>6. t = ((131072 - d) \div 2) - 32768 + (131072 * x - p)
  BY <1>2, <1>3, <1>4 DEF CenterStart
<1>. HIDE DEF p, m
<1>7. t \in Int /\ t >= 131072 * x - 65536 /\ t < 131072 * x + 65536
  BY <1>1, <1>4, <1>5, <1>6
<1>8. x = 0 => t >= 0
  BY <1>1, <1>4, <1>5, <1>6
<1>9. x = k - 1 /\ n = 2 * k - 1 => t < 131072 * x
  <2>1. SUFFICES ASSUME x = k - 1, n = 2 * k - 1 PROVE t < 131072 * x
    OBVIOUS
  <2>2. k > 1 /\ d <= 32768 /\ p = m - d /\ m >= 65536
    BY <1>1, <1>4, <1>5, <2>1
  <2>. QED  BY <1>1, <1>4, <1>5, <1>6, <2>2
<1>10. q \in Int /\ q * 65536 <= t /\ t < q * 65536 + 65536
  BY <1>2, <1>7
<1>11. q \in {2 * x - 1, 2 * x} /\ (x = 0 => q >= 0)
       /\ (x = k - 1 /\ n = 2 * k - 1 => q # 2 * x)
  BY <1>7, <1>8, <1>9, <1>10
<1>12. q \in Nat
  BY <1>10, <1>11
<1>13. q + 1 <= n - 1
  BY <1>10, <1>11
<1>. QED  BY <1>7, <1>11, <1>12, <1>13 DEF t, q

(* A halved axis read from its start, its step lost within one sample. *)
LEMMA StartFacts ==
  ASSUME NEW k \in Nat \ {0}, NEW n \in Nat, 2 * k - 1 <= n, n <= 2 * k, n > 1,
         (k - 1) * (2 * One - FixedDiv(n, k)) <= One, NEW y \in 0 .. k-1,
         NEW r \in {Whole(FromRow0(n, k, y))} \cup Rows(FromRow0(n, k, y))
  PROVE  r \in 0 .. n-1 /\ r \in 2 * y - 1 .. 2 * y
<1> DEFINE f == FixedDiv(n, k)
           d == Lost(n, k)
           t == FromRow0(n, k, y)
           q == t \div 65536
<1>1. d \in Nat /\ f \in Int
  BY StepFacts
<1>2. (k - 1) * d <= 65536
  BY DEF One, Lost
<1>3. t = AtMost(y * f, (n - 1) * 65536 - 1) /\ (r = q \/ (r = q + 1 /\ t % 65536 >= 256))
  BY DEF FromRow0, Rows, Whole, One
<1>. HIDE DEF t
<1>4. f = 131072 - d
  BY <1>1 DEF Lost
<1>. HIDE DEF f, d
<1> DEFINE p == y * d
<1>5. p \in Nat /\ p <= 65536 /\ y * f = 131072 * y - p /\ (y = 0 => p = 0)
  <2>1. y * d \in Nat /\ y * d <= (k - 1) * d /\ y * (131072 - d) = 131072 * y - y * d
        /\ (y = 0 => y * d = 0)
    BY <1>1, LostFacts
  <2>2. (k - 1) * d \in Int
    BY <1>1, Times
  <2>. QED  BY <1>2, <1>4, <2>1, <2>2
<1>. HIDE DEF p
<1>6. t = IF 131072 * y - p > (n - 1) * 65536 - 1 THEN (n - 1) * 65536 - 1 ELSE 131072 * y - p
  BY <1>3, <1>5 DEF AtMost
<1>7. t \in Int /\ t >= 131072 * y - 65536 /\ t >= 0 /\ t <= 65536 * (n - 1) - 1 /\ t <= 131072 * y
  BY <1>5, <1>6
<1>8. q \in Int /\ q * 65536 <= t /\ t < q * 65536 + 65536 /\ t % 65536 = t - q * 65536
  BY <1>7
<1>. HIDE DEF q
<1>. QED  BY <1>3, <1>7, <1>8

(* A plane of half the rows, and of half the columns or of all, each sample   *)
(* made of samples of the view no more than one from the first of its own.    *)
Beside(v, p, w, h) ==
    /\ p.w = w /\ p.h = h
    /\ \A x \in 0 .. w-1, y \in 0 .. h-1 :
         /\ p.at[<<x, y>>] # {}
         /\ \A a \in p.at[<<x, y>>] :
              \E i \in 0 .. v.w - 1, r \in 0 .. v.h - 1 :
                /\ a = At(v, i, r)
                /\ IF w = v.w THEN i = x ELSE i \in 2 * x - 1 .. 2 * x + 1
                /\ r \in 2 * y - 1 .. 2 * y + 1

(* Rows scaled and columns kept. *)
LEMMA VerticalBeside ==
  ASSUME NEW v, NEW m \in Nat \ {0}, v.w \in Nat, v.h \in Nat, 2 * m - 1 <= v.h, v.h <= 2 * m,
         v.h > 1, (m - 1) * (2 * One - FixedDiv(v.h, m)) <= One
  PROVE  Beside(v, ScalePlaneVertical(v, m), v.w, m)
<1> DEFINE p == ScalePlaneVertical(v, m)
           row(y) == FromRow0(v.h, m, y)
           rows(y) == IF v.w = 1 THEN {Whole(row(y))} ELSE Rows(row(y))
<1>1. /\ p.w = v.w /\ p.h = m
      /\ \A x \in 0 .. v.w - 1, y \in 0 .. m - 1 : p.at[<<x, y>>] = {At(v, x, r) : r \in rows(y)}
  BY DEF ScalePlaneVertical, Plane, FromRow0, Whole
<1>. HIDE DEF p
<1>2. ASSUME NEW y \in 0 .. m - 1, NEW r \in rows(y)
      PROVE  r \in 0 .. v.h - 1 /\ r \in 2 * y - 1 .. 2 * y
  <2>1. r \in {Whole(FromRow0(v.h, m, y))} \cup Rows(FromRow0(v.h, m, y))
    OBVIOUS
  <2>. HIDE DEF rows
  <2>. QED  BY <2>1, StartFacts
<1>3. ASSUME NEW y \in 0 .. m - 1 PROVE rows(y) # {}
  BY DEF Rows
<1>. HIDE DEF rows
<1>4. ASSUME NEW x \in 0 .. v.w - 1, NEW y \in 0 .. m - 1
      PROVE  /\ p.at[<<x, y>>] # {}
             /\ \A a \in p.at[<<x, y>>] :
                  \E i \in 0 .. v.w - 1, r \in 0 .. v.h - 1 :
                    a = At(v, i, r) /\ i = x /\ r \in 2 * y - 1 .. 2 * y + 1
  <2>1. p.at[<<x, y>>] = {At(v, x, r) : r \in rows(y)}
    BY <1>1
  <2>2. \A r \in rows(y) : r \in 0 .. v.h - 1 /\ r \in 2 * y - 1 .. 2 * y + 1
    BY <1>2
  <2>. QED  BY <1>3, <2>1, <2>2
<1>. QED  BY <1>1, <1>4 DEF Beside, p

(* Two by two samples. *)
LEMMA Down2Beside ==
  ASSUME NEW v, NEW k \in Nat \ {0}, NEW m \in Nat \ {0}, v.w = 2 * k, v.h = 2 * m
  PROVE  Beside(v, ScalePlaneDown2(v, k, m), k, m)
<1> DEFINE p == ScalePlaneDown2(v, k, m)
<1>1. /\ p.w = k /\ p.h = m
      /\ \A x \in 0 .. k - 1, y \in 0 .. m - 1 :
           p.at[<<x, y>>] = {At(v, 2 * x + i, 2 * y + j) : i, j \in {0, 1}}
  BY DEF ScalePlaneDown2, Plane
<1>. HIDE DEF p
<1>2. ASSUME NEW x \in 0 .. k - 1, NEW y \in 0 .. m - 1
      PROVE  /\ p.at[<<x, y>>] # {}
             /\ \A a \in p.at[<<x, y>>] :
                  \E i \in 0 .. v.w - 1, r \in 0 .. v.h - 1 :
                    a = At(v, i, r) /\ i \in 2 * x - 1 .. 2 * x + 1 /\ r \in 2 * y - 1 .. 2 * y + 1
  <2>1. p.at[<<x, y>>] = {At(v, 2 * x + i, 2 * y + j) : i, j \in {0, 1}}
    BY <1>1
  <2>2. ASSUME NEW i \in {0, 1}, NEW j \in {0, 1}
        PROVE  /\ 2 * x + i \in 0 .. v.w - 1 /\ 2 * y + j \in 0 .. v.h - 1
               /\ 2 * x + i \in 2 * x - 1 .. 2 * x + 1 /\ 2 * y + j \in 2 * y - 1 .. 2 * y + 1
    OBVIOUS
  <2>. QED  BY <2>1, <2>2
<1>3. k # v.w
  OBVIOUS
<1>. QED  BY <1>1, <1>2, <1>3 DEF Beside, p

(* Columns scaled, and rows as far as there are more than one. *)
LEMMA BilinearBeside ==
  ASSUME NEW v, NEW k \in Nat \ {0}, NEW m \in Nat \ {0}, v.w \in Nat, v.h \in Nat,
         2 * k - 1 <= v.w, v.w <= 2 * k, 2 * m - 1 <= v.h, v.h <= 2 * m, k # v.w,
         v.w < 32768, v.h < 32768
  PROVE  Beside(v, ScalePlaneBilinearDown(v, k, m), k, m)
<1> DEFINE p == ScalePlaneBilinearDown(v, k, m)
           linear == v.h = 1 \/ m = v.h \/ m * 3 = v.h
           dy == FixedDiv(v.h, m)
           row(y) == AtMost((IF linear THEN dy \div 2 ELSE CenterStart(dy)) + y * dy, (v.h - 1) * One)
           columns(x) == Columns(FromCentre(v.w, k, x))
           rows(y) == IF linear THEN {Whole(row(y))} ELSE Rows(row(y))
<1>1. /\ p.w = k /\ p.h = m
      /\ \A x \in 0 .. k - 1, y \in 0 .. m - 1 :
           p.at[<<x, y>>] = {At(v, i, r) : i \in columns(x), r \in rows(y)}
  BY DEF ScalePlaneBilinearDown, Plane, FromCentre, Whole
<1>2. linear <=> v.h = 1
  OBVIOUS
<1>. HIDE DEF p, linear
<1>3. ASSUME NEW x \in 0 .. k - 1
      PROVE  columns(x) # {} /\ \A i \in columns(x) : i \in 0 .. v.w - 1 /\ i \in 2 * x - 1 .. 2 * x + 1
  <2> DEFINE t == FromCentre(v.w, k, x)
  <2>1. Whole(t) \in Nat /\ Whole(t) \in {2 * x - 1, 2 * x} /\ Whole(t) + 1 <= v.w - 1
    BY CentreFacts
  <2>2. Whole(t) \in Columns(t) /\ Columns(t) \subseteq {Whole(t), Whole(t) + 1}
    BY DEF Columns, Whole
  <2>. HIDE DEF t
  <2>3. \A i \in Columns(t) : i \in 0 .. v.w - 1 /\ i \in 2 * x - 1 .. 2 * x + 1
    BY <2>1, <2>2
  <2>. QED  BY <2>2, <2>3 DEF t
<1>4. ASSUME NEW y \in 0 .. m - 1
      PROVE  rows(y) # {} /\ \A r \in rows(y) : r \in 0 .. v.h - 1 /\ r \in 2 * y - 1 .. 2 * y + 1
  <2>1. CASE linear
    <3>1. v.h = 1 /\ m = 1 /\ y = 0
      BY <1>2, <2>1
    <3>2. dy = 65536
      BY <3>1 DEF FixedDiv, One
    <3>3. row(y) = 0
      BY <2>1, <3>1, <3>2 DEF AtMost, One
    <3>4. rows(y) = {0}
      BY <2>1, <3>3 DEF Whole, One
    <3>. QED  BY <3>1, <3>4
  <2>2. CASE ~linear
    <3> DEFINE t == FromCentre(v.h, m, y)
               u == AtMost(t, (v.h - 1) * 65536)
    <3>1. v.h > 1
      BY <1>2, <2>2
    <3>2. t \in Int /\ Whole(t) \in Nat /\ Whole(t) \in {2 * y - 1, 2 * y} /\ Whole(t) + 1 <= v.h - 1
      BY <3>1, CentreFacts
    <3>3. rows(y) = Rows(u)
      BY <2>2 DEF FromCentre, One
    <3>. HIDE DEF rows, t
    <3>4. u = t
      <4>1. t < (Whole(t) + 1) * 65536
        BY <3>2 DEF Whole, One
      <4>. QED  BY <3>2, <4>1 DEF AtMost
    <3>5. Whole(t) \in Rows(t) /\ Rows(t) \subseteq {Whole(t), Whole(t) + 1}
      BY DEF Rows, Whole
    <3>6. \A r \in Rows(t) : r \in 0 .. v.h - 1 /\ r \in 2 * y - 1 .. 2 * y + 1
      BY <3>2, <3>5
    <3>. QED  BY <3>3, <3>4, <3>5, <3>6
  <2>. QED  BY <2>1, <2>2
<1>. HIDE DEF columns, rows
<1>5. ASSUME NEW x \in 0 .. k - 1, NEW y \in 0 .. m - 1
      PROVE  /\ p.at[<<x, y>>] # {}
             /\ \A a \in p.at[<<x, y>>] :
                  \E i \in 0 .. v.w - 1, r \in 0 .. v.h - 1 :
                    a = At(v, i, r) /\ i \in 2 * x - 1 .. 2 * x + 1 /\ r \in 2 * y - 1 .. 2 * y + 1
  <2>1. p.at[<<x, y>>] = {At(v, i, r) : i \in columns(x), r \in rows(y)}
    BY <1>1
  <2>2. columns(x) # {} /\ \A i \in columns(x) : i \in 0 .. v.w - 1 /\ i \in 2 * x - 1 .. 2 * x + 1
    BY <1>3
  <2>3. rows(y) # {} /\ \A r \in rows(y) : r \in 0 .. v.h - 1 /\ r \in 2 * y - 1 .. 2 * y + 1
    BY <1>4
  <2>. QED  BY <2>1, <2>2, <2>3
<1>. QED  BY <1>1, <1>5 DEF Beside, p

(* Whatever way ScalePlane takes. *)
LEMMA ScaledBeside ==
  ASSUME NEW v, NEW k \in Nat \ {0}, NEW m \in Nat \ {0}, v.w \in Nat, v.h \in Nat,
         v.w = k \/ (2 * k - 1 <= v.w /\ v.w <= 2 * k), 2 * m - 1 <= v.h, v.h <= 2 * m,
         v.w < 32768, v.h < 32768,
         v.w = k => (m - 1) * (2 * One - FixedDiv(v.h, m)) <= One
  PROVE  Beside(v, ScalePlane(v, k, m), k, m)
<1>1. CASE k = v.w /\ m = v.h
  <2>1. ScalePlane(v, k, m) = CopyPlane(v) /\ m = 1
    BY <1>1 DEF ScalePlane
  <2> DEFINE p == CopyPlane(v)
  <2>2. /\ p.w = v.w /\ p.h = v.h
        /\ \A x \in 0 .. v.w - 1, y \in 0 .. v.h - 1 : p.at[<<x, y>>] = {At(v, x, y)}
    BY CopyFacts
  <2>. HIDE DEF p
  <2>3. ASSUME NEW x \in 0 .. v.w - 1, NEW y \in 0 .. v.h - 1
        PROVE  /\ p.at[<<x, y>>] # {}
               /\ \A a \in p.at[<<x, y>>] :
                    \E i \in 0 .. v.w - 1, r \in 0 .. v.h - 1 :
                      a = At(v, i, r) /\ i = x /\ r \in 2 * y - 1 .. 2 * y + 1
    <3>1. p.at[<<x, y>>] = {At(v, x, y)}
      BY <2>2
    <3>2. y \in 2 * y - 1 .. 2 * y + 1
      BY <1>1, <2>1
    <3>. QED  BY <3>1, <3>2
  <2>4. Beside(v, p, v.w, v.h)
    BY <2>2, <2>3 DEF Beside
  <2>. QED  BY <1>1, <2>1, <2>4 DEF p
<1>2. CASE k = v.w /\ m # v.h
  <2>1. ScalePlane(v, k, m) = ScalePlaneVertical(v, m)
    BY <1>2 DEF ScalePlane
  <2>2. v.h > 1
    BY <1>2
  <2>3. Beside(v, ScalePlaneVertical(v, m), v.w, m)
    BY <1>2, <2>2, VerticalBeside
  <2>. QED  BY <1>2, <2>1, <2>3
<1>3. CASE k # v.w /\ 2 * k = v.w /\ 2 * m = v.h
  <2>1. ScalePlane(v, k, m) = ScalePlaneDown2(v, k, m)
    BY <1>3 DEF ScalePlane
  <2>. QED  BY <1>3, <2>1, Down2Beside
<1>4. CASE k # v.w /\ ~(2 * k = v.w /\ 2 * m = v.h)
  <2>1. ScalePlane(v, k, m) = ScalePlaneBilinearDown(v, k, m)
    BY <1>4 DEF ScalePlane
  <2>. QED  BY <1>4, <2>1, BilinearBeside
<1>. QED  BY <1>1, <1>2, <1>3, <1>4

(* The planes of I422, I444 and their like are scaled to half. *)
LEMMA WideUpright ==
  ASSUME NEW c \in Conversions, Valid(c), Scales(c), NEW k \in {0, 1}
  PROVE  UprightChroma(c, ScalePlane(PlaneView(c, k), HalfUp(c.crop.w), HalfUp(AbsOf(c.crop.h))),
                       Kinds[c.format][k + 1])
<1> DEFINE of == Kinds[c.format][k + 1]
           v == PlaneView(c, k)
           w == HalfUp(c.crop.w)
           h == HalfUp(AbsOf(c.crop.h))
           across == Across(c)
           p == ScalePlane(v, w, h)
<1>1. c.format \in TwoPlanes /\ Down(c) = 1 /\ across \in {1, 2}
  BY DEF Scales, TwoPlanes, Down, Across
<1>2. /\ v.w = CropColumns(c, across) /\ v.h = AbsOf(c.crop.h)
      /\ \A x \in 0 .. v.w - 1, y \in 0 .. v.h - 1 :
           Holds(c, At(v, x, y))
             = Sample(of, (c.crop.x \div across + x) * across, PlaneRow(c, 1, y) * 1, across, 1)
  BY <1>1, PlanesHeld DEF CropRows
<1>. HIDE DEF v, of
<1>3. /\ c.crop.w \in Nat \ {0} /\ AbsOf(c.crop.h) \in Nat \ {0}
      /\ c.crop.w < 32768 /\ AbsOf(c.crop.h) < 32768
      /\ FromTop(c) => InStep(AbsOf(c.crop.h))
  BY CallFacts DEF Fits
<1>4. /\ w \in Nat \ {0} /\ 2 * w - 1 <= c.crop.w /\ c.crop.w <= 2 * w
      /\ h \in Nat \ {0} /\ 2 * h - 1 <= AbsOf(c.crop.h) /\ AbsOf(c.crop.h) <= 2 * h
      /\ w <= c.crop.w
  BY <1>3, Half
<1>5. v.w = IF across = 2 THEN w ELSE c.crop.w
  BY <1>2 DEF CropColumns
<1>6. v.w = w => (h - 1) * (2 * One - FixedDiv(v.h, h)) <= One
  <2>1. SUFFICES ASSUME v.w = w PROVE (h - 1) * (2 * One - FixedDiv(v.h, h)) <= One
    OBVIOUS
  <2>2. across = 2 \/ c.crop.w = 1
    <3>1. across = 2 \/ c.crop.w = w
      BY <1>5, <2>1
    <3>. HIDE DEF w, across
    <3>. QED  BY <1>3, <1>4, <3>1
  <2>3. FromTop(c)
    BY <2>2 DEF FromTop, Scales, Across
  <2>. QED  BY <1>2, <1>3, <2>3 DEF InStep
<1>7. Beside(v, p, w, h)
  <2>1. v.w \in Nat /\ v.h \in Nat /\ (v.w = w \/ (2 * w - 1 <= v.w /\ v.w <= 2 * w))
        /\ 2 * h - 1 <= v.h /\ v.h <= 2 * h /\ v.w < 32768 /\ v.h < 32768
    <3>. HIDE DEF w, h
    <3>. QED  BY <1>2, <1>3, <1>4, <1>5
  <2>. HIDE DEF w, h
  <2>. QED  BY <1>4, <1>6, <2>1, ScaledBeside
<1>. HIDE DEF p
<1>8. ASSUME NEW x \in 0 .. p.w - 1, NEW y \in 0 .. p.h - 1
      PROVE  p.at[<<x, y>>] # {} /\ \A a \in p.at[<<x, y>>] : Belongs(c, Holds(c, a), of, x, y)
  <2>1. x \in 0 .. w - 1 /\ y \in 0 .. h - 1
    BY <1>7 DEF Beside
  <2>2. p.at[<<x, y>>] # {}
    BY <1>7, <2>1 DEF Beside
  <2>3. ASSUME NEW a \in p.at[<<x, y>>] PROVE Belongs(c, Holds(c, a), of, x, y)
    <3>1. PICK i \in 0 .. v.w - 1, r \in 0 .. v.h - 1 :
                 /\ a = At(v, i, r)
                 /\ IF w = v.w THEN i = x ELSE i \in 2 * x - 1 .. 2 * x + 1
                 /\ r \in 2 * y - 1 .. 2 * y + 1
      BY <1>7, <2>1 DEF Beside
    <3>2. Holds(c, a)
            = Sample(of, (c.crop.x \div across + i) * across, PlaneRow(c, 1, r) * 1, across, 1)
      BY <1>2, <3>1
    <3>3. IF across = 2 THEN i = x ELSE i \in 2 * x - 1 .. 2 * x + 1
      <4>1. CASE across = 2
        BY <1>5, <3>1, <4>1
      <4>2. CASE across # 2
        <5>. HIDE DEF w, across
        <5>1. CASE w = v.w
          <6>1. w = 1 /\ c.crop.w = 1
            BY <1>3, <1>4, <1>5, <4>2, <5>1
          <6>. QED  BY <2>1, <3>1, <4>2, <5>1, <6>1
        <5>2. CASE w # v.w
          BY <3>1, <4>2, <5>2
        <5>. QED  BY <5>1, <5>2
      <4>. QED  BY <4>1, <4>2
    <3>4. i \in 0 .. CropColumns(c, across) - 1 /\ r \in 0 .. CropRows(c, 1) - 1
      BY <1>2 DEF CropRows
    <3>. HIDE DEF across
    <3>5. 1 \in {1, 2} /\ of \in {of, "RGB"}
      OBVIOUS
    <3>6. Belongs(c, Sample(of, (c.crop.x \div across + i) * across, PlaneRow(c, 1, r) * 1, across, 1),
                  of, x, y)
      <4>1. Placed(c, across, 1, i, r, x, y)
        BY <1>1, <2>1, <3>1, <3>3, <3>4, <3>5 DEF Placed
      <4>2. Belongs(c, Spot(c, of, across, 1, i, r), of, x, y)
        BY <3>5, <4>1, SampleBelongs
      <4>. QED  BY <4>2 DEF Spot
    <3>. QED  BY <3>2, <3>6
  <2>. QED  BY <2>2, <2>3
<1>. QED  BY <1>7, <1>8 DEF Beside, UprightChroma, p, v, of

-----------------------------------------------------------------------------
(* The conversion of every format, but for the rotation. *)

(* The planes of the formats with two of them, in the order of the frame. *)
LEMMA FramePlanes ==
  ASSUME NEW c \in Conversions, Valid(c)
  PROVE  /\ c.format \in {"I420", "YV12"} =>
              Inverted(Halves(c)[1]) = PlaneView(c, 0) /\ Inverted(Halves(c)[2]) = PlaneView(c, 1)
         /\ c.format \in {"I422", "YV16"} =>
              Inverted(Wide(c, 2)[1]) = PlaneView(c, 0) /\ Inverted(Wide(c, 2)[2]) = PlaneView(c, 1)
         /\ c.format \in {"I444", "YV24"} =>
              Inverted(Wide(c, 1)[1]) = PlaneView(c, 0) /\ Inverted(Wide(c, 1)[2]) = PlaneView(c, 1)
<1>0. c.crop.y \div 1 = c.crop.y
  BY CallFacts
<1>1. ASSUME c.format \in {"I420", "YV12"}
      PROVE  Inverted(Halves(c)[1]) = PlaneView(c, 0) /\ Inverted(Halves(c)[2]) = PlaneView(c, 1)
  <2>1. Across(c) = 2 /\ Down(c) = 2
    BY <1>1 DEF Across, Down
  <2>. QED  BY <2>1 DEF Halves, PlaneView, CropView, PlaneColumns, PlaneRows
<1>2. ASSUME c.format \in {"I422", "YV16"}
      PROVE  Inverted(Wide(c, 2)[1]) = PlaneView(c, 0) /\ Inverted(Wide(c, 2)[2]) = PlaneView(c, 1)
  <2>1. Across(c) = 2 /\ Down(c) = 1
    BY <1>2 DEF Across, Down
  <2>. QED  BY <1>0, <2>1 DEF Wide, PlaneView, CropView, PlaneColumns, PlaneRows
<1>3. ASSUME c.format \in {"I444", "YV24"}
      PROVE  Inverted(Wide(c, 1)[1]) = PlaneView(c, 0) /\ Inverted(Wide(c, 1)[2]) = PlaneView(c, 1)
  <2>1. Across(c) = 1 /\ Down(c) = 1
    BY <1>3 DEF Across, Down
  <2>. QED  BY <1>0, <2>1 DEF Wide, PlaneView, CropView, PlaneColumns, PlaneRows
<1>. QED  BY <1>1, <1>2, <1>3

(* A format rotated in one pass is right but for the rotation, and rotated. *)
LEMMA OnePassTurned ==
  ASSUME NEW c \in Conversions, Valid(c), c.format \in OnePass
  PROVE  \E q : Upright(c, q) /\ TurnedFrom(c, q, Converted(c))
<1> DEFINE y == CopyPlane(Inverted(Luma(c)))
<1>1. UprightLuma(c, y)
  BY LumaUpright DEF OnePass
<1>2. ASSUME NEW l, NEW u, NEW v, NEW mode
      PROVE  Rotated(l, u, v, mode)
               = I420(RotatePlane(CopyPlane(Inverted(l)), mode), RotatePlane(CopyPlane(Inverted(u)), mode),
                      RotatePlane(CopyPlane(Inverted(v)), mode))
  BY DEF Rotated
<1>3. ASSUME NEW u, NEW v, UprightChroma(c, u, "U"), UprightChroma(c, v, "V"),
             Converted(c) = I420(RotatePlane(y, c.rotation), RotatePlane(u, c.rotation),
                                 RotatePlane(v, c.rotation))
      PROVE  \E q : Upright(c, q) /\ TurnedFrom(c, q, Converted(c))
  <2> DEFINE q == I420(y, u, v)
  <2>1. q.Y = y /\ q.U = u /\ q.V = v
    BY DEF I420
  <2>. HIDE DEF q, y
  <2>2. Upright(c, q)
    BY <1>1, <1>3, <2>1 DEF Upright
  <2>3. TurnedFrom(c, q, Converted(c))
    BY <1>3, <2>1 DEF TurnedFrom, I420
  <2>. QED  BY <2>2, <2>3
<1>4. CASE c.format \in {"NV12", "NV21"}
  <2> DEFINE area == c.width * AbsHeight(c)
             half(f) == CropView(c, area + f, AlignedWidth(c), 2, 2, 2)
  <2>1. UprightChroma(c, CopyPlane(half(0)), Kinds[c.format][1])
        /\ UprightChroma(c, CopyPlane(half(1)), Kinds[c.format][2])
    <3>1. 0 \in {0, 1} /\ 1 \in {0, 1} /\ 0 + 1 = 1 /\ 1 + 1 = 2
      OBVIOUS
    <3>2. UprightChroma(c, CopyPlane(half(0)), Kinds[c.format][0 + 1])
      BY <1>4, <3>1, BiplanarUpright
    <3>3. UprightChroma(c, CopyPlane(half(1)), Kinds[c.format][1 + 1])
      BY <1>4, <3>1, BiplanarUpright
    <3>. QED  BY <3>1, <3>2, <3>3
  <2>2. ASSUME NEW f \in {0, 1}
        PROVE  Biplanar(c, f) = I420(RotatePlane(y, c.rotation),
                                     RotatePlane(CopyPlane(half(f)), c.rotation),
                                     RotatePlane(CopyPlane(half(1 - f)), c.rotation))
    BY DEF Biplanar, Rotated, CropView
  <2>. HIDE DEF half, y
  <2>3. CASE c.format = "NV12"
    <3>1. Converted(c) = Biplanar(c, 0) /\ Kinds[c.format] = <<"U", "V">> /\ 1 - 0 = 1
      BY <2>3, KindsFacts DEF Converted, Planar
    <3>. QED  BY <1>3, <2>1, <2>2, <3>1
  <2>4. CASE c.format = "NV21"
    <3>1. Converted(c) = Biplanar(c, 1) /\ Kinds[c.format] = <<"V", "U">> /\ 1 - 1 = 0
      BY <2>4, KindsFacts DEF Converted, Planar
    <3>. QED  BY <1>3, <2>1, <2>2, <3>1
  <2>. QED  BY <1>4, <2>3, <2>4
<1>5. CASE c.format \in {"I420", "YV12"}
  <2>1. /\ UprightChroma(c, CopyPlane(Inverted(Halves(c)[1])), Kinds[c.format][1])
        /\ UprightChroma(c, CopyPlane(Inverted(Halves(c)[2])), Kinds[c.format][2])
    <3>1. 0 \in {0, 1} /\ 1 \in {0, 1} /\ 0 + 1 = 1 /\ 1 + 1 = 2
      OBVIOUS
    <3>2. UprightChroma(c, CopyPlane(PlaneView(c, 0)), Kinds[c.format][0 + 1])
      BY <1>5, <3>1, HalvesUpright
    <3>3. UprightChroma(c, CopyPlane(PlaneView(c, 1)), Kinds[c.format][1 + 1])
      BY <1>5, <3>1, HalvesUpright
    <3>. QED  BY <1>5, <3>1, <3>2, <3>3, FramePlanes
  <2>2. CASE c.format = "I420"
    <3>1. Converted(c) = Rotated(Luma(c), Halves(c)[1], Halves(c)[2], c.rotation)
          /\ Kinds[c.format] = <<"U", "V">>
      BY <2>2, KindsFacts DEF Converted, Planar
    <3>. QED  BY <1>2, <1>3, <2>1, <3>1
  <2>3. CASE c.format = "YV12"
    <3>1. Converted(c) = Rotated(Luma(c), Halves(c)[2], Halves(c)[1], c.rotation)
          /\ Kinds[c.format] = <<"V", "U">>
      BY <2>3, KindsFacts DEF Converted, Planar
    <3>. QED  BY <1>2, <1>3, <2>1, <3>1
  <2>. QED  BY <1>5, <2>2, <2>3
<1>. QED  BY <1>4, <1>5 DEF OnePass

(* The other formats are right, and not rotated yet. *)
LEMMA ConvertedUpright ==
  ASSUME NEW c \in Conversions, Valid(c), c.format \notin OnePass
  PROVE  Upright(c, Converted(c))
<1>1. c.format \in Formats
  BY CallFacts
<1>2. CASE c.format = "YUY2"
  <2> DEFINE luma == 0
  <2>1. Converted(c) = FromPairs(PairView(c), luma, 1 - luma)
    BY <1>2 DEF Converted
  <2>2. luma \in {0, 1} /\ c.format = (IF luma = 0 THEN "YUY2" ELSE "UYVY")
    BY <1>2
  <2>. HIDE DEF luma
  <2>. QED  BY <2>1, <2>2, PairsUpright
<1>3. CASE c.format = "UYVY"
  <2> DEFINE luma == 1
  <2>1. Converted(c) = FromPairs(PairView(c), luma, 1 - luma)
    BY <1>3 DEF Converted
  <2>2. luma \in {0, 1} /\ c.format = (IF luma = 0 THEN "YUY2" ELSE "UYVY")
    BY <1>3
  <2>. HIDE DEF luma
  <2>. QED  BY <2>1, <2>2, PairsUpright
<1>4. CASE c.format = "RGB"
  <2>1. Converted(c) = FromPixels(Inverted(Luma(c)))
    BY <1>4 DEF Converted
  <2>. QED  BY <1>4, <2>1, PixelsUpright
<1>5. CASE c.format = "I400"
  <2>1. Converted(c) = FromGrey(Inverted(Luma(c)))
    BY <1>5 DEF Converted
  <2>. QED  BY <1>5, <2>1, GreyUpright
<1>6. CASE Scales(c)
  <2> DEFINE y == CopyPlane(Inverted(Luma(c)))
             w == HalfUp(c.crop.w)
             h == HalfUp(AbsOf(c.crop.h))
             half(k) == ScalePlane(PlaneView(c, k), w, h)
  <2>1. UprightLuma(c, y)
    BY <1>6, LumaUpright DEF Scales
  <2>2. UprightChroma(c, half(0), Kinds[c.format][1]) /\ UprightChroma(c, half(1), Kinds[c.format][2])
    <3>1. 0 \in {0, 1} /\ 1 \in {0, 1} /\ 0 + 1 = 1 /\ 1 + 1 = 2
      OBVIOUS
    <3>2. UprightChroma(c, half(0), Kinds[c.format][0 + 1])
      BY <1>6, <3>1, WideUpright
    <3>3. UprightChroma(c, half(1), Kinds[c.format][1 + 1])
      BY <1>6, <3>1, WideUpright
    <3>. QED  BY <3>1, <3>2, <3>3
  <2>3. ASSUME NEW u, NEW v
        PROVE  Scaled(Luma(c), u, v) = I420(y, ScalePlane(Inverted(u), w, h), ScalePlane(Inverted(v), w, h))
    <3>1. Luma(c).w = c.crop.w /\ AbsOf(Luma(c).h) = AbsOf(c.crop.h)
      BY InvCropFacts DEF Luma, View
    <3>. QED  BY <3>1 DEF Scaled
  <2>. HIDE DEF y, w, h
  <2>4. Converted(c) = IF c.format \in {"I422", "I444"} THEN I420(y, half(0), half(1))
                       ELSE I420(y, half(1), half(0))
    <3>1. CASE c.format \in {"I422", "YV16"}
      <4>1. Converted(c) = IF c.format = "I422" THEN Scaled(Luma(c), Wide(c, 2)[1], Wide(c, 2)[2])
                           ELSE Scaled(Luma(c), Wide(c, 2)[2], Wide(c, 2)[1])
        BY <3>1 DEF Converted
      <4>2. Inverted(Wide(c, 2)[1]) = PlaneView(c, 0) /\ Inverted(Wide(c, 2)[2]) = PlaneView(c, 1)
        BY <3>1, FramePlanes
      <4>. QED  BY <2>3, <3>1, <4>1, <4>2
    <3>2. CASE c.format \in {"I444", "YV24"}
      <4>1. Converted(c) = IF c.format = "I444" THEN Scaled(Luma(c), Wide(c, 1)[1], Wide(c, 1)[2])
                           ELSE Scaled(Luma(c), Wide(c, 1)[2], Wide(c, 1)[1])
        BY <3>2 DEF Converted
      <4>2. Inverted(Wide(c, 1)[1]) = PlaneView(c, 0) /\ Inverted(Wide(c, 1)[2]) = PlaneView(c, 1)
        BY <3>2, FramePlanes
      <4>. QED  BY <2>3, <3>2, <4>1, <4>2
    <3>. QED  BY <1>6, <3>1, <3>2 DEF Scales
  <2>. HIDE DEF half
  <2>5. ASSUME NEW u, NEW v PROVE I420(y, u, v).Y = y /\ I420(y, u, v).U = u /\ I420(y, u, v).V = v
    BY DEF I420
  <2>6. CASE c.format \in {"I422", "I444"}
    <3>1. Kinds[c.format][1] = "U" /\ Kinds[c.format][2] = "V"
      BY <2>6, KindsFacts DEF Planar
    <3>. QED  BY <2>1, <2>2, <2>4, <2>5, <2>6, <3>1 DEF Upright
  <2>7. CASE c.format \in {"YV16", "YV24"}
    <3>1. Kinds[c.format][1] = "V" /\ Kinds[c.format][2] = "U"
      BY <2>7, KindsFacts DEF Planar
    <3>. QED  BY <2>1, <2>2, <2>4, <2>5, <2>7, <3>1 DEF Upright
  <2>. QED  BY <1>6, <2>6, <2>7 DEF Scales
<1>. QED  BY <1>1, <1>2, <1>3, <1>4, <1>5, <1>6 DEF Formats, OnePass, Scales

(* There are three planes. *)
LEMMA ThreePlanes ==
  ASSUME NEW c \in Conversions, Valid(c)
  PROVE  DOMAIN Converted(c) = {"Y", "U", "V"}
<1>1. c.format \in Formats
  BY CallFacts
<1>2. ASSUME NEW y, NEW u, NEW v PROVE DOMAIN I420(y, u, v) = {"Y", "U", "V"}
  BY DEF I420
<1>3. ASSUME NEW v, NEW luma, NEW u PROVE DOMAIN FromPairs(v, luma, u) = {"Y", "U", "V"}
  BY <1>2 DEF FromPairs
<1>4. ASSUME NEW v PROVE DOMAIN FromPixels(v) = {"Y", "U", "V"} /\ DOMAIN FromGrey(v) = {"Y", "U", "V"}
  <2>1. DOMAIN FromGrey(v) = {"Y", "U", "V"}
    BY <1>2 DEF FromGrey
  <2>2. DOMAIN FromPixels(v) = {"Y", "U", "V"}
    BY DEF FromPixels, I420, Plane
  <2>. QED  BY <2>1, <2>2
<1>5. ASSUME NEW y, NEW u, NEW v, NEW mode PROVE DOMAIN Rotated(y, u, v, mode) = {"Y", "U", "V"}
  BY <1>2 DEF Rotated
<1>6. ASSUME NEW y, NEW u, NEW v PROVE DOMAIN Scaled(y, u, v) = {"Y", "U", "V"}
  BY <1>2 DEF Scaled
<1>7. ASSUME NEW u PROVE DOMAIN Biplanar(c, u) = {"Y", "U", "V"}
  BY <1>5 DEF Biplanar
<1>8. CASE c.format \in {"YUY2", "UYVY", "RGB", "I400", "NV12", "NV21"}
  BY <1>3, <1>4, <1>7, <1>8 DEF Converted
<1>9. CASE c.format \in {"I420", "YV12", "I422", "YV16", "I444", "YV24"}
  BY <1>5, <1>6, <1>9 DEF Converted
<1>. QED  BY <1>1, <1>8, <1>9 DEF Formats

-----------------------------------------------------------------------------
(* The call. *)

(* The buffer is right but for the rotation; at the end the rotation is done. *)
YuvInv ==
    /\ conversion \in Conversions
    /\ progress = "buffered" =>
         Valid(conversion) /\ DOMAIN planes = {"Y", "U", "V"} /\ Upright(conversion, planes)
    /\ progress = "done" =>
         Valid(conversion) /\ \E q : Upright(conversion, q) /\ TurnedFrom(conversion, q, planes)

(* Without a rotation the planes stay as they are. *)
LEMMA NotTurned ==
  ASSUME NEW c, c.rotation = 0, NEW q, NEW p
  PROVE  TurnedFrom(c, q, p) <=> p.Y = q.Y /\ p.U = q.U /\ p.V = q.V
BY DEF TurnedFrom, RotatePlane

(* Convert: what is rotated already goes into a buffer only when there is     *)
(* nothing to rotate.                                                       *)
LEMMA ConvertInv ==
  ASSUME YuvInv, Convert
  PROVE  YuvInv'
<1> DEFINE c == conversion
           p == Converted(c)
<1>1. c \in Conversions /\ Valid(c) /\ conversion' = conversion /\ planes' = p
      /\ progress' = IF NeedBuf(c) THEN "buffered" ELSE "done"
  BY DEF YuvInv, Convert
<1>2. DOMAIN p = {"Y", "U", "V"}
  BY <1>1, ThreePlanes
<1>3. c.inPlace => c.rotation = 0 \/ c.format \notin OnePass
  BY <1>1, CallFacts DEF Fits
<1>. HIDE DEF p
<1>4. CASE c.format \in OnePass
  <2>1. PICK q : Upright(c, q) /\ TurnedFrom(c, q, p)
    BY <1>1, <1>4, OnePassTurned DEF p
  <2>2. CASE NeedBuf(c)
    <3>1. c.rotation = 0
      BY <1>3, <1>4, <2>2 DEF NeedBuf
    <3>2. Upright(c, p)
      BY <2>1, <3>1, NotTurned DEF Upright
    <3>. QED  BY <1>1, <1>2, <2>2, <3>2 DEF YuvInv
  <2>3. CASE ~NeedBuf(c)
    BY <1>1, <2>1, <2>3 DEF YuvInv
  <2>. QED  BY <2>2, <2>3
<1>5. CASE c.format \notin OnePass
  <2>1. Upright(c, p)
    BY <1>1, <1>5, ConvertedUpright DEF p
  <2>2. CASE NeedBuf(c)
    BY <1>1, <1>2, <2>1, <2>2 DEF YuvInv
  <2>3. CASE ~NeedBuf(c)
    <3>1. c.rotation = 0
      BY <1>5, <2>3 DEF NeedBuf
    <3>2. TurnedFrom(c, p, p)
      BY <3>1, NotTurned
    <3>. QED  BY <1>1, <2>1, <2>3, <3>2 DEF YuvInv
  <2>. QED  BY <2>2, <2>3
<1>. QED  BY <1>4, <1>5

(* RotateBuffer turns the buffer. *)
LEMMA RotateBufferInv ==
  ASSUME YuvInv, RotateBuffer
  PROVE  YuvInv'
<1>1. /\ conversion \in Conversions /\ Valid(conversion) /\ DOMAIN planes = {"Y", "U", "V"}
      /\ Upright(conversion, planes) /\ conversion' = conversion /\ progress' = "done"
      /\ planes' = [p \in DOMAIN planes |-> RotatePlane(planes[p], conversion.rotation)]
  BY DEF YuvInv, RotateBuffer
<1>2. TurnedFrom(conversion, planes, planes')
  BY <1>1 DEF TurnedFrom
<1>. QED  BY <1>1, <1>2 DEF YuvInv

(* Whatever the format, the size, the crop, the flip and the rotation: every  *)
(* pixel of the result shows the pixel that belongs there, with chroma of its *)
(* neighbourhood (ConvertToI420).                                           *)
THEOREM PictureRight == YuvSpec => []PictureConverted
<1>1. YuvInit => YuvInv
  BY DEF YuvInit, YuvInv
<1>2. YuvInv /\ [YuvNext]_yvars => YuvInv'
  <2>. SUFFICES ASSUME YuvInv, [YuvNext]_yvars PROVE YuvInv'
    OBVIOUS
  <2>1. CASE Refuse
    BY <2>1 DEF Refuse, YuvInv
  <2>2. CASE Convert
    BY <2>2, ConvertInv
  <2>3. CASE RotateBuffer
    BY <2>3, RotateBufferInv
  <2>4. CASE UNCHANGED yvars
    BY <2>4 DEF yvars, YuvInv
  <2>. QED  BY <2>1, <2>2, <2>3, <2>4 DEF YuvNext
<1>3. YuvInv => PictureConverted
  BY TurnedRight DEF YuvInv, PictureConverted
<1>. QED  BY <1>1, <1>2, <1>3, PTL DEF YuvSpec
=============================================================================
