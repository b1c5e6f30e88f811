----------------------------- MODULE Views_proofs -----------------------------
(***************************************************************************)
(* Theorems of the two views that fit a picture into the space they get,    *)
(* for every size of parents, cameras and videos.                           *)
(***************************************************************************)
EXTENDS AutoFitSurfaceView, NiceTextureView, TLAPS

(* What is needed of products and quotients: the proofs do not look inside. *)
LEMMA DivFacts ==
  ASSUME NEW a \in Nat, NEW b \in Nat \ {0}
  PROVE  a \div b \in Nat /\ (a \div b) * b <= a /\ a < (a \div b) * b + b
OBVIOUS

(* A common factor is cancelled.                                           *)
LEMMA Cancel ==
  ASSUME NEW a \in Int, NEW b \in Int, NEW c \in Nat \ {0}, a * c < b * c
  PROVE  a < b
OBVIOUS

(* A product of sides is one.                                              *)
LEMMA Product ==
  ASSUME NEW a \in Nat, NEW b \in Nat
  PROVE  a * b \in Nat /\ a * b = b * a
OBVIOUS

(* A longer side makes a larger area.                                      *)
LEMMA Area ==
  ASSUME NEW a \in Nat, NEW b \in Nat, NEW c \in Nat, a <= b
  PROVE  a * c <= b * c
OBVIOUS

-----------------------------------------------------------------------------
(* NiceTextureView.                                                        *)

(* A side a is scaled by b to c, truncating: it is the longest that does    *)
(* not exceed the proportions.                                              *)
LEMMA Truncated ==
  ASSUME NEW a \in Nat, NEW b \in Nat \ {0}, NEW c \in Nat
  PROVE  LET q == (c * a) \div b IN
           /\ q \in Nat
           /\ q * b <= c * a /\ c * a < q * b + b
           /\ \A x \in Nat : c * a <= x * b => q <= x
           /\ \A x \in Nat : q > x => x * b < c * a
<1>. DEFINE q == (c * a) \div b
<1>1. q \in Nat /\ q * b <= c * a /\ c * a < q * b + b
  BY DivFacts, Product
<1>2. ASSUME NEW x \in Nat, q > x PROVE x * b < c * a
  <2>1. (x + 1) * b <= q * b
    BY <1>1, <1>2, Area
  <2>2. (x + 1) * b = x * b + b
    OBVIOUS
  <2>3. x * b \in Nat /\ q * b \in Nat /\ c * a \in Nat
    BY <1>1, Product
  <2>. HIDE DEF q
  <2>. QED  BY <1>1, <2>1, <2>2, <2>3
<1>3. ASSUME NEW x \in Nat, c * a <= x * b PROVE q <= x
  <2>1. x * b \in Nat /\ c * a \in Nat
    BY Product
  <2>. HIDE DEF q
  <2>. QED  BY <1>1, <1>2, <1>3, <2>1
<1>. QED  BY <1>1, <1>2, <1>3

(* A size whose sides the player reports or a parent asks for.             *)
Sized(s) == s.w \in Nat \ {0} /\ s.h \in Nat \ {0}

(* The height is given: the width is within every width that is broader.    *)
LEMMA HeightKept ==
  ASSUME NEW s, Sized(s), NEW h \in Nat \ {0}
  PROVE  /\ WithHeight(s, h).w \in Nat /\ WithHeight(s, h).h = h
         /\ Undistorted(WithHeight(s, h), s)
         /\ \A x \in Nat : h * s.w <= x * s.h => WithHeight(s, h).w <= x
         /\ \A x \in Nat : WithHeight(s, h).w > x => x * s.h < h * s.w
<1>. DEFINE q == (h * s.w) \div s.h
<1>1. /\ q \in Nat
      /\ q * s.h <= h * s.w /\ h * s.w < q * s.h + s.h
      /\ \A x \in Nat : h * s.w <= x * s.h => q <= x
      /\ \A x \in Nat : q > x => x * s.h < h * s.w
  BY Truncated DEF Sized
<1>2. WithHeight(s, h) = [w |-> q, h |-> h]
  BY DEF WithHeight
<1>3. q * s.h \in Nat /\ h * s.w \in Nat
  BY <1>1, Product DEF Sized
<1>. HIDE DEF q
<1>4. Undistorted(WithHeight(s, h), s)
  BY <1>1, <1>2, <1>3 DEF Undistorted, Sized
<1>. QED  BY <1>1, <1>2, <1>4

(* The width is given.                                                     *)
LEMMA WidthKept ==
  ASSUME NEW s, Sized(s), NEW w \in Nat \ {0}
  PROVE  /\ WithWidth(s, w).h \in Nat /\ WithWidth(s, w).w = w
         /\ Undistorted(WithWidth(s, w), s)
         /\ \A x \in Nat : w * s.h <= x * s.w => WithWidth(s, w).h <= x
         /\ \A x \in Nat : WithWidth(s, w).h > x => x * s.w < w * s.h
<1>. DEFINE q == (w * s.h) \div s.w
<1>1. /\ q \in Nat
      /\ q * s.w <= w * s.h /\ w * s.h < q * s.w + s.w
      /\ \A x \in Nat : w * s.h <= x * s.w => q <= x
      /\ \A x \in Nat : q > x => x * s.w < w * s.h
  BY Truncated DEF Sized
<1>2. WithWidth(s, w) = [w |-> w, h |-> q]
  BY DEF WithWidth
<1>3. q * s.w \in Nat /\ w * s.h \in Nat
  BY <1>1, Product DEF Sized
<1>. HIDE DEF q
<1>4. Undistorted(WithWidth(s, w), s)
  BY <1>1, <1>2, <1>3 DEF Undistorted, Sized
<1>. QED  BY <1>1, <1>2, <1>4

(* What TextureFits says of a size m measured for a video of size s.        *)
Fits(m, s, w, h) ==
  /\ w.mode # "UNSPECIFIED" => m.w <= w.size
  /\ h.mode # "UNSPECIFIED" => m.h <= h.size
  /\ m = s \/ m.w = w.size \/ m.h = h.size
  /\ Undistorted(m, s)

(* What a parent asks of one side. *)
Asks(x) == x.mode \in Modes /\ x.size \in Nat \ {0}

(* Every branch of onMeasure fits the video into what the parent allows.    *)
LEMMA FitVideoFits ==
  ASSUME NEW s, Sized(s), NEW w, Asks(w), NEW h, Asks(h)
  PROVE  Fits(FitVideo(s, w, h), s, w, h)
<1>0. /\ s # NoVideo /\ s.w \in Nat \ {0} /\ s.h \in Nat \ {0}
      /\ w.size \in Nat \ {0} /\ h.size \in Nat \ {0}
      /\ w.mode \in Modes /\ h.mode \in Modes
  BY DEF NoVideo, Sized, Asks
<1>01. /\ s.w * h.size \in Nat /\ w.size * s.h \in Nat
       /\ s.w * h.size = h.size * s.w
       /\ \A x \in Nat : x * s.h \in Nat /\ x * s.w \in Nat
  BY <1>0, Product
<1>1. CASE Exact(w) /\ Exact(h)
  <2>1. FitVideo(s, w, h) = FitExactly(s, w, h)
    BY <1>0, <1>1 DEF FitVideo
  <2>2. CASE Slimmer(s, w, h)
    <3>0. ~Broader(s, w, h)
      BY <1>01, <2>2 DEF Slimmer, Broader
    <3>1. FitExactly(s, w, h) = WithHeight(s, h.size)
      BY <2>2, <3>0 DEF FitExactly
    <3>2. h.size * s.w <= w.size * s.h
      BY <1>01, <2>2 DEF Slimmer
    <3>. QED  BY <1>0, <2>1, <3>1, <3>2, HeightKept DEF Fits
  <2>3. CASE Broader(s, w, h) /\ ~Slimmer(s, w, h)
    <3>1. FitExactly(s, w, h) = WithWidth(s, w.size)
      BY <2>3 DEF FitExactly
    <3>2. w.size * s.h <= h.size * s.w
      BY <1>01, <2>3 DEF Broader
    <3>. QED  BY <1>0, <2>1, <3>1, <3>2, WidthKept DEF Fits
  <2>4. CASE ~Broader(s, w, h) /\ ~Slimmer(s, w, h)
    <3>1. FitExactly(s, w, h) = [w |-> w.size, h |-> h.size]
      BY <2>4 DEF FitExactly
    <3>2. w.size * s.h = h.size * s.w
      BY <1>01, <2>4 DEF Broader, Slimmer
    <3>3. Undistorted([w |-> w.size, h |-> h.size], s)
      BY <1>0, <1>01, <3>2 DEF Undistorted
    <3>. QED  BY <1>0, <2>1, <3>1, <3>3 DEF Fits
  <2>. QED  BY <2>2, <2>3, <2>4
<1>2. CASE Exact(w) /\ ~Exact(h)
  <2>. DEFINE m == WithWidth(s, w.size)
  <2>1. FitVideo(s, w, h) = CutHeight(s, m, h)
    BY <1>0, <1>2 DEF FitVideo
  <2>2. CASE TooLong(m.h, h)
    <3>1. CutHeight(s, m, h) = WithHeight(s, h.size)
      BY <2>2 DEF CutHeight
    <3>2. h.size * s.w <= w.size * s.h
      BY <1>0, <1>01, <2>2, WidthKept DEF TooLong
    <3>. QED  BY <1>0, <2>1, <3>1, <3>2, HeightKept DEF Fits
  <2>3. CASE ~TooLong(m.h, h)
    <3>1. CutHeight(s, m, h) = m
      BY <2>3 DEF CutHeight
    <3>2. h.mode # "UNSPECIFIED" => m.h <= h.size
      BY <1>0, <1>2, <2>3, WidthKept DEF TooLong, Exact, Modes
    <3>. QED  BY <1>0, <2>1, <3>1, <3>2, WidthKept DEF Fits
  <2>. QED  BY <2>2, <2>3
<1>3. CASE ~Exact(w) /\ Exact(h)
  <2>. DEFINE m == WithHeight(s, h.size)
  <2>1. FitVideo(s, w, h) = CutWidth(s, m, w)
    BY <1>0, <1>3 DEF FitVideo
  <2>2. CASE TooLong(m.w, w)
    <3>1. CutWidth(s, m, w) = WithWidth(s, w.size)
      BY <2>2 DEF CutWidth
    <3>2. w.size * s.h <= h.size * s.w
      BY <1>0, <1>01, <2>2, HeightKept DEF TooLong
    <3>. QED  BY <1>0, <2>1, <3>1, <3>2, WidthKept DEF Fits
  <2>3. CASE ~TooLong(m.w, w)
    <3>1. CutWidth(s, m, w) = m
      BY <2>3 DEF CutWidth
    <3>2. w.mode # "UNSPECIFIED" => m.w <= w.size
      BY <1>0, <1>3, <2>3, HeightKept DEF TooLong, Exact, Modes
    <3>. QED  BY <1>0, <2>1, <3>1, <3>2, HeightKept DEF Fits
  <2>. QED  BY <2>2, <2>3
<1>4. CASE ~Exact(w) /\ ~Exact(h)
  <2>. DEFINE m == CutHeight(s, s, h)
  <2>1. FitVideo(s, w, h) = CutWidth(s, m, w)
    BY <1>0, <1>4 DEF FitVideo
  <2>2. /\ m.w \in Nat /\ m.h \in Nat
        /\ h.mode # "UNSPECIFIED" => m.h <= h.size
        /\ m = s \/ m.h = h.size
        /\ Undistorted(m, s)
        /\ \A x \in Nat : m.w > x => x * s.h <= m.h * s.w
    <3>1. CASE TooLong(s.h, h)
      <4>1. m = WithHeight(s, h.size)
        BY <3>1 DEF CutHeight
      <4>2. \A x \in Nat : m.w > x => x * s.h < m.h * s.w
        BY <1>0, <4>1, HeightKept
      <4>3. m.w \in Nat /\ m.h = h.size /\ Undistorted(m, s)
        BY <1>0, <4>1, HeightKept
      <4>4. \A x \in Nat : m.w > x => x * s.h <= m.h * s.w
        BY <1>0, <1>01, <4>2, <4>3
      <4>. QED  BY <1>0, <4>3, <4>4
    <3>2. CASE ~TooLong(s.h, h)
      <4>1. m = s
        BY <3>2 DEF CutHeight
      <4>2. h.mode # "UNSPECIFIED" => m.h <= h.size
        BY <1>0, <1>4, <3>2, <4>1 DEF TooLong, Exact, Modes
      <4>3. Undistorted(s, s)
        BY <1>0, Product DEF Undistorted
      <4>4. ASSUME NEW x \in Nat, m.w > x PROVE x * s.h <= m.h * s.w
        BY <1>0, <4>1, <4>4, Area, Product
      <4>. QED  BY <1>0, <4>1, <4>2, <4>3, <4>4
    <3>. QED  BY <3>1, <3>2
  <2>. HIDE DEF m
  <2>3. CASE TooLong(m.w, w)
    <3>1. CutWidth(s, m, w) = WithWidth(s, w.size)
      BY <2>3 DEF CutWidth
    <3>2. w.size * s.h <= m.h * s.w
      BY <1>0, <2>2, <2>3 DEF TooLong
    <3>3. WithWidth(s, w.size).h <= m.h
      BY <1>0, <2>2, <3>2, WidthKept
    <3>4. h.mode # "UNSPECIFIED" => WithWidth(s, w.size).h <= h.size
      BY <1>0, <2>2, <3>3, WidthKept
    <3>. QED  BY <1>0, <2>1, <3>1, <3>4, WidthKept DEF Fits
  <2>4. CASE ~TooLong(m.w, w)
    <3>1. CutWidth(s, m, w) = m
      BY <2>4 DEF CutWidth
    <3>2. w.mode # "UNSPECIFIED" => m.w <= w.size
      BY <1>0, <1>4, <2>2, <2>4 DEF TooLong, Exact, Modes
    <3>. QED  BY <2>1, <2>2, <3>1, <3>2 DEF Fits
  <2>. QED  BY <2>3, <2>4
<1>. QED  BY <1>1, <1>2, <1>3, <1>4

(* A view that is laid out has the size onMeasure finds for the video and   *)
(* the parent it has now.                                                   *)
TextureInv ==
  /\ tv.size \in VideoSizes \cup {NoVideo} /\ tv = [size |-> tv.size, across |-> tv.across]
  /\ asks \in [w : Specs, h : Specs]
  /\ ~due => measured = OnMeasure

(* Every change of what it depends on asks for a layout.                    *)
LEMMA TextureStep == TextureInv /\ [TextureViewNext]_tvars => TextureInv'
<1>. SUFFICES ASSUME TextureInv, [TextureViewNext]_tvars PROVE TextureInv'
  OBVIOUS
<1>. USE DEF TextureInv
<1>1. CASE TextureTraversal
  BY <1>1 DEF TextureTraversal, OnMeasure
<1>2. ASSUME NEW s \in VideoSizes, AdaptVideoSize(s) PROVE TextureInv'
  BY <1>2 DEF AdaptVideoSize, OnMeasure
<1>3. CASE SetRotation
  BY <1>3 DEF SetRotation
<1>4. CASE Reparent
  BY <1>4 DEF Reparent
<1>5. CASE UNCHANGED tvars
  BY <1>5 DEF tvars, OnMeasure
<1>. QED  BY <1>1, <1>2, <1>3, <1>4, <1>5 DEF TextureViewNext

(* Through every move to another parent, turn and change of video the       *)
(* texture view that is laid out keeps within what its parent allows,       *)
(* reaches a limit or has the video's own size, and has the proportions of  *)
(* the video but for a truncated pixel (NiceTextureView.onMeasure).         *)
THEOREM TextureKeepsProportions == TextureViewSpec => []TextureFits
<1>1. TextureViewInit => TextureInv
  BY DEF TextureViewInit, TextureInv
<1>2. TextureInv => TextureFits
  <2>. SUFFICES ASSUME TextureInv, Drawn PROVE TextureFits
    BY DEF TextureFits
  <2>1. /\ tv.size \in VideoSizes /\ measured = OnMeasure
        /\ asks.w \in Specs /\ asks.h \in Specs
    BY DEF Drawn, TextureInv
  <2>2. Sized(tv.size) /\ Asks(asks.w) /\ Asks(asks.h)
    BY <2>1, TextureViewSizes DEF Sized, Asks
  <2>3. measured = FitVideo(tv.size, Allowed.w, Allowed.h)
        /\ Asks(Allowed.w) /\ Asks(Allowed.h)
    BY <2>1, <2>2 DEF OnMeasure, Allowed
  <2>4. Fits(measured, tv.size, Allowed.w, Allowed.h)
    BY <2>2, <2>3, FitVideoFits
  <2>. QED  BY <2>4 DEF Fits, TextureFits
<1>. QED  BY <1>1, <1>2, TextureStep, PTL DEF TextureViewSpec

-----------------------------------------------------------------------------
(* AutoFitSurfaceView.                                                     *)

(* A rounded quotient: it does not cross a whole number the exact one does  *)
(* not cross.                                                               *)
LEMMA RoundedQuotient ==
  ASSUME NEW a \in Nat, NEW b \in Nat \ {0}, NEW k \in Rounded(a, b)
  PROVE  /\ k \in Nat
         /\ 2 * Distance(k * b, a) <= b
         /\ \A x \in Nat : a < x * b => k <= x
         /\ \A x \in Nat : a > x * b => k >= x
<1>. DEFINE q == a \div b
<1>1. q \in Nat /\ q * b <= a /\ a < q * b + b
  BY DivFacts
<1>2. k \in q..(q + 1) /\ 2 * Distance(k * b, a) <= b
  BY DEF Rounded
<1>3. q * b \in Nat /\ \A x \in Nat : x * b \in Nat
  BY <1>1, Product
<1>. HIDE DEF q
<1>4. ASSUME NEW x \in Nat, a < x * b PROVE k <= x
  <2>1. q * b < x * b
    BY <1>1, <1>3, <1>4
  <2>2. q < x
    BY <1>1, <2>1, Cancel
  <2>. QED  BY <1>1, <1>2, <2>2
<1>5. ASSUME NEW x \in Nat, a > x * b PROVE k >= x
  <2>1. x * b < (q + 1) * b
    BY <1>1, <1>3, <1>5
  <2>2. x < q + 1
    BY <1>1, <2>1, Cancel
  <2>. QED  BY <1>1, <1>2, <2>2
<1>. QED  BY <1>1, <1>2, <1>4, <1>5

(* What excess there is is cut, or what is missing is left, in equal halves *)
(* but for a pixel.                                                         *)
LEMMA Halves ==
  ASSUME NEW x \in Int
  PROVE  /\ Half(x) \in Int
         /\ x >= 0 => 0 <= Half(x) /\ Half(x) <= x
         /\ x <= 0 => Half(x) <= 0 /\ x <= Half(x)
         /\ -1 <= x - 2 * Half(x) /\ x - 2 * Half(x) <= 1
BY DEF Half

(* Size m has the proportions of picture a but for the rounding of one side. *)
Proportioned(a, m) ==
  \/ 2 * Distance(m.w * a.h, m.h * a.w) <= a.h
  \/ 2 * Distance(m.h * a.w, m.w * a.h) <= a.w

(* What setAspectRatio makes of a view of size o: it keeps one side, the    *)
(* other exceeds it when it fills and stays within it when it fits, and the *)
(* proportions are the picture's.                                           *)
LEMMA AspectFits ==
  ASSUME NEW fill \in BOOLEAN, NEW camera, Size(camera), NEW o, Size(o),
         NEW m \in AspectSizes(fill, camera, o)
  PROVE  /\ m.w \in Nat /\ m.h \in Nat
         /\ m.w = o.w \/ m.h = o.h
         /\ IF fill THEN m.w >= o.w /\ m.h >= o.h ELSE m.w <= o.w /\ m.h <= o.h
         /\ Proportioned(Turned(camera, o), m)
<1>. DEFINE a == Turned(camera, o)
            keepHeight == IF fill THEN Wider(a, o) ELSE Wider(o, a)
            keepWidth == IF fill THEN Wider(o, a) ELSE Wider(a, o)
<1>1. a.w \in Nat \ {0} /\ a.h \in Nat \ {0} /\ o.w \in Nat \ {0} /\ o.h \in Nat \ {0}
  BY DEF Turned, Size
<1>2. /\ o.h * a.w \in Nat /\ o.w * a.h \in Nat
      /\ o.h * a.w = a.w * o.h /\ o.w * a.h = a.h * o.w
  BY <1>1, Product
<1>3. m \in CASE keepHeight -> {[w |-> k, h |-> o.h] : k \in Rounded(o.h * a.w, a.h)}
             [] keepWidth -> {[w |-> o.w, h |-> k] : k \in Rounded(o.w * a.h, a.w)}
             [] OTHER -> {o}
  BY DEF AspectSizes
<1>. HIDE DEF a
<1>4. CASE keepHeight
  <2>1. ~keepWidth
    BY <1>1, <1>2, <1>4 DEF Wider
  <2>2. PICK k \in Rounded(o.h * a.w, a.h) : m = [w |-> k, h |-> o.h]
    BY <1>3, <1>4, <2>1
  <2>3. /\ k \in Nat
        /\ 2 * Distance(k * a.h, o.h * a.w) <= a.h
        /\ o.h * a.w < o.w * a.h => k <= o.w
        /\ o.h * a.w > o.w * a.h => k >= o.w
    BY <1>1, <1>2, RoundedQuotient
  <2>4. IF fill THEN o.h * a.w > o.w * a.h ELSE o.h * a.w < o.w * a.h
    BY <1>1, <1>2, <1>4 DEF Wider
  <2>5. m.w = k /\ m.h = o.h
    BY <2>2
  <2>6. Proportioned(a, m)
    BY <2>3, <2>5 DEF Proportioned
  <2>7. IF fill THEN m.w >= o.w ELSE m.w <= o.w
    BY <2>3, <2>4, <2>5
  <2>. QED  BY <1>1, <2>3, <2>5, <2>6, <2>7 DEF a
<1>5. CASE keepWidth
  <2>1. ~keepHeight
    BY <1>1, <1>2, <1>5 DEF Wider
  <2>2. PICK k \in Rounded(o.w * a.h, a.w) : m = [w |-> o.w, h |-> k]
    BY <1>3, <1>5, <2>1
  <2>3. /\ k \in Nat
        /\ 2 * Distance(k * a.w, o.w * a.h) <= a.w
        /\ o.w * a.h < o.h * a.w => k <= o.h
        /\ o.w * a.h > o.h * a.w => k >= o.h
    BY <1>1, <1>2, RoundedQuotient
  <2>4. IF fill THEN o.w * a.h > o.h * a.w ELSE o.w * a.h < o.h * a.w
    BY <1>1, <1>2, <1>5 DEF Wider
  <2>5. m.w = o.w /\ m.h = k
    BY <2>2
  <2>6. Proportioned(a, m)
    BY <2>3, <2>5 DEF Proportioned
  <2>7. IF fill THEN m.h >= o.h ELSE m.h <= o.h
    BY <2>3, <2>4, <2>5
  <2>. QED  BY <1>1, <2>3, <2>5, <2>6, <2>7 DEF a
<1>6. CASE ~keepHeight /\ ~keepWidth
  <2>1. m = o
    BY <1>3, <1>6
  <2>2. o.w * a.h = o.h * a.w
    BY <1>1, <1>2, <1>6 DEF Wider
  <2>3. Distance(o.w * a.h, o.h * a.w) = 0
    BY <1>2, <2>2 DEF Distance
  <2>4. Proportioned(a, m)
    BY <1>1, <2>1, <2>3 DEF Proportioned
  <2>. QED  BY <1>1, <2>1, <2>4 DEF a
<1>. QED  BY <1>4, <1>5, <1>6

(* Where onLayout puts a view of size m in the middle of a parent of size o. *)
Centered(m, o) ==
  [l |-> -Half(m.w - o.w), t |-> -Half(m.h - o.h), w |-> m.w, h |-> m.h]

(***************************************************************************)
(* The view has a size that was calculated for the last camera from the     *)
(* size it first had, and stands in the middle of that once it is laid out: *)
(* only a ratio, which asks to be moved, makes a traversal due.             *)
(***************************************************************************)
FrameInv ==
  /\ sv \in [fill : BOOLEAN, camera : CameraSizes \cup {Zero}, aspect : {sv.aspect},
             origin : ParentSizes \cup {Zero}, needMove : BOOLEAN]
  /\ parent \in ParentSizes
  /\ sv.camera # Zero =>
       /\ sv.origin # Zero
       /\ sv.aspect \in AspectSizes(sv.fill, sv.camera, sv.origin)
       /\ IF wanted THEN sv.needMove ELSE frame = Centered(sv.aspect, sv.origin)

(* Ratios and traversals in any order keep it.                             *)
LEMMA FrameStep ==
  ASSUME ~Resizes
  PROVE  FrameInv /\ [SurfaceViewNext]_svars => FrameInv'
<1>. SUFFICES ASSUME FrameInv, [SurfaceViewNext]_svars PROVE FrameInv'
  OBVIOUS
<1>. USE DEF FrameInv
<1>1. CASE Traversal
  <2>1. CASE sv.camera = Zero
    <3>1. sv' = [sv EXCEPT !.origin = parent, !.needMove = FALSE] /\ parent' = parent
      BY <1>1, <2>1 DEF Traversal, Origin
    <3>. QED  BY <2>1, <3>1
  <2>2. CASE sv.camera # Zero
    <3>1. sv' = [sv EXCEPT !.needMove = FALSE] /\ parent' = parent /\ ~wanted'
      BY <1>1, <2>2 DEF Traversal, Origin
    <3>2. frame' = Centered(sv.aspect, sv.origin)
      BY <1>1, <2>2 DEF Traversal, Origin, Measured, Placed, Centered
    <3>. QED  BY <2>2, <3>1, <3>2
  <2>. QED  BY <2>1, <2>2
<1>2. ASSUME NEW camera \in CameraSizes, SetAspectRatio(camera) PROVE FrameInv'
  <2>1. PICK a \in AspectSizes(sv.fill, camera, sv.origin) :
          sv' = [sv EXCEPT !.camera = camera, !.aspect = a, !.needMove = TRUE]
    BY <1>2 DEF SetAspectRatio
  <2>2. wanted' /\ parent' = parent /\ sv.origin # Zero
    BY <1>2 DEF SetAspectRatio
  <2>. QED  BY <2>1, <2>2
<1>3. ASSUME NEW s \in ParentSizes, Resize(s) PROVE FrameInv'
  BY <1>3 DEF Resize
<1>4. CASE UNCHANGED svars
  BY <1>4 DEF svars
<1>. QED  BY <1>1, <1>2, <1>3, <1>4 DEF SurfaceViewNext

(* Once laid out in the parent it measured, the surface view has the        *)
(* proportions of the last camera size given, lies inside that parent or    *)
(* covers it, touches two opposite sides of it, and stands in its middle to *)
(* a pixel (AutoFitSurfaceView.calcAspectSize, onMeasure, onLayout), in a   *)
(* window that keeps its size after the first ratio.                        *)
THEOREM SurfaceKeepsProportions ==
  ASSUME ~Resizes
  PROVE  SurfaceViewSpec => []FrameFits
<1>1. SurfaceViewInit => FrameInv
  <2>. SUFFICES ASSUME SurfaceViewInit PROVE FrameInv
    OBVIOUS
  <2>1. PICK f \in BOOLEAN :
          sv = [fill |-> f, camera |-> Zero, aspect |-> Zero, origin |-> Zero,
                needMove |-> FALSE]
    BY DEF SurfaceViewInit
  <2>. QED  BY <2>1 DEF SurfaceViewInit, FrameInv
<1>2. FrameInv /\ [SurfaceViewNext]_svars => FrameInv'
  BY FrameStep
<1>3. FrameInv => FrameFits
  <2>. SUFFICES ASSUME FrameInv, Current PROVE FrameFits
    BY DEF FrameFits
  <2>. DEFINE m == sv.aspect
  <2>1. /\ sv.fill \in BOOLEAN /\ sv.camera \in CameraSizes /\ sv.origin = parent
        /\ m \in AspectSizes(sv.fill, sv.camera, parent)
        /\ frame = Centered(m, parent)
        /\ parent \in ParentSizes
    BY DEF Current, Shown, FrameInv
  <2>2. Size(sv.camera) /\ Size(parent) /\ sv.camera.w >= sv.camera.h
    BY <2>1, SurfaceViewSizes
  <2>3. /\ m.w \in Nat /\ m.h \in Nat
        /\ m.w = parent.w \/ m.h = parent.h
        /\ IF sv.fill THEN m.w >= parent.w /\ m.h >= parent.h
                      ELSE m.w <= parent.w /\ m.h <= parent.h
        /\ Proportioned(Turned(sv.camera, parent), m)
    BY <2>1, <2>2, AspectFits
  <2>4. /\ frame.w = m.w /\ frame.h = m.h
        /\ frame.l = -Half(m.w - parent.w) /\ frame.t = -Half(m.h - parent.h)
    BY <2>1 DEF Centered
  <2>. HIDE DEF m
  <2>5. parent.w \in Nat /\ parent.h \in Nat
    BY <2>2 DEF Size
  <2>6. PictureUndistorted
    <3>. DEFINE long == sv.camera.w
                short == sv.camera.h
    <3>1. long \in Nat /\ short \in Nat /\ long >= short
      BY <2>2 DEF Size
    <3>2. /\ m.w * short \in Nat /\ m.h * long \in Nat
          /\ m.w * long \in Nat /\ m.h * short \in Nat
      BY <2>3, <3>1, Product
    <3>3. CASE parent.w > parent.h
      <4>1. Turned(sv.camera, parent) = sv.camera
        BY <3>3 DEF Turned
      <4>2. 2 * Distance(m.w * short, m.h * long) <= long
        BY <2>3, <3>1, <3>2, <4>1 DEF Proportioned, Distance
      <4>. QED  BY <2>4, <3>3, <4>2 DEF PictureUndistorted
    <3>4. CASE ~(parent.w > parent.h)
      <4>1. Turned(sv.camera, parent) = [w |-> short, h |-> long]
        BY <3>4 DEF Turned
      <4>2. 2 * Distance(m.h * short, m.w * long) <= long
        BY <2>3, <3>1, <3>2, <4>1 DEF Proportioned, Distance
      <4>. QED  BY <2>4, <3>4, <4>2 DEF PictureUndistorted
    <3>. QED  BY <3>3, <3>4
  <2>7. /\ IF sv.fill
           THEN /\ frame.l <= 0 /\ frame.l + frame.w >= parent.w
                /\ frame.t <= 0 /\ frame.t + frame.h >= parent.h
           ELSE /\ frame.l >= 0 /\ frame.l + frame.w <= parent.w
                /\ frame.t >= 0 /\ frame.t + frame.h <= parent.h
        /\ Distance(2 * frame.l + frame.w, parent.w) <= 1
        /\ Distance(2 * frame.t + frame.h, parent.h) <= 1
    <3>1. ASSUME NEW x \in Nat, NEW y \in Nat
          PROVE  /\ x >= y => -Half(x - y) <= 0 /\ -Half(x - y) + x >= y
                 /\ x <= y => -Half(x - y) >= 0 /\ -Half(x - y) + x <= y
                 /\ Distance(2 * (-Half(x - y)) + x, y) <= 1
      <4>1. x - y \in Int
        OBVIOUS
      <4>. DEFINE half == Half(x - y)
      <4>2. /\ half \in Int
            /\ x - y >= 0 => 0 <= half /\ half <= x - y
            /\ x - y <= 0 => half <= 0 /\ x - y <= half
            /\ -1 <= (x - y) - 2 * half /\ (x - y) - 2 * half <= 1
        BY <4>1, Halves
      <4>. HIDE DEF half
      <4>3. /\ x >= y => -half <= 0 /\ -half + x >= y
            /\ x <= y => -half >= 0 /\ -half + x <= y
            /\ Distance(2 * (-half) + x, y) <= 1
        BY <4>2 DEF Distance
      <4>. QED  BY <4>3 DEF half
    <3>2. Distance(2 * frame.l + frame.w, parent.w) <= 1
          /\ Distance(2 * frame.t + frame.h, parent.h) <= 1
      BY <2>3, <2>4, <2>5, <3>1
    <3>3. CASE sv.fill
      <4>1. m.w >= parent.w /\ m.h >= parent.h
        BY <2>3, <3>3
      <4>. QED  BY <2>3, <2>4, <2>5, <3>1, <3>2, <3>3, <4>1
    <3>4. CASE ~sv.fill
      <4>1. m.w <= parent.w /\ m.h <= parent.h
        BY <2>3, <3>4
      <4>. QED  BY <2>3, <2>4, <2>5, <3>1, <3>2, <3>4, <4>1
    <3>. QED  BY <3>3, <3>4
  <2>. QED  BY <2>3, <2>4, <2>6, <2>7 DEF FrameFits
<1>. QED  BY <1>1, <1>2, <1>3, PTL DEF SurfaceViewSpec
=============================================================================
