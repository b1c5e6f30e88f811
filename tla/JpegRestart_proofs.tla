-------------------------- MODULE JpegRestart_proofs --------------------------
(***************************************************************************)
(* Theorem of JpegRestart: what is lost of a scan costs no more than that,  *)
(* for every number of segments, every interval and every size of the       *)
(* buffers.  The inductive invariant follows the places of the tokens: the  *)
(* tokens under way lead from the place of the decoder to that of the       *)
(* sender with at most two markers missing at a time, so that the number of *)
(* a marker tells its segment; and until the caller is warned what is       *)
(* shown, loaded and under way is in the order of the picture.              *)
(***************************************************************************)
EXTENDS JpegRestart, TLAPS, WellFoundedInduction

-----------------------------------------------------------------------------
(* Induction over the natural numbers, by way of a set instead of a          *)
(* predicate.                                                                *)

(* A set of natural numbers has a least one.                                 *)
LEMMA LeastNumber ==
  ASSUME NEW T, T \subseteq Nat, T # {}
  PROVE  \E x \in T : \A y \in T : x <= y
<1>. DEFINE R == OpToRel(<, Nat)
<1>1. PICK x \in T : \A y \in T : <<y, x>> \notin R
  <2>1. IsWellFoundedOn(R, Nat)
    BY NatLessThanWellFounded
  <2>. HIDE DEF R
  <2>. QED  BY <2>1, WFMin
<1>2. ASSUME NEW y \in T
      PROVE  x <= y
  <2>1. <<y, x>> \notin {pair \in Nat \X Nat : pair[1] < pair[2]}
    BY <1>1 DEF OpToRel
  <2>2. x \in Nat /\ y \in Nat
    OBVIOUS
  <2>. QED  BY <2>1, <2>2
<1>. QED  BY <1>1, <1>2

(* A set with 0 and with the successors of its members up to k has k.        *)
LEMMA Reached ==
  ASSUME NEW S, NEW k \in Nat, 0 \in S, \A n \in 0 .. k - 1 : n \in S => n + 1 \in S
  PROVE  k \in S
<1>. DEFINE T == {n \in 0..k : n \notin S}
<1>. SUFFICES ASSUME k \notin S PROVE FALSE
  OBVIOUS
<1>1. PICK x \in T : \A y \in T : x <= y
  <2>1. k \in T /\ T \subseteq Nat
    OBVIOUS
  <2>. QED  BY <2>1, LeastNumber
<1>2. x # 0 /\ x \in 0..k
  OBVIOUS
<1>3. x - 1 \in 0 .. k - 1 /\ x - 1 + 1 = x
  BY <1>2
<1>4. x - 1 \in S
  BY <1>1, <1>2, <1>3
<1>. QED  BY <1>3, <1>4

(* Min picks the least one.                                                  *)
LEMMA MinIsLeast ==
  ASSUME NEW T, T \subseteq Nat, T # {}
  PROVE  Min(T) \in T /\ \A y \in T : Min(T) <= y
BY LeastNumber DEF Min

-----------------------------------------------------------------------------
(* Numbers in a circle. *)

(* A product of two numbers.                                                 *)
LEMMA ProductIsNat ==
  ASSUME NEW a \in Nat, NEW b \in Nat
  PROVE  a * b \in Nat
OBVIOUS

(* A factor is drawn into a sum.                                             *)
LEMMA SumTimes ==
  ASSUME NEW a \in Int, NEW b \in Int, NEW c \in Int
  PROVE  (a + b) * c = a * c + b * c
OBVIOUS

(* A common factor is cancelled.                                             *)
LEMMA CancelFactor ==
  ASSUME NEW a \in Int, NEW b \in Int, NEW c \in Nat \ {0}, a * c < b * c
  PROVE  a < b
OBVIOUS

(* What division does, of negative numbers too.                              *)
LEMMA Quotient ==
  ASSUME NEW a \in Int, NEW b \in Nat \ {0}
  PROVE  /\ a \div b \in Int /\ a % b \in 0 .. b - 1
         /\ a = (a \div b) * b + (a % b)
OBVIOUS

(* There is one quotient and one rest.                                       *)
LEMMA OneQuotient ==
  ASSUME NEW b \in Nat \ {0}, NEW x \in Int, NEW y \in Int,
         NEW i \in 0 .. b - 1, NEW j \in 0 .. b - 1, x * b + i = y * b + j
  PROVE  x = y /\ i = j
<1>1. (x + 1) * b = x * b + b /\ (y + 1) * b = y * b + b
  BY SumTimes
<1>2. x * b \in Int /\ y * b \in Int
  OBVIOUS
<1>. DEFINE xb == x * b
            yb == y * b
<1>. HIDE DEF xb, yb
<1>3. xb < yb + b /\ yb < xb + b
  BY <1>2 DEF xb, yb
<1>4. x < y + 1 /\ y < x + 1
  BY <1>1, <1>3, CancelFactor DEF xb, yb
<1>. QED  BY <1>4, <1>2

(* Quotient and rest of a number known by them.                              *)
LEMMA PlaceIn ==
  ASSUME NEW b \in Nat \ {0}, NEW x \in Int, NEW i \in 0 .. b - 1
  PROVE  (x * b + i) \div b = x /\ (x * b + i) % b = i
<1>1. PICK a \in Int : a = x * b + i
  OBVIOUS
<1>2. a \div b \in Int /\ a % b \in 0 .. b - 1 /\ a = (a \div b) * b + (a % b)
  BY Quotient
<1>3. a \div b = x /\ a % b = i
  BY <1>1, <1>2, OneQuotient
<1>. QED  BY <1>1, <1>3

(* Numbers less than a turn apart are apart in the circle.                   *)
LEMMA ApartInCircle ==
  ASSUME NEW n \in Nat \ {0}, NEW a \in Int, NEW b \in Int,
         a < b, b < a + n
  PROVE  a % n # b % n
<1>. SUFFICES ASSUME a % n = b % n PROVE FALSE
  OBVIOUS
<1>1. PICK x \in Int, y \in Int, i \in 0 .. n - 1 : a = x * n + i /\ b = y * n + i
  BY Quotient
<1>2. x * n \in Int /\ y * n \in Int /\ (x + 1) * n = x * n + n
  BY SumTimes
<1>. DEFINE xn == x * n
            yn == y * n
<1>3. xn < yn /\ yn < (x + 1) * n
  <2>. HIDE DEF xn, yn
  <2>1. xn \in Int /\ yn \in Int /\ (x + 1) * n = xn + n /\ a = xn + i /\ b = yn + i
    BY <1>1, <1>2 DEF xn, yn
  <2>. QED  BY <2>1
<1>4. x < y /\ y < x + 1
  BY <1>3, CancelFactor
<1>. QED  BY <1>4

(* A step of two along the circle.                                           *)
LEMMA StepInCircle ==
  ASSUME NEW n \in Nat \ 0..4, NEW a \in Int, NEW c \in -2 .. 2
  PROVE  ((a % n) + c) % n = (a + c) % n
<1>0. n \in Nat \ {0}
  OBVIOUS
<1>1. PICK x \in Int, i \in 0 .. n - 1 : a = x * n + i /\ a % n = i
  <2>1. /\ a \div n \in Int /\ a % n \in 0 .. n - 1
        /\ a = (a \div n) * n + (a % n)
    BY <1>0, Quotient
  <2>. QED  BY <2>1
<1>. DEFINE xn == x * n
            k == i + c
<1>2. n \in Nat \ {0} /\ n > 4 /\ xn \in Int /\ k \in -2 .. n + 1
  OBVIOUS
<1>3. (0 * n = 0 /\ 1 * n = n /\ (-1) * n = -n)
      /\ (x + 1) * n = x * n + n /\ (x + (-1)) * n = x * n - n
  BY <1>2, SumTimes
<1>. HIDE DEF xn
<1>4. a + c = xn + k
  BY <1>1, <1>2 DEF xn
<1>5. CASE k \in 0 .. n - 1
  <2>1. (0 * n + k) % n = k /\ (x * n + k) % n = k
    <3>1. PICK u \in Int : u = 0
      OBVIOUS
    <3>. HIDE DEF k
    <3>2. (u * n + k) % n = k /\ (x * n + k) % n = k
      BY <1>2, <1>5, PlaceIn
    <3>. QED  BY <3>1, <3>2
  <2>. QED  BY <1>1, <1>2, <1>3, <1>4, <2>1 DEF xn
<1>6. CASE k < 0
  <2>. DEFINE m == k + n
  <2>1. m \in 0 .. n - 1 /\ -1 \in Int /\ x + (-1) \in Int
    BY <1>2, <1>6
  <2>2. ((-1) * n + m) % n = m /\ ((x + (-1)) * n + m) % n = m
    <3>1. PICK u \in Int, v \in Int : u = -1 /\ v = x + (-1)
      BY <2>1
    <3>. HIDE DEF m, k
    <3>2. (u * n + m) % n = m /\ (v * n + m) % n = m
      BY <1>2, <2>1, PlaceIn
    <3>. QED  BY <3>1, <3>2
  <2>3. (-1) * n + m = k /\ (x + (-1)) * n + m = xn + k
    BY <1>2, <1>3 DEF xn
  <2>. QED  BY <1>1, <1>4, <2>2, <2>3
<1>7. CASE k >= n
  <2>. DEFINE m == k - n
  <2>1. m \in 0 .. n - 1 /\ x + 1 \in Int
    BY <1>2, <1>7
  <2>2. (1 * n + m) % n = m /\ ((x + 1) * n + m) % n = m
    <3>1. PICK u \in Int, v \in Int : u = 1 /\ v = x + 1
      BY <2>1
    <3>. HIDE DEF m, k
    <3>2. (u * n + m) % n = m /\ (v * n + m) % n = m
      BY <1>2, <2>1, PlaceIn
    <3>. QED  BY <3>1, <3>2
  <2>3. 1 * n + m = k /\ (x + 1) * n + m = xn + k
    BY <1>2, <1>3 DEF xn
  <2>. QED  BY <1>1, <1>4, <2>2, <2>3
<1>. QED  BY <1>2, <1>5, <1>6, <1>7

-----------------------------------------------------------------------------
(* Sequences of tokens. *)

(* The rest of a sequence.                                                   *)
LEMMA AfterFacts ==
  ASSUME NEW S, NEW w \in Seq(S), NEW k \in 0 .. Len(w)
  PROVE  /\ After(w, k) \in Seq(S) /\ Len(After(w, k)) = Len(w) - k
         /\ \A i \in 1 .. Len(w) - k : After(w, k)[i] = w[k + i]
BY DEF After

(* The beginning of a sequence.                                              *)
LEMMA PrefixFacts ==
  ASSUME NEW S, NEW w \in Seq(S), NEW k \in 0 .. Len(w)
  PROVE  /\ SubSeq(w, 1, k) \in Seq(S) /\ Len(SubSeq(w, 1, k)) = k
         /\ \A i \in 1 .. k : SubSeq(w, 1, k)[i] = w[i]
OBVIOUS

(* Two sequences in one.                                                     *)
LEMMA JoinFacts ==
  ASSUME NEW S, NEW v \in Seq(S), NEW w \in Seq(S)
  PROVE  /\ v \o w \in Seq(S) /\ Len(v \o w) = Len(v) + Len(w)
         /\ DOMAIN (v \o w) = 1 .. Len(v) + Len(w)
         /\ \A i \in 1 .. Len(v) : (v \o w)[i] = v[i]
         /\ \A i \in 1 .. Len(w) : (v \o w)[Len(v) + i] = w[i]
OBVIOUS

(* The order in which two sequences and an element are joined.               *)
LEMMA JoinAppend ==
  ASSUME NEW S, NEW v \in Seq(S), NEW w \in Seq(S), NEW e \in S
  PROVE  v \o Append(w, e) = Append(v \o w, e)
<1>1. v \o w \in Seq(S) /\ Append(w, e) \in Seq(S) /\ Len(v) \in Nat /\ Len(w) \in Nat
  OBVIOUS
<1>2. /\ v \o Append(w, e) \in Seq(S) /\ Append(v \o w, e) \in Seq(S)
      /\ Len(v \o Append(w, e)) = Len(Append(v \o w, e))
  BY <1>1
<1>3. \A i \in 1 .. Len(v \o Append(w, e)) : (v \o Append(w, e))[i] = Append(v \o w, e)[i]
  BY <1>1
<1>. QED  BY <1>2, <1>3

-----------------------------------------------------------------------------
(* What may be under way. *)

MarkerTokens == [marker : {TRUE}, number : {EOI, Bogus} \cup 0 .. Numbers - 1]
DataTokens ==
  [marker : {FALSE}, segment : 0 .. Segments - 1, mcu : 1 .. Interval,
   marked : BOOLEAN, whole : BOOLEAN]
Tokens == MarkerTokens \cup DataTokens

(* Where a token is in the scan: behind the marker of a segment, the last    *)
(* that was neither lost nor spoilt, which came for the first time or again, *)
(* and behind so many MCUs since.                                            *)
Places == [segment : Nat, fresh : BOOLEAN, n : Nat]

(* The number of the marker before a segment; EOI is the last of them.       *)
NumberOf(segment) == IF segment = Segments THEN EOI ELSE (segment - 1) % Numbers

(* From place to place over a token: at most two markers are missing between *)
(* two that are there, data that is marked is of the segment of the marker,  *)
(* and data that is whole comes at its place behind it.                      *)
FollowsData(a, token, b) ==
  /\ ~token.marker /\ b = [a EXCEPT !.n = @ + 1]
  /\ token.marked => token.segment = a.segment
  /\ token.whole => a.fresh /\ token.mcu = a.n + 1
FollowsBogus(a, token, b) ==
  token.marker /\ token.number = Bogus /\ b.segment = a.segment /\ ~b.fresh
FollowsMarker(a, token, b) ==
  /\ token.marker /\ b.segment \in 1 .. Segments /\ token.number = NumberOf(b.segment)
  /\ b.segment \in a.segment .. a.segment + 3 /\ b.n = 0
  /\ b.fresh => b.segment > a.segment
Follows(a, token, b) ==
  FollowsData(a, token, b) \/ FollowsBogus(a, token, b) \/ FollowsMarker(a, token, b)

(* Tokens that lead from a place to a place.                                 *)
Carries(w, a, b) ==
  \E g \in [0 .. Len(w) -> Places] :
    /\ g[0] = a /\ g[Len(w)] = b
    /\ \A i \in 1 .. Len(w) : Follows(g[i - 1], w[i], g[i])

(* So many MCUs further.                                                     *)
Further(a, k) == [a EXCEPT !.n = @ + k]

(* Further adds up.                                                          *)
LEMMA FurtherFacts ==
  ASSUME NEW a \in Places, NEW k \in Nat
  PROVE  /\ Further(a, k) \in Places
         /\ Further(a, k).segment = a.segment /\ Further(a, k).fresh = a.fresh
         /\ Further(a, k).n = a.n + k
         /\ Further(a, 0) = a
         /\ [Further(a, k) EXCEPT !.n = @ + 1] = Further(a, k + 1)
<1>. DEFINE p == Further(a, k)
<1>1. a.n \in Nat /\ a.segment \in Nat /\ a.fresh \in BOOLEAN
  BY DEF Places
<1>2. /\ p \in Places /\ p.segment = a.segment /\ p.fresh = a.fresh /\ p.n = a.n + k
  BY <1>1 DEF Further, Places
<1>3. Further(a, 0) = a
  BY <1>1 DEF Further, Places
<1>4. [p EXCEPT !.n = @ + 1] = Further(a, k + 1)
  <2>1. Further(a, k + 1) = [segment |-> a.segment, fresh |-> a.fresh, n |-> a.n + (k + 1)]
    BY <1>1 DEF Further, Places
  <2>2. a.n + (k + 1) = a.n + k + 1
    BY <1>1
  <2>. HIDE DEF p
  <2>3. [p EXCEPT !.n = @ + 1] = [segment |-> a.segment, fresh |-> a.fresh, n |-> a.n + k + 1]
    BY <1>2 DEF Places
  <2>. QED  BY <2>1, <2>2, <2>3
<1>. QED  BY <1>2, <1>3, <1>4

(* No tokens lead nowhere.                                                   *)
LEMMA CarriesNothing ==
  ASSUME NEW a \in Places
  PROVE  Carries(<<>>, a, a)
<1>. DEFINE g == [i \in 0 .. 0 |-> a]
<1>1. Len(<<>>) = 0
  OBVIOUS
<1>2. g \in [0 .. Len(<<>>) -> Places] /\ g[0] = a
  BY <1>1
<1>3. \A i \in 1 .. Len(<<>>) : Follows(g[i - 1], <<>>[i], g[i])
  BY <1>1
<1>. HIDE DEF g
<1>. QED  BY <1>1, <1>2, <1>3 DEF Carries

(* One token more.                                                           *)
LEMMA CarriesAppend ==
  ASSUME NEW w \in Seq(Tokens), NEW a \in Places, NEW b \in Places, Carries(w, a, b),
         NEW token \in Tokens, NEW c \in Places, Follows(b, token, c)
  PROVE  Carries(Append(w, token), a, c)
<1>1. PICK g \in [0 .. Len(w) -> Places] :
        /\ g[0] = a /\ g[Len(w)] = b
        /\ \A i \in 1 .. Len(w) : Follows(g[i - 1], w[i], g[i])
  BY DEF Carries
<1>2. Len(w) \in Nat
  OBVIOUS
<1>. DEFINE v == Append(w, token)
            n == Len(w)
            h == [i \in 0 .. n + 1 |-> IF i <= n THEN g[i] ELSE c]
<1>3. /\ Len(v) = n + 1 /\ v[n + 1] = token /\ \A i \in 1 .. n : v[i] = w[i]
  OBVIOUS
<1>4. h \in [0 .. Len(v) -> Places] /\ h[0] = a /\ h[Len(v)] = c
  BY <1>1, <1>2, <1>3
<1>5. ASSUME NEW i \in 1 .. Len(v)
      PROVE  Follows(h[i - 1], v[i], h[i])
  <2>1. CASE i = n + 1
    <3>1. h[i - 1] = b /\ h[i] = c /\ v[i] = token
      BY <1>1, <1>2, <1>3, <2>1
    <3>. QED  BY <3>1
  <2>2. CASE i # n + 1
    <3>1. i \in 1 .. n /\ h[i - 1] = g[i - 1] /\ h[i] = g[i] /\ v[i] = w[i]
      BY <1>2, <1>3, <2>2
    <3>. QED  BY <1>1, <3>1
  <2>. QED  BY <2>1, <2>2
<1>. HIDE DEF h, v
<1>. QED  BY <1>4, <1>5 DEF Carries, v

(* Tokens apart.                                                             *)
LEMMA CarriesApart ==
  ASSUME NEW w \in Seq(Tokens), NEW a \in Places, NEW b \in Places, Carries(w, a, b),
         NEW k \in 0 .. Len(w)
  PROVE  \E c \in Places : Carries(SubSeq(w, 1, k), a, c) /\ Carries(After(w, k), c, b)
<1>1. PICK g \in [0 .. Len(w) -> Places] :
        /\ g[0] = a /\ g[Len(w)] = b
        /\ \A i \in 1 .. Len(w) : Follows(g[i - 1], w[i], g[i])
  BY DEF Carries
<1>2. Len(w) \in Nat /\ k \in Nat /\ k <= Len(w)
  OBVIOUS
<1>3. Carries(SubSeq(w, 1, k), a, g[k])
  <2>. DEFINE v == SubSeq(w, 1, k)
              h == [i \in 0 .. k |-> g[i]]
  <2>1. Len(v) = k /\ \A i \in 1 .. k : v[i] = w[i]
    BY PrefixFacts
  <2>2. h \in [0 .. Len(v) -> Places] /\ h[0] = a /\ h[Len(v)] = g[k]
    BY <1>1, <1>2, <2>1
  <2>3. ASSUME NEW i \in 1 .. Len(v)
        PROVE  Follows(h[i - 1], v[i], h[i])
    <3>1. i \in 1 .. Len(w) /\ h[i - 1] = g[i - 1] /\ h[i] = g[i] /\ v[i] = w[i]
      BY <1>2, <2>1
    <3>. QED  BY <1>1, <3>1
  <2>. HIDE DEF h, v
  <2>. QED  BY <2>2, <2>3 DEF Carries, v
<1>4. Carries(After(w, k), g[k], b)
  <2>. DEFINE v == After(w, k)
              h == [i \in 0 .. Len(w) - k |-> g[k + i]]
  <2>1. Len(v) = Len(w) - k /\ \A i \in 1 .. Len(w) - k : v[i] = w[k + i]
    BY AfterFacts
  <2>2. h \in [0 .. Len(v) -> Places] /\ h[0] = g[k] /\ h[Len(v)] = b
    BY <1>1, <1>2, <2>1
  <2>3. ASSUME NEW i \in 1 .. Len(v)
        PROVE  Follows(h[i - 1], v[i], h[i])
    <3>1. /\ k + i \in 1 .. Len(w) /\ h[i - 1] = g[k + i - 1] /\ h[i] = g[k + i]
          /\ v[i] = w[k + i]
      BY <1>2, <2>1
    <3>. QED  BY <1>1, <3>1
  <2>. HIDE DEF h, v
  <2>. QED  BY <2>2, <2>3 DEF Carries, v
<1>5. g[k] \in Places
  BY <1>2
<1>. QED  BY <1>3, <1>4, <1>5

(* Over data alone the place moves on by its length, and what is whole is in *)
(* its place.                                                                *)
LEMMA CarriesData ==
  ASSUME NEW w \in Seq(Tokens), NEW a \in Places, NEW b \in Places, Carries(w, a, b),
         \A i \in 1 .. Len(w) : ~w[i].marker
  PROVE  /\ b = Further(a, Len(w))
         /\ \A i \in 1 .. Len(w) : /\ w[i].marked => w[i].segment = a.segment
                                   /\ w[i].whole => a.fresh /\ w[i].mcu = a.n + i
<1>1. PICK g \in [0 .. Len(w) -> Places] :
        /\ g[0] = a /\ g[Len(w)] = b
        /\ \A i \in 1 .. Len(w) : Follows(g[i - 1], w[i], g[i])
  BY DEF Carries
<1>2. Len(w) \in Nat /\ a.n \in Nat
  BY DEF Places
<1>3. ASSUME NEW i \in 1 .. Len(w)
      PROVE  FollowsData(g[i - 1], w[i], g[i])
  BY <1>1 DEF Follows, FollowsBogus, FollowsMarker
<1>4. ASSUME NEW k \in 0 .. Len(w)
      PROVE  g[k] = Further(a, k)
  <2>. DEFINE S == {i \in 0..k : g[i] = Further(a, i)}
  <2>1. 0 \in S
    BY <1>1, <1>2 DEF Further, Places
  <2>2. ASSUME NEW i \in 0 .. k - 1, i \in S
        PROVE  i + 1 \in S
    <3>1. i + 1 \in 1 .. Len(w) /\ i + 1 \in 0 .. k /\ i + 1 - 1 = i
      BY <1>2
    <3>2. PICK j \in 1 .. Len(w) : j = i + 1
      BY <3>1
    <3>3. g[j] = [g[j - 1] EXCEPT !.n = @ + 1]
      BY <1>3 DEF FollowsData
    <3>4. g[i] = Further(a, i) /\ i \in Nat
      BY <2>2
    <3>5. g[i + 1] = Further(a, i + 1)
      BY <3>1, <3>2, <3>3, <3>4, FurtherFacts
    <3>. QED  BY <3>1, <3>5
  <2>3. k \in Nat
    BY <1>2
  <2>. HIDE DEF S
  <2>4. k \in S
    BY <2>1, <2>2, <2>3, Reached
  <2>. QED  BY <2>4 DEF S
<1>5. ASSUME NEW i \in 1 .. Len(w)
      PROVE  /\ w[i].marked => w[i].segment = a.segment
             /\ w[i].whole => a.fresh /\ w[i].mcu = a.n + i
  <2>1. i - 1 \in 0 .. Len(w)
    BY <1>2
  <2>2. g[i - 1] = Further(a, i - 1)
    BY <1>4, <2>1
  <2>3. g[i - 1].segment = a.segment /\ g[i - 1].fresh = a.fresh /\ g[i - 1].n + 1 = a.n + i
    BY <1>2, <2>2 DEF Further, Places
  <2>. QED  BY <1>3, <2>3 DEF FollowsData
<1>6. Len(w) \in 0 .. Len(w)
  BY <1>2
<1>. QED  BY <1>1, <1>4, <1>5, <1>6

(* Over data and the first marker behind it.                                 *)
LEMMA CarriesMarker ==
  ASSUME NEW w \in Seq(Tokens), NEW a \in Places, NEW b \in Places, Carries(w, a, b),
         NEW k \in 1 .. Len(w), w[k].marker, \A i \in 1 .. k - 1 : ~w[i].marker
  PROVE  /\ \A i \in 1 .. k - 1 : /\ w[i].marked => w[i].segment = a.segment
                                  /\ w[i].whole => a.fresh /\ w[i].mcu = a.n + i
         /\ \E c \in Places : /\ Carries(After(w, k), c, b)
                               /\ \/ FollowsBogus(a, w[k], c)
                                  \/ FollowsMarker(a, w[k], c)
<1>1. Len(w) \in Nat /\ k - 1 \in 0 .. Len(w)
  OBVIOUS
<1>2. PICK e \in Places : Carries(SubSeq(w, 1, k - 1), a, e) /\ Carries(After(w, k - 1), e, b)
  BY <1>1, CarriesApart
<1>. DEFINE v == SubSeq(w, 1, k - 1)
            u == After(w, k - 1)
<1>3. v \in Seq(Tokens) /\ Len(v) = k - 1 /\ \A i \in 1 .. k - 1 : v[i] = w[i]
  BY <1>1, PrefixFacts
<1>4. /\ u \in Seq(Tokens) /\ Len(u) = Len(w) - (k - 1)
      /\ \A i \in 1 .. Len(w) - (k - 1) : u[i] = w[k - 1 + i]
  BY <1>1, AfterFacts, ZenonT(40)
<1>. HIDE DEF v, u
<1>5. /\ e = Further(a, k - 1)
      /\ \A i \in 1 .. k - 1 : /\ v[i].marked => v[i].segment = a.segment
                               /\ v[i].whole => a.fresh /\ v[i].mcu = a.n + i
  <2>1. Carries(v, a, e) /\ \A i \in 1 .. Len(v) : ~v[i].marker
    BY <1>2, <1>3 DEF v
  <2>. QED  BY <1>3, <2>1, CarriesData
<1>6. PICK g \in [0 .. Len(u) -> Places] :
        /\ g[0] = e /\ g[Len(u)] = b
        /\ \A i \in 1 .. Len(u) : Follows(g[i - 1], u[i], g[i])
  BY <1>2 DEF Carries, u
<1>. DEFINE c == g[1]
<1>7. 1 \in 1 .. Len(u) /\ u[1] = w[k] /\ c \in Places
  BY <1>1, <1>4, <1>6
<1>8. Follows(e, w[k], c)
  BY <1>6, <1>7
<1>9. e.segment = a.segment
  BY <1>5 DEF Further, Places
<1>10. FollowsBogus(a, w[k], c) \/ FollowsMarker(a, w[k], c)
  BY <1>8, <1>9 DEF Follows, FollowsData, FollowsBogus, FollowsMarker
<1>11. Carries(After(w, k), c, b)
  <2>. DEFINE x == After(w, k)
              h == [i \in 0 .. Len(w) - k |-> g[i + 1]]
  <2>1. Len(x) = Len(w) - k /\ \A i \in 1 .. Len(w) - k : x[i] = w[k + i]
    BY <1>1, AfterFacts
  <2>0. PICK m \in Nat : m = Len(w) - k
    BY <1>1
  <2>2. h \in [0 .. Len(x) -> Places] /\ h[0] = c /\ h[Len(x)] = b
    <3>1. Len(u) = m + 1 /\ Len(x) = m
      BY <1>1, <1>4, <2>0, <2>1
    <3>. HIDE DEF x
    <3>. QED  BY <1>6, <2>0, <3>1
  <2>3. ASSUME NEW i \in 1 .. Len(x)
        PROVE  Follows(h[i - 1], x[i], h[i])
    <3>0. PICK j \in 1 .. Len(u) : j = i + 1
      BY <1>1, <1>4, <2>1
    <3>1. /\ h[i - 1] = g[j - 1] /\ h[i] = g[j] /\ x[i] = w[k + i]
      BY <1>1, <1>4, <2>1, <3>0
    <3>2. u[j] = w[k - 1 + j] /\ k - 1 + j = k + i
      BY <1>1, <1>4, <3>0
    <3>. QED  BY <1>6, <3>1, <3>2
  <2>. HIDE DEF h, x
  <2>. QED  BY <2>2, <2>3 DEF Carries, x
<1>. HIDE DEF c
<1>. QED  BY <1>3, <1>5, <1>7, <1>10, <1>11

-----------------------------------------------------------------------------
(* The decoder during a call. *)

Decoders ==
  [unread : {None, EOI, Bogus} \cup 0 .. Numbers - 1, expects : 0 .. Numbers - 1,
   togo : 0 .. Interval, insufficient : BOOLEAN, bits : Seq(DataTokens),
   discarded : BOOLEAN, at : Nat, warned : BOOLEAN]
Histories ==
  [long : BOOLEAN, repeated : BOOLEAN, wasted : BOOLEAN, damaged : BOOLEAN,
   shown : Seq(DataTokens)]
Calls == [dec : Decoders, wire : Seq(Tokens), history : Histories, suspended : BOOLEAN]

(* What a piece of process_restart may do: tokens are taken off the wire,    *)
(* and the caller may be warned.  Before the marker is found no number is    *)
(* expected anew, and one that is unread may be passed over for another.     *)
Takes(v, w) ==
  \E k \in 0 .. Len(v) : /\ Len(w) = Len(v) - k
                         /\ \A i \in 1 .. Len(v) - k : w[i] = v[k + i]
Passes(s, t) ==
  /\ t \in Calls /\ Takes(s.wire, t.wire)
  /\ t.dec.at = s.dec.at /\ t.dec.bits = s.dec.bits /\ t.dec.togo = s.dec.togo
  /\ t.dec.insufficient = s.dec.insufficient
  /\ s.dec.warned => t.dec.warned
  /\ t.history.long = s.history.long /\ t.history.repeated = s.history.repeated
  /\ t.history.damaged = s.history.damaged /\ t.history.shown = s.history.shown
Keeps(s, t) ==
  /\ Passes(s, t) /\ t.dec.expects = s.dec.expects
  /\ s.dec.unread # None => t.dec.unread # None

(* Where the decoder is when it is behind D restart markers, or their        *)
(* places: with no marker unread behind the marker of segment D, and all     *)
(* MCUs of the segment are taken if none is to go; with one unread at most   *)
(* two are missing before it.                                                *)
AtData(s, a, D) ==
  /\ s.dec.unread = None /\ a.segment = D
  /\ a.fresh => IF s.dec.togo = 0 THEN a.n >= Interval
                ELSE a.n = Interval - s.dec.togo + Len(s.dec.bits)
AtBogus(s, a, D) == s.dec.unread = Bogus /\ a.segment = D /\ ~a.fresh
AtMarker(s, a, D) ==
  /\ a.segment \in 1 .. Segments /\ a.segment \in D .. D + 3
  /\ s.dec.unread = NumberOf(a.segment) /\ (a.fresh => a.segment > D /\ a.n = 0)
At(s, a, D) == AtData(s, a, D) \/ AtBogus(s, a, D) \/ AtMarker(s, a, D)

Placed(s, D, last) == \E a \in Places : Carries(s.wire, a, last) /\ At(s, a, D)

(* Numbers and segments. *)
LEMMA NumberFacts ==
  ASSUME NEW D \in Nat, NEW u \in 1 .. Segments, u \in D .. D + 3
  PROVE  LET x == NumberOf(u)  desired == D % Numbers
         IN /\ x # None /\ x # Bogus
            /\ x \in Behind(desired) => u = D
            /\ x = desired => u = D + 1
            /\ u = D + 1 /\ u # Segments => x = desired
            /\ ~ScanOn(x, desired) /\ ~LeaveUnread(x, desired) => u = D + 1
            /\ LeaveUnread(x, desired) => u \in {D + 2, D + 3, Segments}
<1>. DEFINE x == NumberOf(u)
            desired == D % Numbers
<1>1. Numbers \in Nat \ 0..4 /\ Segments \in Nat \ {0} /\ u \in Nat /\ Numbers \in Nat \ {0}
  BY RestartAssumption
<1>2. ASSUME NEW c \in -2 .. 2
      PROVE  (desired + c) % Numbers = (D + c) % Numbers
  <2>1. D \in Int
    OBVIOUS
  <2>. QED  BY <1>1, <2>1, StepInCircle, Zenon
<1>3. /\ (desired + 1) % Numbers = (D + 1) % Numbers /\ (desired + 2) % Numbers = (D + 2) % Numbers
      /\ (desired - 1) % Numbers = (D - 1) % Numbers /\ (desired - 2) % Numbers = (D - 2) % Numbers
  <2>1. desired \in Int
    BY <1>1, Quotient
  <2>2. /\ (desired + (-1)) % Numbers = (D + (-1)) % Numbers
        /\ (desired + (-2)) % Numbers = (D + (-2)) % Numbers
    BY <1>2
  <2>3. /\ desired + (-1) = desired - 1 /\ desired + (-2) = desired - 2
        /\ D + (-1) = D - 1 /\ D + (-2) = D - 2
    BY <2>1
  <2>. QED  BY <1>2, <2>2, <2>3
<1>4. \A a \in Int : a % Numbers \in 0 .. Numbers - 1
  BY <1>1, Quotient
<1>5. PICK a1 \in Int, a2 \in Int, b1 \in Int, b2 \in Int :
        a1 = D + 1 /\ a2 = D + 2 /\ b1 = D - 1 /\ b2 = D - 2
  OBVIOUS
<1>6. \A a, b \in Int : a < b /\ b < a + Numbers => a % Numbers # b % Numbers
  BY <1>1, ApartInCircle
<1>7. /\ b2 % Numbers # D % Numbers /\ b2 % Numbers # a1 % Numbers /\ b2 % Numbers # a2 % Numbers
      /\ b1 % Numbers # D % Numbers /\ b1 % Numbers # a1 % Numbers /\ b1 % Numbers # a2 % Numbers
      /\ D % Numbers # a1 % Numbers /\ D % Numbers # a2 % Numbers
      /\ a1 % Numbers # a2 % Numbers
  <2>1. /\ b2 < b1 /\ b1 < D /\ D < a1 /\ a1 < a2 /\ a2 < b2 + Numbers
        /\ a2 < b1 + Numbers /\ a1 < b2 + Numbers /\ a1 < b1 + Numbers
        /\ D < b2 + Numbers /\ D < b1 + Numbers /\ a1 < D + Numbers /\ a2 < D + Numbers
        /\ a2 < a1 + Numbers /\ b2 < D /\ b2 < a1 /\ b2 < a2 /\ b1 < a1 /\ b1 < a2 /\ D < a2
        /\ D \in Int
    BY <1>1, <1>5
  <2>. QED  BY <1>6, <2>1, Zenon
<1>8. /\ Ahead(desired) = {a1 % Numbers, a2 % Numbers}
      /\ Behind(desired) = {b1 % Numbers, b2 % Numbers}
  BY <1>3, <1>5 DEF Ahead, Behind
<1>9. /\ D % Numbers \in Nat /\ a1 % Numbers \in Nat /\ a2 % Numbers \in Nat
      /\ b1 % Numbers \in Nat /\ b2 % Numbers \in Nat
  BY <1>1, <1>4
<1>10. CASE u = Segments
  <2>1. x = -2
    BY <1>10 DEF NumberOf, EOI
  <2>. QED  BY <1>10, <1>8, <1>9, <2>1 DEF None, Bogus, EOI, ScanOn, LeaveUnread
<1>11. CASE u # Segments /\ u = D
  <2>1. x = b1 % Numbers
    BY <1>5, <1>11 DEF NumberOf
  <2>. QED  BY <1>11, <1>7, <1>8, <1>9, <2>1 DEF None, Bogus, EOI, ScanOn, LeaveUnread
<1>12. CASE u # Segments /\ u = D + 1
  <2>1. x = D % Numbers
    BY <1>12 DEF NumberOf
  <2>. QED  BY <1>12, <1>7, <1>8, <1>9, <2>1 DEF None, Bogus, EOI, ScanOn, LeaveUnread
<1>13. CASE u # Segments /\ u = D + 2
  <2>1. x = a1 % Numbers
    BY <1>5, <1>13 DEF NumberOf
  <2>. QED  BY <1>13, <1>7, <1>8, <1>9, <2>1 DEF None, Bogus, EOI, ScanOn, LeaveUnread
<1>14. CASE u # Segments /\ u = D + 3
  <2>1. x = a2 % Numbers
    BY <1>5, <1>14 DEF NumberOf
  <2>. QED  BY <1>14, <1>7, <1>8, <1>9, <2>1 DEF None, Bogus, EOI, ScanOn, LeaveUnread
<1>15. u = D \/ u = D + 1 \/ u = D + 2 \/ u = D + 3
  OBVIOUS
<1>. HIDE DEF x, desired
<1>. QED  BY <1>10, <1>11, <1>12, <1>13, <1>14, <1>15

(* A piece that does nothing passes.                                         *)
LEMMA PassesOnes ==
  ASSUME NEW s \in Calls
  PROVE  Passes(s, s)
<1>1. Takes(s.wire, s.wire)
  <2>1. s.wire \in Seq(Tokens)
    BY DEF Calls
  <2>2. /\ 0 \in 0 .. Len(s.wire) /\ Len(s.wire) - 0 = Len(s.wire)
        /\ \A i \in 1 .. Len(s.wire) : s.wire[i] = s.wire[0 + i]
    BY <2>1
  <2>. QED  BY <2>2 DEF Takes
<1>. QED  BY <1>1 DEF Passes

(* Piece after piece.                                                        *)
LEMMA PassesPasses ==
  ASSUME NEW s \in Calls, NEW t, NEW u, Passes(s, t), Passes(t, u)
  PROVE  Passes(s, u)
<1>1. s.wire \in Seq(Tokens) /\ t.wire \in Seq(Tokens) /\ u.wire \in Seq(Tokens)
  BY DEF Passes, Calls
<1>2. PICK k \in 0 .. Len(s.wire) : /\ Len(t.wire) = Len(s.wire) - k
                                    /\ \A i \in 1 .. Len(s.wire) - k : t.wire[i] = s.wire[k + i]
  BY DEF Passes, Takes
<1>3. PICK l \in 0 .. Len(t.wire) : /\ Len(u.wire) = Len(t.wire) - l
                                    /\ \A i \in 1 .. Len(t.wire) - l : u.wire[i] = t.wire[l + i]
  BY DEF Passes, Takes
<1>4. Takes(s.wire, u.wire)
  <2>1. k + l \in 0 .. Len(s.wire) /\ Len(u.wire) = Len(s.wire) - (k + l)
    BY <1>1, <1>2, <1>3
  <2>2. ASSUME NEW i \in 1 .. Len(s.wire) - (k + l)
        PROVE  u.wire[i] = s.wire[(k + l) + i]
    <3>1. /\ i \in 1 .. Len(t.wire) - l /\ l + i \in 1 .. Len(s.wire) - k
          /\ k + (l + i) = (k + l) + i
      BY <1>1, <1>2, <1>3
    <3>. QED  BY <1>2, <1>3, <3>1
  <2>. QED  BY <2>1, <2>2 DEF Takes
<1>. QED  BY <1>4 DEF Passes

(* The same of Keeps.                                                        *)
LEMMA KeepsKeeps ==
  ASSUME NEW s \in Calls, NEW t, NEW u, Keeps(s, t), Keeps(t, u)
  PROVE  Keeps(s, u)
BY PassesPasses DEF Keeps

(* What a call is made of.                                                   *)
LEMMA CallFacts ==
  ASSUME NEW s \in Calls
  PROVE  /\ s = [dec |-> s.dec, wire |-> s.wire, history |-> s.history,
                 suspended |-> s.suspended]
         /\ s.dec \in Decoders /\ s.wire \in Seq(Tokens) /\ s.history \in Histories
         /\ s.suspended \in BOOLEAN
         /\ s.dec = [unread |-> s.dec.unread, expects |-> s.dec.expects, togo |-> s.dec.togo,
                     insufficient |-> s.dec.insufficient, bits |-> s.dec.bits,
                     discarded |-> s.dec.discarded, at |-> s.dec.at, warned |-> s.dec.warned]
         /\ s.dec.unread \in {None, EOI, Bogus} \cup 0 .. Numbers - 1
         /\ s.dec.expects \in 0 .. Numbers - 1 /\ s.dec.togo \in 0 .. Interval
         /\ s.dec.insufficient \in BOOLEAN /\ s.dec.bits \in Seq(DataTokens)
         /\ s.dec.discarded \in BOOLEAN /\ s.dec.at \in Nat /\ s.dec.warned \in BOOLEAN
         /\ s.history.long \in BOOLEAN /\ s.history.repeated \in BOOLEAN
         /\ s.history.wasted \in BOOLEAN /\ s.history.damaged \in BOOLEAN
         /\ s.history.shown \in Seq(DataTokens)
<1>1. /\ s = [dec |-> s.dec, wire |-> s.wire, history |-> s.history, suspended |-> s.suspended]
      /\ s.dec \in Decoders /\ s.wire \in Seq(Tokens) /\ s.history \in Histories
      /\ s.suspended \in BOOLEAN
  BY DEF Calls
<1>2. PICK d \in Decoders, h \in Histories : d = s.dec /\ h = s.history
  BY <1>1
<1>3. /\ d = [unread |-> d.unread, expects |-> d.expects, togo |-> d.togo,
              insufficient |-> d.insufficient, bits |-> d.bits,
              discarded |-> d.discarded, at |-> d.at, warned |-> d.warned]
      /\ d.unread \in {None, EOI, Bogus} \cup 0 .. Numbers - 1
      /\ d.expects \in 0 .. Numbers - 1 /\ d.togo \in 0 .. Interval
      /\ d.insufficient \in BOOLEAN /\ d.bits \in Seq(DataTokens)
      /\ d.discarded \in BOOLEAN /\ d.at \in Nat /\ d.warned \in BOOLEAN
  BY DEF Decoders
<1>4. /\ h.long \in BOOLEAN /\ h.repeated \in BOOLEAN
      /\ h.wasted \in BOOLEAN /\ h.damaged \in BOOLEAN /\ h.shown \in Seq(DataTokens)
  BY DEF Histories
<1>. QED  BY <1>1, <1>2, <1>3, <1>4

(* Tokens are told apart.                                                    *)
LEMMA TokenFacts ==
  ASSUME NEW token \in Tokens
  PROVE  /\ token.marker \in BOOLEAN
         /\ token.marker => token.number \in {EOI, Bogus} \cup 0 .. Numbers - 1
         /\ ~token.marker =>
              /\ token \in DataTokens /\ token.segment \in 0 .. Segments - 1
              /\ token.mcu \in 1 .. Interval
              /\ token.marked \in BOOLEAN /\ token.whole \in BOOLEAN
BY DEF Tokens, MarkerTokens, DataTokens

(* Wasted is about the history alone.                                        *)
LEMMA WastedFacts ==
  ASSUME NEW s \in Calls, NEW tokens
  PROVE  LET t == Wasted(s, tokens)
         IN /\ t \in Calls
            /\ t.dec = s.dec /\ t.wire = s.wire /\ t.suspended = s.suspended
            /\ t.history.long = s.history.long /\ t.history.repeated = s.history.repeated
            /\ t.history.damaged = s.history.damaged /\ t.history.shown = s.history.shown
            /\ ~s.history.wasted /\ (\A i \in DOMAIN tokens : tokens[i].marker \/ ~tokens[i].whole)
                 => ~t.history.wasted
<1>. DEFINE x == s.history.wasted
                   \/ \E i \in DOMAIN tokens : ~tokens[i].marker /\ tokens[i].whole
            h == [s.history EXCEPT !.wasted = x]
<1>1. x \in BOOLEAN
  OBVIOUS
<1>2. ~s.history.wasted /\ (\A i \in DOMAIN tokens : tokens[i].marker \/ ~tokens[i].whole)
        => ~x
  OBVIOUS
<1>. HIDE DEF x
<1>3. s.history \in Histories
  BY CallFacts
<1>4. /\ h \in Histories /\ h.long = s.history.long /\ h.repeated = s.history.repeated
      /\ h.damaged = s.history.damaged /\ h.shown = s.history.shown /\ h.wasted = x
  BY <1>1, <1>3 DEF Histories
<1>5. Wasted(s, tokens) = [s EXCEPT !.history = h]
  BY DEF Wasted, x, Calls
<1>. HIDE DEF h
<1>6. /\ [s EXCEPT !.history = h] \in Calls /\ [s EXCEPT !.history = h].history = h
      /\ [s EXCEPT !.history = h].dec = s.dec /\ [s EXCEPT !.history = h].wire = s.wire
      /\ [s EXCEPT !.history = h].suspended = s.suspended
  BY <1>4 DEF Calls
<1>. QED  BY <1>2, <1>4, <1>5, <1>6

(* The first marker on the wire.                                             *)
LEMMA FirstMarker ==
  ASSUME NEW s \in Calls
  PROVE  /\ Markers(s) = {} => \A i \in 1 .. Len(s.wire) : ~s.wire[i].marker
         /\ Markers(s) # {} => /\ Min(Markers(s)) \in 1 .. Len(s.wire)
                               /\ s.wire[Min(Markers(s))].marker
                               /\ \A i \in 1 .. Min(Markers(s)) - 1 : ~s.wire[i].marker
<1>1. s.wire \in Seq(Tokens)
  BY CallFacts
<1>2. Markers(s) \subseteq Nat /\ Markers(s) \subseteq 1 .. Len(s.wire)
  BY <1>1 DEF Markers
<1>3. ASSUME Markers(s) # {}
      PROVE  /\ Min(Markers(s)) \in 1 .. Len(s.wire) /\ s.wire[Min(Markers(s))].marker
             /\ \A i \in 1 .. Min(Markers(s)) - 1 : ~s.wire[i].marker
  <2>1. PICK m \in Markers(s) : m = Min(Markers(s)) /\ \A y \in Markers(s) : m <= y
    BY <1>2, <1>3, MinIsLeast
  <2>2. m \in 1 .. Len(s.wire) /\ s.wire[m].marker
    BY <1>1 DEF Markers
  <2>3. ASSUME NEW i \in 1 .. m - 1
        PROVE  ~s.wire[i].marker
    <3>1. i \in DOMAIN s.wire /\ ~(m <= i)
      BY <1>1, <2>2
    <3>. QED  BY <2>1, <3>1 DEF Markers
  <2>. QED  BY <2>1, <2>2, <2>3
<1>4. ASSUME Markers(s) = {}
      PROVE  \A i \in 1 .. Len(s.wire) : ~s.wire[i].marker
  BY <1>1, <1>4 DEF Markers
<1>. QED  BY <1>3, <1>4

(* next_marker takes all that is there, or all up to a marker, which it      *)
(* reads.                                                                    *)
LEMMA NextMarkerFacts ==
  ASSUME NEW s \in Calls
  PROVE  LET t == NextMarker(s)
             Taken(k) ==
               /\ t.wire = After(s.wire, k) /\ t.dec.unread = s.wire[k].number
               /\ t.suspended = s.suspended
               /\ ~s.history.wasted
                    /\ (\A i \in 1 .. k - 1 : s.wire[i].marker \/ ~s.wire[i].whole)
                      => ~t.history.wasted
         IN /\ Keeps(s, t)
            /\ \/ /\ \A i \in 1 .. Len(s.wire) : ~s.wire[i].marker
                  /\ t.suspended /\ t.wire = <<>> /\ t.dec.unread = s.dec.unread
                  /\ ~s.history.wasted
                       /\ (\A i \in 1 .. Len(s.wire) : s.wire[i].marker \/ ~s.wire[i].whole)
                         => ~t.history.wasted
               \/ \E k \in 1 .. Len(s.wire) :
                    /\ s.wire[k].marker /\ \A i \in 1 .. k - 1 : ~s.wire[i].marker
                    /\ Taken(k)
<1>. DEFINE t == NextMarker(s)
<1>0. s.wire \in Seq(Tokens) /\ s.dec \in Decoders /\ s.history \in Histories
  BY CallFacts
<1>1. /\ s.wire \in Seq(Tokens) /\ s.dec \in Decoders /\ s.history \in Histories
      /\ Len(s.wire) \in Nat
  BY <1>0
<1>2. CASE Markers(s) = {}
  <2>. DEFINE r == Wasted(s, s.wire)
              d == [s.dec EXCEPT !.discarded = @ \/ s.wire # <<>>]
  <2>1. /\ r \in Calls /\ r.dec = s.dec /\ r.wire = s.wire /\ r.suspended = s.suspended
        /\ r.history.long = s.history.long /\ r.history.repeated = s.history.repeated
        /\ r.history.damaged = s.history.damaged /\ r.history.shown = s.history.shown
        /\ ~s.history.wasted /\ (\A i \in DOMAIN s.wire : s.wire[i].marker \/ ~s.wire[i].whole)
             => ~r.history.wasted
    BY WastedFacts
  <2>2. t = [r EXCEPT !.wire = <<>>, !.suspended = TRUE, !.dec.discarded = @ \/ s.wire # <<>>]
    BY <1>2 DEF NextMarker
  <2>. HIDE DEF r
  <2>3. t = [dec |-> d, wire |-> <<>>, history |-> r.history, suspended |-> TRUE]
    BY <2>1, <2>2 DEF Calls
  <2>4. /\ d \in Decoders /\ d.at = s.dec.at /\ d.bits = s.dec.bits /\ d.togo = s.dec.togo
        /\ d.insufficient = s.dec.insufficient /\ d.expects = s.dec.expects
        /\ d.warned = s.dec.warned /\ d.unread = s.dec.unread
    BY <1>1 DEF Decoders
  <2>. HIDE DEF d
  <2>5. r.history \in Histories
    BY <2>1, CallFacts
  <2>6. t \in Calls /\ t.dec = d /\ t.wire = <<>> /\ t.history = r.history /\ t.suspended
    BY <2>3, <2>4, <2>5 DEF Calls
  <2>7. Takes(s.wire, <<>>)
    <3>1. Len(s.wire) \in 0 .. Len(s.wire) /\ Len(<<>>) = Len(s.wire) - Len(s.wire)
          /\ \A i \in 1 .. Len(s.wire) - Len(s.wire) : <<>>[i] = s.wire[Len(s.wire) + i]
      BY <1>1
    <3>. QED  BY <3>1 DEF Takes
  <2>. HIDE DEF t
  <2>8. Keeps(s, t)
    BY <2>1, <2>4, <2>6, <2>7 DEF Keeps, Passes
  <2>9. \A i \in 1 .. Len(s.wire) : ~s.wire[i].marker
    BY <1>2, FirstMarker
  <2>10. DOMAIN s.wire = 1 .. Len(s.wire)
    BY <1>1
  <2>. QED  BY <2>1, <2>4, <2>6, <2>8, <2>9, <2>10 DEF t
<1>3. CASE Markers(s) # {}
  <2>1. PICK k \in 1 .. Len(s.wire) :
          /\ k = Min(Markers(s)) /\ s.wire[k].marker
          /\ \A i \in 1 .. k - 1 : ~s.wire[i].marker
    BY <1>3, FirstMarker
  <2>. DEFINE v == SubSeq(s.wire, 1, k - 1)
              r == Wasted(s, v)
              d == [s.dec EXCEPT !.unread = s.wire[k].number, !.discarded = FALSE,
                                 !.warned = @ \/ s.dec.discarded \/ k > 1]
  <2>2. /\ DOMAIN v = 1 .. k - 1 /\ \A i \in 1 .. k - 1 : v[i] = s.wire[i]
    <3>1. k - 1 \in 0 .. Len(s.wire)
      BY <1>1
    <3>. QED  BY <1>1, <3>1, PrefixFacts
  <2>. HIDE DEF v
  <2>3. /\ r \in Calls /\ r.dec = s.dec /\ r.wire = s.wire /\ r.suspended = s.suspended
        /\ r.history.long = s.history.long /\ r.history.repeated = s.history.repeated
        /\ r.history.damaged = s.history.damaged /\ r.history.shown = s.history.shown
        /\ ~s.history.wasted /\ (\A i \in DOMAIN v : v[i].marker \/ ~v[i].whole)
             => ~r.history.wasted
    BY WastedFacts
  <2>4. t = [r EXCEPT !.wire = After(s.wire, k), !.dec.unread = s.wire[k].number,
                      !.dec.discarded = FALSE,
                      !.dec.warned = @ \/ s.dec.discarded \/ k > 1]
    BY <1>3, <2>1 DEF NextMarker, v
  <2>. HIDE DEF r
  <2>5. t = [dec |-> d, wire |-> After(s.wire, k), history |-> r.history,
             suspended |-> s.suspended]
    BY <2>3, <2>4 DEF Calls, Decoders
  <2>6. s.wire[k] \in Tokens
    BY <1>1
  <2>7. s.wire[k].number \in {EOI, Bogus} \cup 0 .. Numbers - 1 /\ s.wire[k].number # None
    BY <2>1, <2>6, TokenFacts DEF EOI, Bogus, None
  <2>8. /\ d \in Decoders /\ d.at = s.dec.at /\ d.bits = s.dec.bits /\ d.togo = s.dec.togo
        /\ d.insufficient = s.dec.insufficient /\ d.expects = s.dec.expects
        /\ (s.dec.warned => d.warned) /\ d.unread = s.wire[k].number
    <3>1. (s.dec.warned \/ s.dec.discarded \/ k > 1) \in BOOLEAN
      BY <1>1
    <3>. QED  BY <1>1, <2>7, <3>1 DEF Decoders
  <2>. HIDE DEF d
  <2>9. /\ After(s.wire, k) \in Seq(Tokens) /\ Len(After(s.wire, k)) = Len(s.wire) - k
        /\ k \in 0 .. Len(s.wire)
        /\ \A i \in 1 .. Len(s.wire) - k : After(s.wire, k)[i] = s.wire[k + i]
    <3>1. k \in 0 .. Len(s.wire)
      BY <1>1
    <3>. QED  BY <1>1, <3>1, AfterFacts
  <2>10. r.history \in Histories /\ s.suspended \in BOOLEAN
    BY <2>3, CallFacts
  <2>11. /\ t \in Calls /\ t.dec = d /\ t.wire = After(s.wire, k) /\ t.history = r.history
         /\ t.suspended = s.suspended
    BY <2>5, <2>8, <2>9, <2>10 DEF Calls
  <2>12. Takes(s.wire, After(s.wire, k))
    BY <2>9 DEF Takes
  <2>. HIDE DEF t
  <2>13. Keeps(s, t)
    BY <2>3, <2>7, <2>8, <2>11, <2>12 DEF Keeps, Passes
  <2>14. ~s.history.wasted /\ (\A i \in 1 .. k - 1 : s.wire[i].marker \/ ~s.wire[i].whole)
           => ~t.history.wasted
    BY <2>2, <2>3, <2>11
  <2>. QED  BY <2>1, <2>8, <2>11, <2>13, <2>14 DEF t
<1>. QED  BY <1>2, <1>3

(* Where the decoder is in the middle of process_restart, with all MCUs of   *)
(* the segment taken: nothing that is worth it was passed over.              *)
Seeking(s, D, last) ==
  s.dec.togo = 0 /\ ~s.history.wasted /\ Placed(s, D, last)

(* What is passed over on the way to the next marker is worth nothing, and   *)
(* the way leads to where it should.                                         *)
LEMMA NextMarkerSeeks ==
  ASSUME NEW s \in Calls, NEW D \in Nat, NEW last \in Places, Seeking(s, D, last),
         s.dec.unread = None \/ ScanOn(s.dec.unread, D % Numbers)
  PROVE  Seeking(NextMarker(s), D, last)
<1>1. PICK a \in Places : Carries(s.wire, a, last) /\ At(s, a, D)
  BY DEF Seeking, Placed
<1>. DEFINE t == NextMarker(s)
<1>2. s.wire \in Seq(Tokens) /\ s.dec.togo = 0 /\ ~s.history.wasted
  BY CallFacts DEF Seeking
<1>3. Interval \in Nat \ {0} /\ Segments \in Nat \ {0} /\ Numbers \in Nat \ 0..4
  BY RestartAssumption
<1>4. a.segment \in Nat /\ a.fresh \in BOOLEAN /\ a.n \in Nat
  BY DEF Places
<1>5. a.segment = D /\ (a.fresh => a.n >= Interval)
  <2>1. CASE AtData(s, a, D)
    BY <1>2, <2>1 DEF AtData
  <2>2. CASE AtBogus(s, a, D)
    BY <2>2 DEF AtBogus
  <2>3. CASE AtMarker(s, a, D)
    <3>1. PICK u \in 1 .. Segments : u = a.segment /\ u \in D .. D + 3 /\ s.dec.unread = NumberOf(u)
      BY <2>3 DEF AtMarker
    <3>2. NumberOf(u) # None /\ NumberOf(u) # Bogus /\ (NumberOf(u) \in Behind(D % Numbers) => u = D)
      BY <3>1, NumberFacts
    <3>3. u = D
      BY <3>1, <3>2 DEF ScanOn
    <3>. QED  BY <2>3, <3>1, <3>3, <1>4 DEF AtMarker
  <2>. QED  BY <1>1, <2>1, <2>2, <2>3 DEF At
<1>6. /\ Keeps(s, t)
      /\ \/ /\ \A i \in 1 .. Len(s.wire) : ~s.wire[i].marker
            /\ t.suspended /\ t.wire = <<>> /\ t.dec.unread = s.dec.unread
            /\ ~s.history.wasted
                 /\ (\A i \in 1 .. Len(s.wire) : s.wire[i].marker \/ ~s.wire[i].whole)
                   => ~t.history.wasted
         \/ \E k \in 1 .. Len(s.wire) :
              /\ s.wire[k].marker /\ \A i \in 1 .. k - 1 : ~s.wire[i].marker
              /\ t.wire = After(s.wire, k) /\ t.dec.unread = s.wire[k].number
              /\ ~s.history.wasted
                   /\ (\A i \in 1 .. k - 1 : s.wire[i].marker \/ ~s.wire[i].whole)
                     => ~t.history.wasted
  BY NextMarkerFacts
<1>. HIDE DEF t
<1>7. t.dec.togo = 0
  BY <1>2, <1>6 DEF Keeps, Passes
<1>8. ASSUME NEW i \in 1 .. Len(s.wire), ~s.wire[i].marker,
             s.wire[i].whole => a.fresh /\ s.wire[i].mcu = a.n + i
      PROVE  ~s.wire[i].whole
  <2>1. s.wire[i] \in Tokens
    BY <1>2
  <2>2. s.wire[i].mcu \in 1 .. Interval
    BY <1>8, <2>1, TokenFacts
  <2>. QED  BY <1>3, <1>4, <1>5, <1>8, <2>2
<1>9. CASE /\ \A i \in 1 .. Len(s.wire) : ~s.wire[i].marker
           /\ t.wire = <<>> /\ t.dec.unread = s.dec.unread
           /\ ~s.history.wasted
                /\ (\A i \in 1 .. Len(s.wire) : s.wire[i].marker \/ ~s.wire[i].whole)
                  => ~t.history.wasted
  <2>1. /\ last = Further(a, Len(s.wire))
        /\ \A i \in 1 .. Len(s.wire) : s.wire[i].whole => a.fresh /\ s.wire[i].mcu = a.n + i
    <3>1. PICK w \in Seq(Tokens) : w = s.wire
      BY <1>2
    <3>2. Carries(w, a, last) /\ \A i \in 1 .. Len(w) : ~w[i].marker
      BY <1>1, <1>9, <3>1
    <3>3. /\ last = Further(a, Len(w))
          /\ \A i \in 1 .. Len(w) : /\ w[i].marked => w[i].segment = a.segment
                                    /\ w[i].whole => a.fresh /\ w[i].mcu = a.n + i
      BY <3>2, CarriesData, Zenon
    <3>. QED  BY <3>1, <3>3
  <2>2. ~t.history.wasted
    BY <1>2, <1>8, <1>9, <2>1
  <2>3. Carries(t.wire, last, last)
    BY <1>9, CarriesNothing
  <2>4. Len(s.wire) \in Nat
    BY <1>2
  <2>5. last.segment = a.segment /\ last.fresh = a.fresh /\ last.n = a.n + Len(s.wire)
    BY <2>1, <2>4, FurtherFacts
  <2>6. At(t, last, D)
    <3>1. CASE AtData(s, a, D)
      <4>1. last.fresh => last.n >= Interval
        BY <1>3, <1>4, <1>5, <2>4, <2>5
      <4>. QED  BY <1>5, <1>7, <1>9, <2>5, <3>1, <4>1 DEF At, AtData
    <3>2. CASE AtBogus(s, a, D)
      BY <1>9, <2>5, <3>2 DEF At, AtBogus
    <3>3. CASE AtMarker(s, a, D)
      <4>1. ~a.fresh
        BY <1>4, <1>5, <3>3 DEF AtMarker
      <4>. QED  BY <1>5, <1>9, <2>5, <3>3, <4>1 DEF At, AtMarker
    <3>. QED  BY <1>1, <3>1, <3>2, <3>3 DEF At
  <2>. QED  BY <1>7, <2>2, <2>3, <2>6 DEF Seeking, Placed, t
<1>10. ASSUME NEW k \in 1 .. Len(s.wire),
              s.wire[k].marker, \A i \in 1 .. k - 1 : ~s.wire[i].marker,
              t.wire = After(s.wire, k), t.dec.unread = s.wire[k].number,
              ~s.history.wasted
                /\ (\A i \in 1 .. k - 1 : s.wire[i].marker \/ ~s.wire[i].whole)
                  => ~t.history.wasted
       PROVE  Seeking(t, D, last)
  <2>1. /\ \A i \in 1 .. k - 1 : s.wire[i].whole => a.fresh /\ s.wire[i].mcu = a.n + i
        /\ \E c \in Places : /\ Carries(After(s.wire, k), c, last)
                             /\ \/ FollowsBogus(a, s.wire[k], c)
                                \/ FollowsMarker(a, s.wire[k], c)
    <3>1. PICK w \in Seq(Tokens) : w = s.wire
      BY <1>2
    <3>2. /\ Carries(w, a, last) /\ k \in 1 .. Len(w) /\ w[k].marker
          /\ \A i \in 1 .. k - 1 : ~w[i].marker
      BY <1>1, <1>10, <3>1
    <3>3. /\ \A i \in 1 .. k - 1 : /\ w[i].marked => w[i].segment = a.segment
                                   /\ w[i].whole => a.fresh /\ w[i].mcu = a.n + i
          /\ \E c \in Places : /\ Carries(After(w, k), c, last)
                               /\ \/ FollowsBogus(a, w[k], c)
                                  \/ FollowsMarker(a, w[k], c)
      BY <3>2, CarriesMarker, Zenon
    <3>. QED  BY <3>1, <3>3
  <2>2. \A i \in 1 .. k - 1 : i \in 1 .. Len(s.wire)
    BY <1>2
  <2>3. ~t.history.wasted
    BY <1>2, <1>8, <1>10, <2>1, <2>2
  <2>4. PICK c \in Places : /\ Carries(After(s.wire, k), c, last)
                            /\ \/ FollowsBogus(a, s.wire[k], c)
                               \/ FollowsMarker(a, s.wire[k], c)
    BY <2>1
  <2>5. At(t, c, D)
    <3>1. CASE FollowsBogus(a, s.wire[k], c)
      BY <1>5, <1>10, <3>1 DEF FollowsBogus, At, AtBogus
    <3>2. CASE FollowsMarker(a, s.wire[k], c)
      BY <1>5, <1>10, <3>2 DEF FollowsMarker, At, AtMarker
    <3>. QED  BY <2>4, <3>1, <3>2
  <2>. QED  BY <1>7, <1>10, <2>3, <2>4, <2>5 DEF Seeking, Placed
<1>. QED  BY <1>6, <1>9, <1>10 DEF t

(* Scanning on stays in a set that next_marker does not leave.               *)
LEMMA ScannedOnStays ==
  ASSUME NEW s \in Calls, NEW desired, NEW P, P \subseteq Calls, s \in P,
         \A t \in P : ~t.suspended /\ ScanOn(t.dec.unread, desired) => NextMarker(t) \in P
  PROVE  /\ ScannedOn(s, desired) \in P
         /\ \/ ScannedOn(s, desired).suspended
            \/ ~ScanOn(ScannedOn(s, desired).dec.unread, desired)
<1>. DEFINE One(t) == IF ~t.suspended /\ ScanOn(t.dec.unread, desired) THEN NextMarker(t) ELSE t
            len == Len(s.wire)
            IsStep(f, k) == f[0] = s /\ \A n \in 1 .. k : f[n] = One(f[n - 1])
            Body(f) == [n \in 0 .. len |-> IF n = 0 THEN s ELSE One(f[n - 1])]
            step == CHOOSE f : f = Body(f)
<1>1. len \in Nat /\ s.wire \in Seq(Tokens)
  <2>1. s.wire \in Seq(Tokens)
    BY CallFacts
  <2>. QED  BY <2>1
<1>2. ASSUME NEW t \in P
      PROVE  One(t) \in P
  OBVIOUS
<1>3. ScannedOn(s, desired) = One(step[len])
  BY DEF ScannedOn
<1>. HIDE DEF One
<1>4. \E f \in [0 .. len -> P] : IsStep(f, len)
  <2>. DEFINE S == {k \in 0 .. len : \E f \in [0 .. len -> P] : IsStep(f, k)}
  <2>1. 0 \in S
    <3>1. [n \in 0 .. len |-> s] \in [0 .. len -> P] /\ [n \in 0 .. len |-> s][0] = s
      BY <1>1
    <3>. QED  BY <1>1, <3>1
  <2>2. ASSUME NEW n \in 0 .. len - 1, n \in S
        PROVE  n + 1 \in S
    <3>1. PICK f \in [0 .. len -> P] : IsStep(f, n)
      BY <2>2
    <3>. DEFINE g == [f EXCEPT ![n + 1] = One(f[n])]
    <3>2. n \in 0 .. len /\ n + 1 \in 0 .. len /\ n + 1 # 0
      BY <1>1
    <3>3. f[n] \in P /\ One(f[n]) \in P
      BY <1>2, <3>2
    <3>4. g \in [0 .. len -> P] /\ g[n + 1] = One(f[n]) /\ \A m \in 0 .. n : g[m] = f[m]
      BY <1>1, <3>2, <3>3
    <3>. HIDE DEF g
    <3>5. ASSUME NEW m \in 1 .. n + 1
          PROVE  g[m] = One(g[m - 1])
      <4>1. CASE m = n + 1
        <5>1. m - 1 = n /\ n \in 0 .. n
          BY <3>2, <4>1
        <5>. QED  BY <3>4, <4>1, <5>1
      <4>2. CASE m # n + 1
        <5>1. m \in 1 .. n /\ m \in 0 .. n /\ m - 1 \in 0 .. n
          BY <3>2, <4>2
        <5>. QED  BY <3>1, <3>4, <5>1
      <4>. QED  BY <4>1, <4>2
    <3>6. g[0] = s
      <4>1. 0 \in 0 .. n
        BY <3>2
      <4>. QED  BY <3>1, <3>4, <4>1
    <3>. QED  BY <3>2, <3>4, <3>5, <3>6
  <2>. HIDE DEF S
  <2>3. len \in S
    BY <1>1, <2>1, <2>2, Reached
  <2>. QED  BY <2>3 DEF S
<1>5. PICK f \in [0 .. len -> P] : IsStep(f, len)
  BY <1>4
<1>6. f = Body(f)
  <2>1. ASSUME NEW n \in 0 .. len
        PROVE  f[n] = IF n = 0 THEN s ELSE One(f[n - 1])
    <3>1. n = 0 \/ n \in 1 .. len
      BY <1>1
    <3>. QED  BY <1>5, <3>1
  <2>2. Body(f) = [n \in 0 .. len |-> f[n]]
    BY <2>1
  <2>. QED  BY <2>2
<1>7. step = Body(step)
  BY <1>6
<1>. HIDE DEF step
<1>8. step[0] = s /\ \A n \in 1 .. len : step[n] = One(step[n - 1])
  <2>1. ASSUME NEW n \in 0 .. len
        PROVE  step[n] = IF n = 0 THEN s ELSE One(step[n - 1])
    BY <1>7
  <2>2. 0 \in 0 .. len /\ \A n \in 1 .. len : n \in 0 .. len /\ n # 0
    BY <1>1
  <2>. QED  BY <2>1, <2>2
<1>. DEFINE Settled(t) == t.suspended \/ ~ScanOn(t.dec.unread, desired)
            S == {n \in 0 .. len : step[n] \in P /\ (Settled(step[n]) \/ Len(step[n].wire) <= len - n)}
<1>9. 0 \in S
  BY <1>1, <1>8
<1>10. ASSUME NEW n \in 0 .. len - 1, n \in S
       PROVE  n + 1 \in S
  <2>1. /\ n + 1 \in 1 .. len /\ n + 1 \in 0 .. len /\ n + 1 - 1 = n
        /\ len - (n + 1) = len - n - 1 /\ n \in Nat
    BY <1>1
  <2>2. step[n + 1] = One(step[n])
    <3>1. PICK m \in 1 .. len : m = n + 1
      BY <2>1
    <3>. QED  BY <1>8, <2>1, <3>1
  <2>3. PICK t \in P : t = step[n]
    BY <1>10
  <2>4. One(t) \in P
    BY <1>2
  <2>5. CASE Settled(t)
    <3>1. One(t) = t
      BY <2>5 DEF One
    <3>. QED  BY <2>1, <2>2, <2>3, <2>5, <3>1
  <2>6. CASE ~Settled(t)
    <3>1. One(t) = NextMarker(t)
      BY <2>6 DEF One
    <3>2. /\ t \in Calls /\ Len(t.wire) <= len - n /\ t.wire \in Seq(Tokens)
      BY <1>10, <2>3, <2>6, CallFacts
    <3>3. NextMarker(t).suspended \/ \E k \in 1 .. Len(t.wire) : NextMarker(t).wire = After(t.wire, k)
      BY <3>2, NextMarkerFacts
    <3>4. CASE NextMarker(t).suspended
      BY <2>1, <2>2, <2>3, <2>4, <3>1, <3>4
    <3>5. ASSUME NEW k \in 1 .. Len(t.wire), NextMarker(t).wire = After(t.wire, k)
          PROVE  n + 1 \in S
      <4>1. Len(After(t.wire, k)) = Len(t.wire) - k /\ k >= 1 /\ Len(t.wire) \in Nat /\ k \in Nat
        <5>1. PICK w \in Seq(Tokens) : w = t.wire
          BY <3>2
        <5>2. Len(w) \in Nat /\ k \in 1 .. Len(w) /\ k \in 0 .. Len(w)
          BY <5>1
        <5>3. Len(After(w, k)) = Len(w) - k
          BY <5>2, AfterFacts
        <5>. QED  BY <5>1, <5>2, <5>3
      <4>2. Len(step[n + 1].wire) <= len - (n + 1)
        BY <1>1, <2>1, <2>2, <2>3, <3>1, <3>2, <3>5, <4>1
      <4>. QED  BY <2>1, <2>2, <2>3, <2>4, <4>2
    <3>. QED  BY <3>3, <3>4, <3>5
  <2>. QED  BY <2>5, <2>6
<1>11. len \in S
  <2>. HIDE DEF S
  <2>. QED  BY <1>1, <1>9, <1>10, Reached
<1>12. PICK t \in P : t = step[len]
  BY <1>11
<1>13. Settled(t) \/ Len(t.wire) <= 0
  BY <1>1, <1>11, <1>12
<1>14. CASE Settled(t)
  <2>1. One(t) = t
    BY <1>14 DEF One
  <2>. QED  BY <1>3, <1>12, <1>14, <2>1
<1>15. CASE ~Settled(t)
  <2>1. One(t) = NextMarker(t)
    BY <1>15 DEF One
  <2>2. t \in Calls /\ t.wire \in Seq(Tokens)
    BY CallFacts
  <2>3. NextMarker(t).suspended \/ \E k \in 1 .. Len(t.wire) : NextMarker(t).wire = After(t.wire, k)
    BY <2>2, NextMarkerFacts
  <2>4. NextMarker(t).suspended
    BY <1>13, <1>15, <2>2, <2>3
  <2>. QED  BY <1>2, <1>3, <1>12, <2>1, <2>4
<1>. QED  BY <1>14, <1>15

(* A field of the decoder is set.                                            *)
LEMMA SetFacts ==
  ASSUME NEW s \in Calls
  PROVE  /\ \A x \in {None, EOI, Bogus} \cup 0 .. Numbers - 1 :
              LET t == [s EXCEPT !.dec.unread = x]
              IN /\ Passes(s, t) /\ t.dec.unread = x /\ t.dec.expects = s.dec.expects
                 /\ t.wire = s.wire /\ t.history = s.history /\ t.suspended = s.suspended
         /\ \A x \in 0 .. Numbers - 1 :
              LET t == [s EXCEPT !.dec.expects = x]
              IN /\ Passes(s, t) /\ t.dec.unread = s.dec.unread /\ t.dec.expects = x
                 /\ t.wire = s.wire /\ t.history = s.history /\ t.suspended = s.suspended
         /\ /\ Keeps(s, WarnOf(s)) /\ WarnOf(s).dec.unread = s.dec.unread
            /\ WarnOf(s).wire = s.wire /\ WarnOf(s).history = s.history
            /\ WarnOf(s).suspended = s.suspended /\ WarnOf(s).dec.warned
<1>. DEFINE Put(d) == [s EXCEPT !.dec = d]
<1>1. s.dec \in Decoders
  BY CallFacts
<1>2. ASSUME NEW d \in Decoders
      PROVE  /\ Put(d) \in Calls /\ Put(d).dec = d /\ Put(d).wire = s.wire
             /\ Put(d).history = s.history /\ Put(d).suspended = s.suspended
  BY DEF Calls
<1>3. ASSUME NEW d \in Decoders,
             d.at = s.dec.at, d.bits = s.dec.bits, d.togo = s.dec.togo,
             d.insufficient = s.dec.insufficient, s.dec.warned => d.warned
      PROVE  Passes(s, Put(d))
  <2>1. Takes(s.wire, s.wire)
    BY PassesOnes DEF Passes
  <2>. HIDE DEF Put
  <2>. QED  BY <1>2, <1>3, <2>1 DEF Passes
<1>4. ASSUME NEW x \in {None, EOI, Bogus} \cup 0 .. Numbers - 1
      PROVE  LET t == [s EXCEPT !.dec.unread = x]
             IN /\ Passes(s, t) /\ t.dec.unread = x /\ t.dec.expects = s.dec.expects
                /\ t.wire = s.wire /\ t.history = s.history /\ t.suspended = s.suspended
  <2>. DEFINE d == [s.dec EXCEPT !.unread = x]
  <2>1. [s EXCEPT !.dec.unread = x] = Put(d)
    BY DEF Calls
  <2>2. /\ d \in Decoders /\ d.at = s.dec.at /\ d.bits = s.dec.bits /\ d.togo = s.dec.togo
        /\ d.insufficient = s.dec.insufficient /\ d.warned = s.dec.warned
        /\ d.unread = x /\ d.expects = s.dec.expects
    BY <1>1 DEF Decoders
  <2>. HIDE DEF d, Put
  <2>. QED  BY <1>2, <1>3, <2>1, <2>2
<1>5. ASSUME NEW x \in 0 .. Numbers - 1
      PROVE  LET t == [s EXCEPT !.dec.expects = x]
             IN /\ Passes(s, t) /\ t.dec.unread = s.dec.unread /\ t.dec.expects = x
                /\ t.wire = s.wire /\ t.history = s.history /\ t.suspended = s.suspended
  <2>. DEFINE d == [s.dec EXCEPT !.expects = x]
  <2>1. [s EXCEPT !.dec.expects = x] = Put(d)
    BY DEF Calls
  <2>2. /\ d \in Decoders /\ d.at = s.dec.at /\ d.bits = s.dec.bits /\ d.togo = s.dec.togo
        /\ d.insufficient = s.dec.insufficient /\ d.warned = s.dec.warned
        /\ d.unread = s.dec.unread /\ d.expects = x
    BY <1>1 DEF Decoders
  <2>. HIDE DEF d, Put
  <2>. QED  BY <1>2, <1>3, <2>1, <2>2
<1>6. /\ Keeps(s, WarnOf(s)) /\ WarnOf(s).dec.unread = s.dec.unread
      /\ WarnOf(s).wire = s.wire /\ WarnOf(s).history = s.history
      /\ WarnOf(s).suspended = s.suspended /\ WarnOf(s).dec.warned
  <2>. DEFINE d == [s.dec EXCEPT !.warned = TRUE]
  <2>1. WarnOf(s) = Put(d)
    BY DEF Calls, WarnOf
  <2>2. /\ d \in Decoders /\ d.at = s.dec.at /\ d.bits = s.dec.bits /\ d.togo = s.dec.togo
        /\ d.insufficient = s.dec.insufficient /\ d.warned
        /\ d.unread = s.dec.unread /\ d.expects = s.dec.expects
    BY <1>1 DEF Decoders
  <2>. HIDE DEF d, Put
  <2>. QED  BY <1>2, <1>3, <2>1, <2>2 DEF Keeps
<1>. QED  BY <1>4, <1>5, <1>6

(* jpeg_resync_to_restart keeps what it is not about, and suspends with a    *)
(* marker unread.                                                            *)
LEMMA ResyncFacts ==
  ASSUME NEW s \in Calls, NEW desired, s.dec.unread # None
  PROVE  LET t == ResyncToRestart(s, desired)
         IN /\ Passes(s, t) /\ t.dec.expects = s.dec.expects
            /\ t.suspended => t.dec.unread # None
<1>. DEFINE P == {t \in Calls : Keeps(s, t)}
            t == ScannedOn(WarnOf(s), desired)
<1>1. WarnOf(s) \in P /\ WarnOf(s) \in Calls
  BY SetFacts DEF Keeps, Passes
<1>2. \A u \in P : NextMarker(u) \in P
  <2>1. ASSUME NEW u \in P
        PROVE  NextMarker(u) \in P
    <3>1. Keeps(u, NextMarker(u)) /\ Keeps(s, u)
      BY NextMarkerFacts
    <3>2. Keeps(s, NextMarker(u))
      BY <3>1, KeepsKeeps
    <3>. QED  BY <3>2 DEF Keeps, Passes
  <2>. QED  BY <2>1
<1>3. t \in P
  <2>1. P \subseteq Calls
    OBVIOUS
  <2>. HIDE DEF P
  <2>. QED  BY <1>1, <1>2, <2>1, ScannedOnStays
<1>. HIDE DEF t
<1>4. Keeps(s, t) /\ t \in Calls
  BY <1>3
<1>5. CASE t.suspended \/ LeaveUnread(t.dec.unread, desired)
  BY <1>4, <1>5 DEF ResyncToRestart, t, Keeps
<1>6. CASE ~(t.suspended \/ LeaveUnread(t.dec.unread, desired))
  <2>. DEFINE u == [t EXCEPT !.dec.unread = None]
  <2>1. ResyncToRestart(s, desired) = u
    BY <1>6 DEF ResyncToRestart, t
  <2>2. Passes(t, u) /\ u.dec.expects = t.dec.expects /\ u.suspended = t.suspended
    BY <1>4, SetFacts
  <2>. HIDE DEF u
  <2>. QED  BY <1>4, <1>6, <2>1, <2>2, PassesPasses DEF Keeps
<1>. QED  BY <1>5, <1>6

(* Where the decoder is behind the next restart marker, or its place.        *)
Found(s, D, last) ==
  /\ s.dec.togo = 0 /\ ~s.history.wasted
  /\ \E a \in Places :
       /\ Carries(s.wire, a, last)
       /\ \/ s.dec.unread = None /\ a.segment = D + 1 /\ (a.fresh => a.n = 0)
          \/ AtMarker(s, a, D + 1)

(* With the marker that was due gone from unread_marker, the decoder is      *)
(* there.                                                                    *)
LEMMA MarkerTaken ==
  ASSUME NEW s \in Calls, NEW D \in Nat, NEW last \in Places, Seeking(s, D, last),
         s.dec.unread # None, ~ScanOn(s.dec.unread, D % Numbers),
         ~LeaveUnread(s.dec.unread, D % Numbers)
  PROVE  Found([s EXCEPT !.dec.unread = None], D, last)
<1>1. PICK a \in Places : Carries(s.wire, a, last) /\ At(s, a, D)
  BY DEF Seeking, Placed
<1>. DEFINE t == [s EXCEPT !.dec.unread = None]
<1>2. /\ Passes(s, t) /\ t.dec.unread = None /\ t.wire = s.wire /\ t.history = s.history
  BY SetFacts
<1>. HIDE DEF t
<1>3. ~AtData(s, a, D) /\ ~AtBogus(s, a, D)
  BY DEF AtData, AtBogus, ScanOn
<1>4. PICK u \in 1 .. Segments : u = a.segment /\ u \in D .. D + 3 /\ s.dec.unread = NumberOf(u)
  BY <1>1, <1>3 DEF At, AtMarker
<1>5. u = D + 1
  BY <1>4, NumberFacts
<1>6. a.fresh => a.n = 0
  BY <1>1, <1>3 DEF At, AtMarker
<1>7. t.dec.togo = 0 /\ ~t.history.wasted
  BY <1>2 DEF Seeking, Passes
<1>. QED  BY <1>1, <1>2, <1>4, <1>5, <1>6, <1>7 DEF Found, t

(* jpeg_resync_to_restart gives up in the middle, or is at the next marker   *)
(* or its place.                                                             *)
LEMMA ResyncSeeks ==
  ASSUME NEW s \in Calls, NEW D \in Nat, NEW last \in Places, Seeking(s, D, last),
         s.dec.unread # None, D + 1 <= Segments - 1
  PROVE  LET t == ResyncToRestart(s, D % Numbers)
         IN IF t.suspended THEN Seeking(t, D, last) ELSE Found(t, D, last)
<1>. DEFINE desired == D % Numbers
            P == {t \in Calls : Seeking(t, D, last) /\ t.dec.unread # None}
            t == ScannedOn(WarnOf(s), desired)
<1>1. WarnOf(s) \in P /\ WarnOf(s) \in Calls
  <2>1. /\ WarnOf(s) \in Calls /\ WarnOf(s).dec.unread = s.dec.unread
        /\ WarnOf(s).wire = s.wire /\ WarnOf(s).history = s.history
        /\ WarnOf(s).dec.togo = s.dec.togo /\ WarnOf(s).dec.bits = s.dec.bits
    BY SetFacts DEF Keeps, Passes
  <2>2. Seeking(WarnOf(s), D, last)
    BY <2>1 DEF Seeking, Placed, At, AtData, AtBogus, AtMarker
  <2>. QED  BY <2>1, <2>2
<1>2. ASSUME NEW u \in P, ScanOn(u.dec.unread, desired)
      PROVE  NextMarker(u) \in P
  <2>1. Keeps(u, NextMarker(u))
    BY NextMarkerFacts
  <2>2. Seeking(NextMarker(u), D, last)
    <3>1. u \in Calls /\ Seeking(u, D, last) /\ ScanOn(u.dec.unread, D % Numbers)
      BY <1>2
    <3>. QED  BY <3>1, NextMarkerSeeks
  <2>. QED  BY <2>1, <2>2 DEF Keeps, Passes
<1>3. t \in P /\ (t.suspended \/ ~ScanOn(t.dec.unread, desired))
  <2>1. P \subseteq Calls
    OBVIOUS
  <2>. HIDE DEF P
  <2>. QED  BY <1>1, <1>2, <2>1, ScannedOnStays
<1>. HIDE DEF t
<1>4. CASE t.suspended
  BY <1>3, <1>4 DEF ResyncToRestart, t
<1>5. CASE ~t.suspended /\ LeaveUnread(t.dec.unread, desired)
  <2>1. ResyncToRestart(s, desired) = t
    BY <1>5 DEF ResyncToRestart, t
  <2>2. PICK a \in Places : Carries(t.wire, a, last) /\ At(t, a, D)
    BY <1>3 DEF Seeking, Placed
  <2>3. AtMarker(t, a, D)
    <3>1. ~AtData(t, a, D)
      BY <1>3 DEF AtData
    <3>2. Bogus \notin Ahead(desired) /\ Bogus # EOI
      <4>1. Numbers \in Nat \ {0} /\ desired \in Int
        <5>1. Numbers \in Nat \ {0}
          BY RestartAssumption
        <5>. QED  BY <5>1, Quotient
      <4>2. PICK x \in Int, y \in Int : x = desired + 1 /\ y = desired + 2
        BY <4>1
      <4>3. x % Numbers \in 0 .. Numbers - 1 /\ y % Numbers \in 0 .. Numbers - 1
        BY <4>1, Quotient
      <4>. QED  BY <4>2, <4>3 DEF Ahead, Bogus, EOI
    <3>3. ~AtBogus(t, a, D)
      BY <1>5, <3>2 DEF AtBogus, LeaveUnread
    <3>. QED  BY <2>2, <3>1, <3>3 DEF At
  <2>4. PICK u \in 1 .. Segments : u = a.segment /\ u \in D .. D + 3 /\ t.dec.unread = NumberOf(u)
    BY <2>3 DEF AtMarker
  <2>5. u \in {D + 2, D + 3, Segments}
    BY <1>5, <2>4, NumberFacts
  <2>6. u \in D + 1 .. D + 4 /\ u > D + 1
    <3>1. Segments \in Nat
      BY RestartAssumption
    <3>. QED  BY <2>4, <2>5, <3>1
  <2>7. AtMarker(t, a, D + 1)
    <3>1. PICK e \in Nat : e = D + 1
      OBVIOUS
    <3>2. a.segment \in e .. e + 3 /\ a.segment > e
      BY <2>4, <2>6, <3>1
    <3>3. AtMarker(t, a, e)
      BY <2>3, <3>2 DEF AtMarker
    <3>. QED  BY <3>1, <3>3
  <2>. QED  BY <1>3, <1>5, <2>1, <2>2, <2>7 DEF Found, Seeking
<1>6. CASE ~t.suspended /\ ~LeaveUnread(t.dec.unread, desired)
  <2>1. ResyncToRestart(s, desired) = [t EXCEPT !.dec.unread = None]
    BY <1>6 DEF ResyncToRestart, t
  <2>2. t \in Calls /\ Seeking(t, D, last) /\ t.dec.unread # None
        /\ ~ScanOn(t.dec.unread, desired)
    BY <1>3, <1>6
  <2>3. [t EXCEPT !.dec.unread = None].suspended = t.suspended
    BY <2>2 DEF Calls
  <2>4. Found([t EXCEPT !.dec.unread = None], D, last)
    BY <1>6, <2>2, MarkerTaken
  <2>. QED  BY <1>6, <2>1, <2>3, <2>4
<1>. QED  BY <1>4, <1>5, <1>6

(* read_restart_marker: only when it is done a new number is expected.       *)
LEMMA ReadFacts ==
  ASSUME NEW s \in Calls
  PROVE  LET t == ReadRestartMarker(s)
         IN /\ Passes(s, t)
            /\ t.suspended => /\ t.dec.expects = s.dec.expects
                              /\ s.dec.unread # None => t.dec.unread # None
            /\ ~t.suspended => t.dec.expects = (s.dec.expects + 1) % Numbers
<1>. DEFINE r == IF s.dec.unread = None THEN NextMarker(s) ELSE s
            t == MarkerRead(r)
<1>1. r \in Calls /\ Keeps(s, r) /\ (~r.suspended => r.dec.unread # None)
  <2>1. CASE s.dec.unread = None
    <3>1. /\ Keeps(s, NextMarker(s))
          /\ \/ NextMarker(s).suspended
             \/ \E k \in 1 .. Len(s.wire) :
                  s.wire[k].marker /\ NextMarker(s).dec.unread = s.wire[k].number
      BY NextMarkerFacts
    <3>2. \A k \in 1 .. Len(s.wire) : s.wire[k].marker => s.wire[k].number # None
      <4>1. s.wire \in Seq(Tokens)
        BY CallFacts
      <4>2. \A k \in 1 .. Len(s.wire) : s.wire[k] \in Tokens
        BY <4>1
      <4>. QED  BY <4>2, TokenFacts DEF None, EOI, Bogus
    <3>. QED  BY <2>1, <3>1, <3>2 DEF Keeps, Passes
  <2>2. CASE s.dec.unread # None
    BY <2>2, PassesOnes DEF Keeps
  <2>. QED  BY <2>1, <2>2
<1>. HIDE DEF r
<1>2. /\ Passes(r, t) /\ t.dec.expects = r.dec.expects
      /\ t.suspended => (r.dec.unread # None => t.dec.unread # None)
  <2>1. CASE r.suspended
    BY <1>1, <2>1, PassesOnes DEF MarkerRead
  <2>2. CASE ~r.suspended /\ r.dec.unread = r.dec.expects
    <3>1. t = [r EXCEPT !.dec.unread = None]
      BY <2>2 DEF MarkerRead
    <3>2. /\ Passes(r, t) /\ t.dec.expects = r.dec.expects /\ t.suspended = r.suspended
      BY <1>1, <3>1, SetFacts
    <3>. QED  BY <2>2, <3>2
  <2>3. CASE ~r.suspended /\ r.dec.unread # r.dec.expects
    <3>1. t = ResyncToRestart(r, r.dec.expects)
      BY <2>3 DEF MarkerRead
    <3>. QED  BY <1>1, <2>3, <3>1, ResyncFacts
  <2>. QED  BY <2>1, <2>2, <2>3
<1>. HIDE DEF t
<1>3. ReadRestartMarker(s) = IF t.suspended THEN t ELSE [t EXCEPT !.dec.expects = (@ + 1) % Numbers]
  BY DEF ReadRestartMarker, t, r
<1>4. Passes(s, t) /\ t.dec.expects = s.dec.expects /\ t \in Calls
  BY <1>1, <1>2, PassesPasses DEF Keeps, Passes
<1>5. CASE t.suspended
  BY <1>1, <1>2, <1>3, <1>4, <1>5 DEF Keeps
<1>6. CASE ~t.suspended
  <2>. DEFINE x == (t.dec.expects + 1) % Numbers
  <2>1. x \in 0 .. Numbers - 1
    <3>0. t.dec.expects \in 0 .. Numbers - 1
      BY <1>4, CallFacts
    <3>1. Numbers \in Nat \ {0} /\ t.dec.expects \in 0 .. Numbers - 1
      BY <3>0, RestartAssumption
    <3>2. PICK y \in Int : y = t.dec.expects + 1
      BY <3>1
    <3>. QED  BY <3>1, <3>2, Quotient
  <2>2. [t EXCEPT !.dec.expects = (@ + 1) % Numbers] = [t EXCEPT !.dec.expects = x]
    BY <1>4 DEF Calls
  <2>. HIDE DEF x
  <2>3. /\ Passes(t, [t EXCEPT !.dec.expects = x]) /\ [t EXCEPT !.dec.expects = x].dec.expects = x
        /\ [t EXCEPT !.dec.expects = x].suspended = t.suspended
    BY <1>4, <2>1, SetFacts
  <2>4. x = (s.dec.expects + 1) % Numbers
    BY <1>4 DEF x
  <2>. QED  BY <1>3, <1>4, <1>6, <2>2, <2>3, <2>4, PassesPasses
<1>. QED  BY <1>5, <1>6

(* ... and then the decoder is at the next marker or its place.              *)
LEMMA ReadSeeks ==
  ASSUME NEW s \in Calls, NEW D \in Nat, NEW last \in Places, Seeking(s, D, last),
         s.dec.expects = D % Numbers, D + 1 <= Segments - 1, ~s.suspended
  PROVE  LET t == ReadRestartMarker(s)
         IN IF t.suspended THEN Seeking(t, D, last) ELSE Found(t, D, last)
<1>. DEFINE r == IF s.dec.unread = None THEN NextMarker(s) ELSE s
            t == MarkerRead(r)
<1>1. /\ r \in Calls /\ Seeking(r, D, last) /\ r.dec.expects = D % Numbers
      /\ ~r.suspended => r.dec.unread # None
  <2>1. CASE s.dec.unread = None
    <3>1. /\ Keeps(s, NextMarker(s))
          /\ \/ NextMarker(s).suspended
             \/ \E k \in 1 .. Len(s.wire) :
                  s.wire[k].marker /\ NextMarker(s).dec.unread = s.wire[k].number
      BY NextMarkerFacts
    <3>2. \A k \in 1 .. Len(s.wire) : s.wire[k].marker => s.wire[k].number # None
      <4>1. s.wire \in Seq(Tokens)
        BY CallFacts
      <4>2. \A k \in 1 .. Len(s.wire) : s.wire[k] \in Tokens
        BY <4>1
      <4>. QED  BY <4>2, TokenFacts DEF None, EOI, Bogus
    <3>3. Seeking(NextMarker(s), D, last)
      BY <2>1, NextMarkerSeeks
    <3>. QED  BY <2>1, <3>1, <3>2, <3>3 DEF Keeps, Passes
  <2>2. CASE s.dec.unread # None
    BY <2>2
  <2>. QED  BY <2>1, <2>2
<1>. HIDE DEF r
<1>2. Numbers \in Nat \ {0} /\ Numbers \in Nat \ 0..4
  BY RestartAssumption
<1>3. t \in Calls /\ IF t.suspended THEN Seeking(t, D, last) ELSE Found(t, D, last)
  <2>1. CASE r.suspended
    BY <1>1, <2>1 DEF MarkerRead
  <2>2. CASE ~r.suspended /\ r.dec.unread = r.dec.expects
    <3>1. t = [r EXCEPT !.dec.unread = None]
      BY <2>2 DEF MarkerRead
    <3>2. Passes(r, t) /\ t.suspended = r.suspended
      <4>1. /\ Passes(r, [r EXCEPT !.dec.unread = None])
            /\ [r EXCEPT !.dec.unread = None].suspended = r.suspended
        <5>1. r \in Calls /\ None \in {None, EOI, Bogus} \cup 0 .. Numbers - 1
          BY <1>1
        <5>2. \A x \in {None, EOI, Bogus} \cup 0 .. Numbers - 1 :
                /\ Passes(r, [r EXCEPT !.dec.unread = x])
                /\ [r EXCEPT !.dec.unread = x].suspended = r.suspended
          BY <5>1, SetFacts, Zenon
        <5>. QED  BY <5>1, <5>2, Zenon
      <4>. QED  BY <3>1, <4>1
    <3>3. ~ScanOn(r.dec.unread, D % Numbers) /\ ~LeaveUnread(r.dec.unread, D % Numbers)
      <4>1. PICK a \in Places : At(r, a, D)
        BY <1>1 DEF Seeking, Placed
      <4>2. D % Numbers \in 0 .. Numbers - 1
        BY <1>2, Quotient
      <4>3. ~AtData(r, a, D) /\ ~AtBogus(r, a, D)
        BY <1>1, <1>2, <2>2, <4>2 DEF AtData, AtBogus, None, Bogus
      <4>4. PICK u \in 1 .. Segments : u \in D .. D + 3 /\ r.dec.unread = NumberOf(u)
        BY <4>1, <4>3 DEF At, AtMarker
      <4>5. u = D + 1
        BY <1>1, <2>2, <4>4, NumberFacts
      <4>6. /\ r.dec.unread \in Behind(D % Numbers) => u = D
            /\ r.dec.unread # Bogus
            /\ LeaveUnread(r.dec.unread, D % Numbers) => u \in {D + 2, D + 3, Segments}
        BY <4>4, NumberFacts
      <4>7. Segments \in Nat /\ u # D /\ u # Segments /\ u # D + 2 /\ u # D + 3
        BY <4>5, RestartAssumption
      <4>. QED  BY <4>6, <4>7 DEF ScanOn
    <3>4. Found([r EXCEPT !.dec.unread = None], D, last)
      BY <1>1, <2>2, <3>3, MarkerTaken
    <3>. QED  BY <2>2, <3>1, <3>2, <3>4 DEF Passes
  <2>3. CASE ~r.suspended /\ r.dec.unread # r.dec.expects
    <3>1. t = ResyncToRestart(r, D % Numbers)
      BY <1>1, <2>3 DEF MarkerRead
    <3>2. t \in Calls
      BY <1>1, <2>3, <3>1, ResyncFacts DEF Passes
    <3>. QED  BY <1>1, <2>3, <3>1, <3>2, ResyncSeeks
  <2>. QED  BY <2>1, <2>2, <2>3
<1>. HIDE DEF t
<1>4. ReadRestartMarker(s) = IF t.suspended THEN t ELSE [t EXCEPT !.dec.expects = (@ + 1) % Numbers]
  BY DEF ReadRestartMarker, t, r
<1>5. CASE t.suspended
  BY <1>3, <1>4, <1>5
<1>6. CASE ~t.suspended
  <2>. DEFINE x == (t.dec.expects + 1) % Numbers
              u == [t EXCEPT !.dec.expects = x]
  <2>1. x \in 0 .. Numbers - 1
    <3>1. t.dec.expects \in 0 .. Numbers - 1
      BY <1>3, CallFacts
    <3>2. PICK y \in Int : y = t.dec.expects + 1
      BY <3>1
    <3>. QED  BY <1>2, <3>2, Quotient
  <2>2. [t EXCEPT !.dec.expects = (@ + 1) % Numbers] = u
    BY <1>3 DEF Calls
  <2>. HIDE DEF x
  <2>3. /\ Passes(t, u) /\ u.dec.unread = t.dec.unread /\ u.wire = t.wire
        /\ u.history = t.history /\ u.suspended = t.suspended
    BY <1>3, <2>1, SetFacts
  <2>. HIDE DEF u
  <2>4. Found(u, D, last)
    BY <1>3, <1>6, <2>3 DEF Found, AtMarker, Passes
  <2>. QED  BY <1>4, <1>6, <2>2, <2>3, <2>4
<1>. QED  BY <1>5, <1>6

(* MCUs loaded but not yet decoded are those next in their segment.          *)
BitsFit(s, D) ==
  \A k \in DOMAIN s.dec.bits :
    /\ s.dec.bits[k].marked => s.dec.bits[k].segment = D
    /\ s.dec.bits[k].whole => s.dec.bits[k].mcu = Interval - s.dec.togo + k

(* process_restart drops what is loaded: with all MCUs of the segment taken  *)
(* it is worth nothing.                                                      *)
Dropped(s, byte) ==
  [Wasted(s, s.dec.bits)
     EXCEPT !.dec.bits = <<>>,
            !.dec.discarded = @ \/ (byte /\ (s.dec.bits # <<>> \/ s.dec.insufficient))]

(* Discarding what is loaded changes nothing else.                           *)
LEMMA DroppedFacts ==
  ASSUME NEW s \in Calls, NEW byte \in BOOLEAN
  PROVE  LET t == Dropped(s, byte)
         IN /\ t \in Calls /\ t.wire = s.wire /\ t.suspended = s.suspended
            /\ t.dec.bits = <<>> /\ t.dec.at = s.dec.at /\ t.dec.togo = s.dec.togo
            /\ t.dec.insufficient = s.dec.insufficient /\ t.dec.expects = s.dec.expects
            /\ t.dec.unread = s.dec.unread /\ t.dec.warned = s.dec.warned
            /\ t.history.long = s.history.long /\ t.history.repeated = s.history.repeated
            /\ t.history.damaged = s.history.damaged /\ t.history.shown = s.history.shown
            /\ ~s.history.wasted /\ s.dec.togo = 0 /\ (\E D \in Nat : BitsFit(s, D))
                 => ~t.history.wasted
<1>. DEFINE r == Wasted(s, s.dec.bits)
            d == [s.dec EXCEPT !.bits = <<>>,
                    !.discarded = @ \/ (byte /\ (s.dec.bits # <<>> \/ s.dec.insufficient))]
<1>1. /\ r \in Calls /\ r.dec = s.dec /\ r.wire = s.wire /\ r.suspended = s.suspended
      /\ r.history.long = s.history.long /\ r.history.repeated = s.history.repeated
      /\ r.history.damaged = s.history.damaged /\ r.history.shown = s.history.shown
      /\ ~s.history.wasted
           /\ (\A i \in DOMAIN s.dec.bits : s.dec.bits[i].marker \/ ~s.dec.bits[i].whole)
             => ~r.history.wasted
  BY WastedFacts
<1>2. Dropped(s, byte) = [r EXCEPT !.dec = d]
  <2>1. Dropped(s, byte) = [r EXCEPT !.dec.bits = <<>>,
             !.dec.discarded = @ \/ (byte /\ (s.dec.bits # <<>> \/ s.dec.insufficient))]
    BY DEF Dropped
  <2>. HIDE DEF r
  <2>. QED  BY <1>1, <2>1 DEF Calls, Decoders
<1>3. s.dec \in Decoders
  BY CallFacts
<1>4. /\ d \in Decoders /\ d.bits = <<>> /\ d.at = s.dec.at /\ d.togo = s.dec.togo
      /\ d.insufficient = s.dec.insufficient /\ d.expects = s.dec.expects
      /\ d.unread = s.dec.unread /\ d.warned = s.dec.warned
  <2>1. (s.dec.discarded \/ (byte /\ (s.dec.bits # <<>> \/ s.dec.insufficient))) \in BOOLEAN
    OBVIOUS
  <2>2. <<>> \in Seq(DataTokens)
    OBVIOUS
  <2>. QED  BY <1>3, <2>1, <2>2 DEF Decoders
<1>. HIDE DEF d, r
<1>5. /\ [r EXCEPT !.dec = d] \in Calls /\ [r EXCEPT !.dec = d].dec = d
      /\ [r EXCEPT !.dec = d].wire = s.wire /\ [r EXCEPT !.dec = d].history = r.history
      /\ [r EXCEPT !.dec = d].suspended = s.suspended
  BY <1>1, <1>4 DEF Calls
<1>6. ASSUME s.dec.togo = 0, NEW D \in Nat, BitsFit(s, D), NEW i \in DOMAIN s.dec.bits
      PROVE  ~s.dec.bits[i].whole
  <2>1. s.dec.bits \in Seq(DataTokens) /\ Interval \in Nat
    BY CallFacts, RestartAssumption
  <2>2. i \in Nat /\ i >= 1 /\ s.dec.bits[i] \in DataTokens
    BY <1>6, <2>1
  <2>3. s.dec.bits[i].mcu \in 1 .. Interval
    BY <2>2 DEF DataTokens
  <2>4. s.dec.bits[i].whole => s.dec.bits[i].mcu = Interval - s.dec.togo + i
    BY <1>6 DEF BitsFit
  <2>. QED  BY <1>6, <2>1, <2>2, <2>3, <2>4
<1>. QED  BY <1>1, <1>2, <1>4, <1>5, <1>6

(* A segment is begun.                                                       *)
LEMMA DoneFacts ==
  ASSUME NEW s \in Calls, ~s.suspended
  PROVE  LET t == RestartDone(s)
         IN /\ t \in Calls /\ t.wire = s.wire /\ ~t.suspended /\ t.history = s.history
            /\ t.dec.bits = s.dec.bits /\ t.dec.at = s.dec.at /\ t.dec.togo = Interval
            /\ t.dec.insufficient = (s.dec.insufficient /\ s.dec.unread # None)
            /\ t.dec.expects = s.dec.expects /\ t.dec.unread = s.dec.unread
            /\ t.dec.warned = s.dec.warned
<1>. DEFINE d == [s.dec EXCEPT !.togo = Interval, !.insufficient = @ /\ s.dec.unread # None]
<1>1. RestartDone(s) = [s EXCEPT !.dec = d]
  BY DEF RestartDone, Calls, Decoders
<1>2. s.dec \in Decoders /\ Interval \in Nat
  BY CallFacts, RestartAssumption
<1>3. /\ d \in Decoders /\ d.bits = s.dec.bits /\ d.at = s.dec.at /\ d.togo = Interval
      /\ d.insufficient = (s.dec.insufficient /\ s.dec.unread # None)
      /\ d.expects = s.dec.expects /\ d.unread = s.dec.unread /\ d.warned = s.dec.warned
  <2>1. (s.dec.insufficient /\ s.dec.unread # None) \in BOOLEAN /\ Interval \in 0 .. Interval
    BY <1>2
  <2>. QED  BY <1>2, <2>1 DEF Decoders
<1>. HIDE DEF d
<1>. QED  BY <1>1, <1>3 DEF Calls

(* process_restart.                                                          *)
LEMMA ProcessFacts ==
  ASSUME NEW s \in Calls, ~s.suspended, NEW byte \in BOOLEAN
  PROVE  LET t == ProcessRestart(s, byte)
         IN /\ t \in Calls /\ Takes(s.wire, t.wire)
            /\ t.dec.at = s.dec.at /\ t.dec.bits = <<>> /\ (s.dec.warned => t.dec.warned)
            /\ t.history.long = s.history.long /\ t.history.repeated = s.history.repeated
            /\ t.history.damaged = s.history.damaged /\ t.history.shown = s.history.shown
            /\ t.suspended => /\ t.dec.togo = s.dec.togo /\ t.dec.expects = s.dec.expects
                              /\ t.dec.insufficient = s.dec.insufficient
                              /\ s.dec.unread # None => t.dec.unread # None
            /\ ~t.suspended => /\ t.dec.togo = Interval
                               /\ t.dec.expects = (s.dec.expects + 1) % Numbers
                               /\ t.dec.insufficient => /\ s.dec.insufficient
                                                        /\ t.dec.unread # None
<1>. DEFINE r == Dropped(s, byte)
            u == ReadRestartMarker(r)
<1>1. /\ r \in Calls /\ r.wire = s.wire /\ r.suspended = s.suspended
      /\ r.dec.bits = <<>> /\ r.dec.at = s.dec.at /\ r.dec.togo = s.dec.togo
      /\ r.dec.insufficient = s.dec.insufficient /\ r.dec.expects = s.dec.expects
      /\ r.dec.unread = s.dec.unread /\ r.dec.warned = s.dec.warned
      /\ r.history.long = s.history.long /\ r.history.repeated = s.history.repeated
      /\ r.history.damaged = s.history.damaged /\ r.history.shown = s.history.shown
  BY DroppedFacts
<1>2. ProcessRestart(s, byte) = RestartDone(u)
  BY DEF ProcessRestart, Dropped
<1>. HIDE DEF r
<1>3. /\ Passes(r, u)
      /\ u.suspended => /\ u.dec.expects = r.dec.expects
                        /\ r.dec.unread # None => u.dec.unread # None
      /\ ~u.suspended => u.dec.expects = (r.dec.expects + 1) % Numbers
  BY <1>1, ReadFacts
<1>. HIDE DEF u
<1>4. u \in Calls
  BY <1>3 DEF Passes
<1>5. CASE u.suspended
  <2>1. RestartDone(u) = u
    BY <1>5 DEF RestartDone
  <2>. QED  BY <1>1, <1>2, <1>3, <1>5, <2>1 DEF Passes
<1>6. CASE ~u.suspended
  <2>. DEFINE t == RestartDone(u)
  <2>1. /\ t \in Calls /\ t.wire = u.wire /\ ~t.suspended /\ t.history = u.history
        /\ t.dec.bits = u.dec.bits /\ t.dec.at = u.dec.at /\ t.dec.togo = Interval
        /\ t.dec.insufficient = (u.dec.insufficient /\ u.dec.unread # None)
        /\ t.dec.expects = u.dec.expects /\ t.dec.unread = u.dec.unread
        /\ t.dec.warned = u.dec.warned
    BY <1>4, <1>6, DoneFacts
  <2>. HIDE DEF t
  <2>. QED  BY <1>1, <1>2, <1>3, <1>6, <2>1 DEF Passes, t
<1>. QED  BY <1>5, <1>6

(* ... and where it leads.                                                   *)
LEMMA ProcessSeeks ==
  ASSUME NEW s \in Calls, ~s.suspended, NEW byte \in BOOLEAN, NEW D \in Nat,
         NEW last \in Places, Seeking(s, D, last), BitsFit(s, D),
         s.dec.expects = D % Numbers, D + 1 <= Segments - 1
  PROVE  LET t == ProcessRestart(s, byte)
         IN IF t.suspended THEN Seeking(t, D, last)
            ELSE ~t.history.wasted /\ Placed(t, D + 1, last)
<1>. DEFINE r == Dropped(s, byte)
            u == ReadRestartMarker(r)
<1>1. /\ r \in Calls /\ r.wire = s.wire /\ r.suspended = s.suspended
      /\ r.dec.togo = s.dec.togo /\ r.dec.expects = s.dec.expects
      /\ r.dec.unread = s.dec.unread /\ ~r.history.wasted /\ r.dec.bits = <<>>
  BY DroppedFacts DEF Seeking
<1>2. ProcessRestart(s, byte) = RestartDone(u)
  BY DEF ProcessRestart, Dropped
<1>. HIDE DEF r
<1>3. Seeking(r, D, last)
  <2>1. PICK a \in Places : Carries(s.wire, a, last) /\ At(s, a, D)
    BY DEF Seeking, Placed
  <2>2. At(r, a, D)
    BY <1>1, <2>1 DEF At, AtData, AtBogus, AtMarker, Seeking
  <2>. QED  BY <1>1, <2>1, <2>2 DEF Seeking, Placed
<1>4. u \in Calls /\ IF u.suspended THEN Seeking(u, D, last) ELSE Found(u, D, last)
  <2>1. ~r.suspended /\ r.dec.expects = D % Numbers
    BY <1>1
  <2>. QED  BY <1>1, <1>3, <2>1, ReadFacts, ReadSeeks DEF Passes
<1>0. Passes(r, u)
  BY <1>1, ReadFacts
<1>. HIDE DEF u
<1>5. CASE u.suspended
  <2>1. RestartDone(u) = u
    BY <1>5 DEF RestartDone
  <2>. QED  BY <1>2, <1>4, <1>5, <2>1
<1>6. CASE ~u.suspended
  <2>. DEFINE t == RestartDone(u)
  <2>1. /\ t \in Calls /\ t.wire = u.wire /\ ~t.suspended /\ t.history = u.history
        /\ t.dec.bits = u.dec.bits /\ t.dec.togo = Interval /\ t.dec.unread = u.dec.unread
    BY <1>4, <1>6, DoneFacts
  <2>. HIDE DEF t
  <2>2. t.dec.bits = <<>>
    BY <1>0, <1>1, <2>1 DEF Passes
  <2>3. PICK a \in Places :
          /\ Carries(u.wire, a, last)
          /\ \/ u.dec.unread = None /\ a.segment = D + 1 /\ (a.fresh => a.n = 0)
             \/ AtMarker(u, a, D + 1)
    BY <1>4, <1>6 DEF Found
  <2>4. At(t, a, D + 1)
    <3>1. CASE u.dec.unread = None /\ a.segment = D + 1 /\ (a.fresh => a.n = 0)
      <4>1. Interval \in Nat \ {0} /\ Len(t.dec.bits) = 0
        BY <2>2, RestartAssumption
      <4>2. Interval # 0 /\ Interval - Interval + 0 = 0
        BY <4>1
      <4>. QED  BY <2>1, <3>1, <4>1, <4>2 DEF At, AtData
    <3>2. CASE AtMarker(u, a, D + 1)
      BY <2>1, <3>2 DEF At, AtMarker
    <3>. QED  BY <2>3, <3>1, <3>2
  <2>5. ~t.history.wasted
    BY <1>4, <1>6, <2>1 DEF Found
  <2>. QED  BY <1>2, <2>1, <2>3, <2>4, <2>5 DEF Placed, t
<1>. QED  BY <1>5, <1>6

(* jpeg_fill_bit_buffer loads data up to a marker, and reads the marker if   *)
(* that is not enough.                                                       *)
LEMMA LoadFacts ==
  ASSUME NEW s \in Calls, NEW ahead \in 0 .. MaxAhead
  PROVE  LET t == LoadMcus(s, ahead)
         IN /\ t \in Calls /\ t.history = s.history
            /\ t.dec.at = s.dec.at /\ t.dec.togo = s.dec.togo
            /\ t.dec.insufficient = s.dec.insufficient /\ t.dec.expects = s.dec.expects
            /\ t.dec.warned = s.dec.warned
            /\ \/ t = s /\ (s.dec.unread # None \/ s.dec.bits # <<>>)
               \/ t.suspended /\ t.dec = s.dec /\ t.wire = s.wire
               \/ /\ s.dec.unread = None /\ t.suspended = s.suspended
                  /\ \E k \in 1 .. Len(s.wire), m \in 0 .. Len(s.wire) :
                       /\ t.wire = After(s.wire, k) /\ \A i \in 1 .. m : ~s.wire[i].marker
                       /\ t.dec.bits = s.dec.bits \o SubSeq(s.wire, 1, m)
                       /\ \/ m = k /\ t.dec.unread = None
                          \/ m = k - 1 /\ s.wire[k].marker /\ t.dec.unread = s.wire[k].number
<1>. DEFINE n == UpToMarker(s)
            t == LoadMcus(s, ahead)
            miss == Missing(s, ahead)
            Put(d, w) == [s EXCEPT !.dec = d, !.wire = w]
<1>1. /\ s.wire \in Seq(Tokens) /\ s.dec \in Decoders /\ s.dec.bits \in Seq(DataTokens)
      /\ s.history \in Histories /\ s.suspended \in BOOLEAN
  BY CallFacts
<1>2. Len(s.wire) \in Nat /\ Len(s.dec.bits) \in Nat /\ ahead \in Nat /\ miss \in Int
  BY <1>1, RestartAssumption DEF Missing
<1>3. /\ n \in 0 .. Len(s.wire) /\ \A i \in 1 .. n : ~s.wire[i].marker
      /\ n < Len(s.wire) => s.wire[n + 1].marker
  <2>1. CASE Markers(s) = {}
    BY <1>2, <2>1, FirstMarker DEF UpToMarker
  <2>2. CASE Markers(s) # {}
    <3>1. PICK k \in 1 .. Len(s.wire) :
            k = Min(Markers(s)) /\ s.wire[k].marker /\ \A i \in 1 .. k - 1 : ~s.wire[i].marker
      BY <2>2, FirstMarker
    <3>2. n = k - 1
      BY <2>2, <3>1 DEF UpToMarker
    <3>. HIDE DEF n
    <3>. QED  BY <1>2, <3>1, <3>2
  <2>. QED  BY <2>1, <2>2
<1>4. ASSUME NEW m \in 0 .. Len(s.wire), \A i \in 1 .. m : ~s.wire[i].marker
      PROVE  s.dec.bits \o SubSeq(s.wire, 1, m) \in Seq(DataTokens)
  <2>. DEFINE v == SubSeq(s.wire, 1, m)
  <2>1. v \in Seq(Tokens) /\ Len(v) = m /\ \A i \in 1 .. m : v[i] = s.wire[i]
    BY <1>1, <1>4, PrefixFacts
  <2>2. ASSUME NEW i \in 1 .. m
        PROVE  v[i] \in DataTokens
    <3>1. s.wire[i] \in Tokens
      BY <1>1, <1>2
    <3>. QED  BY <1>4, <2>1, <3>1, TokenFacts
  <2>. HIDE DEF v
  <2>3. v \in Seq(DataTokens)
    BY <2>1, <2>2
  <2>. QED  BY <1>1, <2>3 DEF v
<1>5. ASSUME NEW d \in Decoders, NEW w \in Seq(Tokens)
      PROVE  /\ Put(d, w) \in Calls /\ Put(d, w).dec = d /\ Put(d, w).wire = w
             /\ Put(d, w).history = s.history /\ Put(d, w).suspended = s.suspended
  BY DEF Calls
<1>6. \A k \in 0 .. Len(s.wire) : After(s.wire, k) \in Seq(Tokens)
  BY <1>1, AfterFacts
<1>. HIDE DEF n, miss
<1>7. CASE s.dec.unread # None \/ miss <= 0
  <2>1. t = s
    BY <1>7 DEF LoadMcus, miss
  <2>2. miss <= 0 => s.dec.bits # <<>>
    BY <1>1, <1>2 DEF miss, Missing
  <2>. QED  BY <1>7, <2>1, <2>2
<1>8. CASE ~(s.dec.unread # None \/ miss <= 0) /\ n >= miss
  <2>. DEFINE d == [s.dec EXCEPT !.bits = @ \o SubSeq(s.wire, 1, miss)]
  <2>1. t = [s EXCEPT !.dec.bits = @ \o SubSeq(s.wire, 1, miss), !.wire = After(s.wire, miss)]
    BY <1>8 DEF LoadMcus, miss, n
  <2>2. t = Put(d, After(s.wire, miss))
    BY <2>1 DEF Calls
  <2>3. miss \in 1 .. Len(s.wire) /\ miss \in 0 .. Len(s.wire) /\ \A i \in 1 .. miss : ~s.wire[i].marker
    BY <1>2, <1>3, <1>8
  <2>4. s.dec.bits \o SubSeq(s.wire, 1, miss) \in Seq(DataTokens)
    BY <1>4, <2>3
  <2>5. /\ d \in Decoders /\ d.at = s.dec.at /\ d.togo = s.dec.togo
        /\ d.insufficient = s.dec.insufficient /\ d.expects = s.dec.expects
        /\ d.warned = s.dec.warned /\ d.unread = s.dec.unread
        /\ d.bits = s.dec.bits \o SubSeq(s.wire, 1, miss)
    BY <1>1, <2>4 DEF Decoders
  <2>. HIDE DEF d, Put
  <2>6. /\ t \in Calls /\ t.dec = d /\ t.wire = After(s.wire, miss) /\ t.history = s.history
        /\ t.suspended = s.suspended
    BY <1>5, <1>6, <2>2, <2>3, <2>5
  <2>. HIDE DEF t
  <2>. QED  BY <1>8, <2>3, <2>5, <2>6 DEF t
<1>9. CASE ~(s.dec.unread # None \/ miss <= 0) /\ ~(n >= miss) /\ n < Len(s.wire)
  <2>. DEFINE d == [s.dec EXCEPT !.bits = @ \o SubSeq(s.wire, 1, n),
                                 !.unread = s.wire[n + 1].number]
  <2>1. t = [s EXCEPT !.dec.bits = @ \o SubSeq(s.wire, 1, n),
                      !.dec.unread = s.wire[n + 1].number, !.wire = After(s.wire, n + 1)]
    BY <1>9 DEF LoadMcus, miss, n
  <2>2. t = Put(d, After(s.wire, n + 1))
    BY <2>1 DEF Calls
  <2>3. PICK k \in 1 .. Len(s.wire) : k = n + 1 /\ n = k - 1 /\ s.wire[k].marker /\ s.wire[k] \in Tokens
    BY <1>1, <1>2, <1>3, <1>9
  <2>4. s.dec.bits \o SubSeq(s.wire, 1, n) \in Seq(DataTokens)
    BY <1>3, <1>4
  <2>5. s.wire[k].number \in {None, EOI, Bogus} \cup 0 .. Numbers - 1
    BY <2>3, TokenFacts
  <2>6. /\ d \in Decoders /\ d.at = s.dec.at /\ d.togo = s.dec.togo
        /\ d.insufficient = s.dec.insufficient /\ d.expects = s.dec.expects
        /\ d.warned = s.dec.warned /\ d.unread = s.wire[k].number
        /\ d.bits = s.dec.bits \o SubSeq(s.wire, 1, n)
    BY <1>1, <2>3, <2>4, <2>5 DEF Decoders
  <2>. HIDE DEF d, Put
  <2>7. After(s.wire, n + 1) = After(s.wire, k) /\ After(s.wire, k) \in Seq(Tokens)
    BY <1>2, <1>6, <2>3
  <2>8. /\ t \in Calls /\ t.dec = d /\ t.wire = After(s.wire, k) /\ t.history = s.history
        /\ t.suspended = s.suspended
    BY <1>5, <2>2, <2>6, <2>7
  <2>. HIDE DEF t
  <2>9. \E m \in 0 .. Len(s.wire) :
           /\ \A i \in 1 .. m : ~s.wire[i].marker
           /\ t.dec.bits = s.dec.bits \o SubSeq(s.wire, 1, m)
           /\ m = k - 1 /\ s.wire[k].marker /\ t.dec.unread = s.wire[k].number
    BY <1>3, <2>3, <2>6, <2>8
  <2>. QED  BY <1>9, <2>6, <2>8, <2>9 DEF t
<1>10. CASE ~(s.dec.unread # None \/ miss <= 0) /\ ~(n >= miss) /\ ~(n < Len(s.wire))
  <2>1. t = [s EXCEPT !.suspended = TRUE]
    BY <1>10 DEF LoadMcus, miss, n
  <2>. QED  BY <2>1 DEF Calls
<1>. QED  BY <1>7, <1>8, <1>9, <1>10

(* What is loaded is what the segment goes on with.                          *)
LEMMA LoadSeeks ==
  ASSUME NEW s \in Calls, NEW ahead \in 0 .. MaxAhead, NEW D \in Nat, NEW last \in Places,
         Placed(s, D, last), BitsFit(s, D), s.dec.togo # 0
  PROVE  Placed(LoadMcus(s, ahead), D, last) /\ BitsFit(LoadMcus(s, ahead), D)
<1>. DEFINE t == LoadMcus(s, ahead)
<1>1. /\ t \in Calls /\ t.dec.togo = s.dec.togo
      /\ \/ t = s
         \/ t.dec = s.dec /\ t.wire = s.wire
         \/ /\ s.dec.unread = None
            /\ \E k \in 1 .. Len(s.wire), m \in 0 .. Len(s.wire) :
                 /\ t.wire = After(s.wire, k) /\ \A i \in 1 .. m : ~s.wire[i].marker
                 /\ t.dec.bits = s.dec.bits \o SubSeq(s.wire, 1, m)
                 /\ \/ m = k /\ t.dec.unread = None
                    \/ m = k - 1 /\ s.wire[k].marker /\ t.dec.unread = s.wire[k].number
  BY LoadFacts
<1>. HIDE DEF t
<1>2. CASE t = s \/ (t.dec = s.dec /\ t.wire = s.wire)
  BY <1>2 DEF Placed, BitsFit, At, AtData, AtBogus, AtMarker, t
<1>3. ASSUME s.dec.unread = None,
             NEW k \in 1 .. Len(s.wire), NEW m \in 0 .. Len(s.wire),
             t.wire = After(s.wire, k), \A i \in 1 .. m : ~s.wire[i].marker,
             t.dec.bits = s.dec.bits \o SubSeq(s.wire, 1, m),
             \/ m = k /\ t.dec.unread = None
             \/ m = k - 1 /\ s.wire[k].marker /\ t.dec.unread = s.wire[k].number
      PROVE  Placed(t, D, last) /\ BitsFit(t, D)
  <2>1. PICK a \in Places : Carries(s.wire, a, last) /\ At(s, a, D)
    BY DEF Placed
  <2>2. /\ s.wire \in Seq(Tokens) /\ s.dec.bits \in Seq(DataTokens) /\ s.dec.togo \in 0 .. Interval
        /\ Interval \in Nat
    BY CallFacts, RestartAssumption
  <2>3. Len(s.wire) \in Nat /\ Len(s.dec.bits) \in Nat /\ m \in Nat /\ m <= Len(s.wire)
    BY <2>2
  <2>4. a.segment = D /\ (a.fresh => a.n = Interval - s.dec.togo + Len(s.dec.bits))
    <3>1. ~AtBogus(s, a, D)
      BY <1>3 DEF AtBogus, None, Bogus
    <3>2. ~AtMarker(s, a, D)
      <4>1. ASSUME AtMarker(s, a, D)
            PROVE  FALSE
        <5>1. PICK u \in 1 .. Segments : u \in D .. D + 3 /\ s.dec.unread = NumberOf(u)
          BY <4>1 DEF AtMarker
        <5>2. NumberOf(u) # None
          BY <5>1, NumberFacts
        <5>. QED  BY <1>3, <5>1, <5>2
      <4>. QED  BY <4>1
    <3>. QED  BY <2>1, <3>1, <3>2 DEF At, AtData
  <2>5. a.n \in Nat /\ a.fresh \in BOOLEAN /\ a.segment \in Nat
    BY DEF Places
  <2>. DEFINE v == SubSeq(s.wire, 1, m)
  <2>6. v \in Seq(Tokens) /\ Len(v) = m /\ \A i \in 1 .. m : v[i] = s.wire[i]
    BY <2>2, PrefixFacts
  <2>. HIDE DEF v
  <2>7. PICK c \in Places : Carries(v, a, c) /\ Carries(After(s.wire, m), c, last)
    BY <2>1, <2>2, CarriesApart DEF v
  <2>8. /\ c = Further(a, m)
        /\ \A i \in 1 .. m : /\ v[i].marked => v[i].segment = a.segment
                             /\ v[i].whole => a.fresh /\ v[i].mcu = a.n + i
    <3>1. \A i \in 1 .. Len(v) : ~v[i].marker
      BY <1>3, <2>6
    <3>. QED  BY <2>6, <2>7, <3>1, CarriesData
  <2>9. c.segment = a.segment /\ c.fresh = a.fresh /\ c.n = a.n + m
    BY <2>3, <2>8, FurtherFacts
  <2>10. BitsFit(t, D)
    <3>1. /\ Len(s.dec.bits \o v) = Len(s.dec.bits) + m
          /\ \A i \in 1 .. Len(s.dec.bits) : (s.dec.bits \o v)[i] = s.dec.bits[i]
          /\ \A i \in 1 .. m : (s.dec.bits \o v)[Len(s.dec.bits) + i] = v[i]
          /\ DOMAIN (s.dec.bits \o v) = 1 .. Len(s.dec.bits) + m
      <4>1. s.dec.bits \in Seq(Tokens)
        BY <2>2 DEF Tokens
      <4>2. PICK u \in Seq(Tokens), w \in Seq(Tokens) : u = s.dec.bits /\ w = v
        BY <2>6, <4>1
      <4>3. /\ Len(u \o w) = Len(u) + Len(w)
            /\ DOMAIN (u \o w) = 1 .. Len(u) + Len(w)
            /\ \A i \in 1 .. Len(u) : (u \o w)[i] = u[i]
            /\ \A i \in 1 .. Len(w) : (u \o w)[Len(u) + i] = w[i]
        BY JoinFacts
      <4>. QED  BY <2>6, <4>2, <4>3
    <3>2. t.dec.bits = s.dec.bits \o v
      BY <1>3 DEF v
    <3>3. ASSUME NEW i \in DOMAIN t.dec.bits
          PROVE  /\ t.dec.bits[i].marked => t.dec.bits[i].segment = D
                 /\ t.dec.bits[i].whole => t.dec.bits[i].mcu = Interval - t.dec.togo + i
      <4>1. i \in 1 .. Len(s.dec.bits) + m
        BY <3>1, <3>2
      <4>2. CASE i \in 1 .. Len(s.dec.bits)
        <5>1. t.dec.bits[i] = s.dec.bits[i] /\ i \in DOMAIN s.dec.bits
          BY <2>2, <3>1, <3>2, <4>2
        <5>. QED  BY <1>1, <5>1 DEF BitsFit
      <4>3. CASE i \notin 1 .. Len(s.dec.bits)
        <5>1. PICK j \in 1 .. m : i = Len(s.dec.bits) + j
          <6>1. PICK l \in Nat : l = Len(s.dec.bits)
            BY <2>3
          <6>2. i \in 1 .. l + m /\ i \notin 1 .. l
            BY <4>1, <4>3, <6>1
          <6>3. i - l \in 1 .. m /\ i = l + (i - l)
            BY <2>3, <6>2
          <6>. QED  BY <6>1, <6>3
        <5>2. t.dec.bits[i] = v[j]
          BY <3>1, <3>2, <5>1
        <5>3. /\ v[j].marked => v[j].segment = D
              /\ v[j].whole => v[j].mcu = Interval - s.dec.togo + Len(s.dec.bits) + j
          BY <2>4, <2>8
        <5>4. Interval - s.dec.togo + Len(s.dec.bits) + j = Interval - t.dec.togo + i
          BY <1>1, <2>2, <2>3, <5>1
        <5>. QED  BY <5>2, <5>3, <5>4
      <4>. QED  BY <4>2, <4>3
    <3>. QED  BY <3>3 DEF BitsFit
  <2>11. CASE m = k /\ t.dec.unread = None
    <3>1. Carries(t.wire, c, last)
      BY <1>3, <2>7, <2>11
    <3>2. Len(t.dec.bits) = Len(s.dec.bits) + m
      <4>1. s.dec.bits \in Seq(Tokens)
        BY <2>2 DEF Tokens
      <4>2. Len(s.dec.bits \o v) = Len(s.dec.bits) + Len(v)
        BY <2>6, <4>1, JoinFacts
      <4>. QED  BY <1>3, <2>6, <4>2 DEF v
    <3>3. c.fresh => c.n = Interval - t.dec.togo + Len(t.dec.bits)
      <4>1. PICK l \in Nat, x \in Int : l = Len(s.dec.bits) /\ x = Interval - s.dec.togo
        BY <2>2, <2>3
      <4>2. c.fresh => c.n = x + l + m
        BY <2>4, <2>9, <4>1
      <4>3. x + l + m = x + (l + m)
        BY <2>3
      <4>. QED  BY <1>1, <3>2, <4>1, <4>2, <4>3
    <3>4. At(t, c, D)
      BY <1>1, <2>4, <2>9, <2>11, <3>3 DEF At, AtData
    <3>. QED  BY <2>10, <3>1, <3>4 DEF Placed
  <2>12. CASE m = k - 1 /\ s.wire[k].marker /\ t.dec.unread = s.wire[k].number
    <3>1. PICK w \in Seq(Tokens) : w = s.wire
      BY <2>2
    <3>2. \E e \in Places : /\ Carries(After(w, k), e, last)
                            /\ \/ FollowsBogus(a, w[k], e)
                               \/ FollowsMarker(a, w[k], e)
      <4>1. Carries(w, a, last) /\ k \in 1 .. Len(w) /\ w[k].marker
            /\ \A i \in 1 .. k - 1 : ~w[i].marker
        BY <1>3, <2>1, <2>12, <3>1
      <4>. QED  BY <4>1, CarriesMarker
    <3>3. PICK e \in Places : /\ Carries(After(s.wire, k), e, last)
                              /\ \/ FollowsBogus(a, s.wire[k], e)
                                 \/ FollowsMarker(a, s.wire[k], e)
      BY <3>1, <3>2
    <3>4. At(t, e, D)
      <4>1. CASE FollowsBogus(a, s.wire[k], e)
        BY <2>4, <2>12, <4>1 DEF FollowsBogus, At, AtBogus
      <4>2. CASE FollowsMarker(a, s.wire[k], e)
        BY <2>4, <2>12, <4>2 DEF FollowsMarker, At, AtMarker
      <4>. QED  BY <3>3, <4>1, <4>2
    <3>. QED  BY <1>3, <2>10, <3>3, <3>4 DEF Placed
  <2>. QED  BY <1>3, <2>11, <2>12
<1>. QED  BY <1>1, <1>2, <1>3 DEF t

(* An MCU is shown.                                                          *)
Damages(s, token) ==
  \/ token = <<>>
  \/ <<token[1].segment, token[1].mcu>> # <<s.dec.at \div Interval, (s.dec.at % Interval) + 1>>

(* Showing an MCU moves one place on.                                        *)
LEMMA ShownFacts ==
  ASSUME NEW s \in Calls, s.dec.togo # 0, NEW token \in Seq(DataTokens)
  PROVE  LET t == Shown(s, token)
         IN /\ t \in Calls /\ t.wire = s.wire /\ t.suspended = s.suspended
            /\ t.dec.at = s.dec.at + 1 /\ t.dec.togo = s.dec.togo - 1
            /\ t.dec.bits = s.dec.bits /\ t.dec.unread = s.dec.unread
            /\ t.dec.insufficient = s.dec.insufficient /\ t.dec.expects = s.dec.expects
            /\ t.dec.warned = s.dec.warned
            /\ t.history.long = s.history.long /\ t.history.repeated = s.history.repeated
            /\ t.history.wasted = s.history.wasted /\ t.history.shown = token
            /\ t.history.damaged = (s.history.damaged \/ Damages(s, token))
<1>. DEFINE d == [s.dec EXCEPT !.at = @ + 1, !.togo = @ - 1]
            x == s.history.damaged \/ Damages(s, token)
            h == [s.history EXCEPT !.shown = token, !.damaged = x]
<1>1. /\ s.dec \in Decoders /\ s.history \in Histories /\ s.dec.togo \in 0 .. Interval
      /\ s.dec.at \in Nat /\ Interval \in Nat
  BY CallFacts, RestartAssumption
<1>2. x \in BOOLEAN
  BY DEF Damages
<1>3. Shown(s, token) = [s EXCEPT !.dec = d, !.history = h]
  BY DEF Shown, Damages, Calls, Decoders, Histories
<1>. HIDE DEF x
<1>4. /\ h \in Histories /\ h.long = s.history.long /\ h.repeated = s.history.repeated
      /\ h.wasted = s.history.wasted /\ h.shown = token /\ h.damaged = x
  BY <1>1, <1>2 DEF Histories
<1>5. /\ d \in Decoders /\ d.at = s.dec.at + 1 /\ d.togo = s.dec.togo - 1
      /\ d.bits = s.dec.bits /\ d.unread = s.dec.unread
      /\ d.insufficient = s.dec.insufficient /\ d.expects = s.dec.expects
      /\ d.warned = s.dec.warned
  <2>1. s.dec.togo - 1 \in 0 .. Interval /\ s.dec.at + 1 \in Nat
    BY <1>1
  <2>. QED  BY <1>1, <2>1 DEF Decoders
<1>. HIDE DEF h, d
<1>6. LET t == [s EXCEPT !.dec = d, !.history = h]
      IN /\ t \in Calls /\ t.dec = d /\ t.history = h /\ t.wire = s.wire
         /\ t.suspended = s.suspended
  BY <1>4, <1>5 DEF Calls
<1>. QED  BY <1>3, <1>4, <1>5, <1>6 DEF x

(* The data has ended.                                                       *)
LEMMA HitFacts ==
  ASSUME NEW s \in Calls
  PROVE  LET t == HitMarker(s)
         IN /\ t \in Calls /\ t.wire = s.wire /\ t.suspended = s.suspended
            /\ t.dec.at = s.dec.at /\ t.dec.togo = s.dec.togo
            /\ t.dec.bits = s.dec.bits /\ t.dec.unread = s.dec.unread
            /\ t.dec.insufficient /\ t.dec.expects = s.dec.expects
            /\ t.dec.warned /\ t.history = s.history
<1>. DEFINE d == [s.dec EXCEPT !.insufficient = TRUE, !.warned = TRUE]
<1>1. HitMarker(s) = [s EXCEPT !.dec = d]
  BY DEF HitMarker, WarnOf, Calls, Decoders
<1>2. s.dec \in Decoders
  BY CallFacts
<1>3. /\ d \in Decoders /\ d.at = s.dec.at /\ d.togo = s.dec.togo
      /\ d.bits = s.dec.bits /\ d.unread = s.dec.unread
      /\ d.insufficient /\ d.expects = s.dec.expects /\ d.warned
  BY <1>2 DEF Decoders
<1>. HIDE DEF d
<1>. QED  BY <1>1, <1>3 DEF Calls

(* The first MCU that is loaded is taken.                                    *)
First(s) == [s EXCEPT !.dec.bits = Tail(@)]

(* Taking the first MCU leaves the place as it is.                           *)
LEMMA FirstFacts ==
  ASSUME NEW s \in Calls, s.dec.bits # <<>>
  PROVE  LET t == First(s)
             n == Len(s.dec.bits)
             token == SubSeq(s.dec.bits, 1, 1)
         IN /\ t \in Calls /\ t.wire = s.wire /\ t.suspended = s.suspended
            /\ t.dec.at = s.dec.at /\ t.dec.togo = s.dec.togo
            /\ t.dec.unread = s.dec.unread /\ t.dec.insufficient = s.dec.insufficient
            /\ t.dec.expects = s.dec.expects
            /\ t.dec.warned = s.dec.warned /\ t.history = s.history
            /\ n \in Nat \ {0} /\ Len(t.dec.bits) = n - 1
            /\ \A i \in 1 .. n - 1 : t.dec.bits[i] = s.dec.bits[i + 1]
            /\ token \in Seq(DataTokens) /\ token # <<>> /\ token[1] = s.dec.bits[1]
            /\ s.dec.bits[1] \in DataTokens
<1>. DEFINE d == [s.dec EXCEPT !.bits = Tail(@)]
<1>1. First(s) = [s EXCEPT !.dec = d]
  BY DEF First, Calls
<1>2. s.dec \in Decoders /\ s.dec.bits \in Seq(DataTokens)
  BY CallFacts
<1>3. /\ Tail(s.dec.bits) \in Seq(DataTokens) /\ Len(s.dec.bits) \in Nat \ {0}
      /\ Len(Tail(s.dec.bits)) = Len(s.dec.bits) - 1
      /\ \A i \in 1 .. Len(s.dec.bits) - 1 : Tail(s.dec.bits)[i] = s.dec.bits[i + 1]
      /\ s.dec.bits[1] \in DataTokens
  <2>1. PICK b \in Seq(DataTokens) : b = s.dec.bits /\ b # <<>>
    BY <1>2
  <2>2. /\ Tail(b) \in Seq(DataTokens) /\ Len(b) \in Nat \ {0} /\ Len(Tail(b)) = Len(b) - 1
        /\ \A i \in 1 .. Len(b) - 1 : Tail(b)[i] = b[i + 1]
        /\ b[1] \in DataTokens
    BY <2>1
  <2>. QED  BY <2>1, <2>2
<1>4. /\ d \in Decoders /\ d.at = s.dec.at /\ d.togo = s.dec.togo
      /\ d.bits = Tail(s.dec.bits) /\ d.unread = s.dec.unread
      /\ d.insufficient = s.dec.insufficient /\ d.expects = s.dec.expects
      /\ d.warned = s.dec.warned
  BY <1>2, <1>3 DEF Decoders
<1>5. LET token == SubSeq(s.dec.bits, 1, 1)
      IN token \in Seq(DataTokens) /\ token # <<>> /\ token[1] = s.dec.bits[1]
  <2>1. PICK b \in Seq(DataTokens) : b = s.dec.bits /\ Len(b) \in Nat \ {0}
    BY <1>2, <1>3
  <2>2. 1 \in 0 .. Len(b) /\ 1 \in 1 .. 1
    BY <2>1
  <2>3. /\ SubSeq(b, 1, 1) \in Seq(DataTokens) /\ Len(SubSeq(b, 1, 1)) = 1
        /\ SubSeq(b, 1, 1)[1] = b[1]
    BY <2>2, PrefixFacts
  <2>4. SubSeq(b, 1, 1) # <<>>
    <3>1. Len(<<>>) = 0
      OBVIOUS
    <3>2. Len(<<>>) # 1
      BY <3>1
    <3>. QED  BY <2>3, <3>2, Zenon
  <2>. QED  BY <2>1, <2>3, <2>4
<1>. HIDE DEF d
<1>6. /\ [s EXCEPT !.dec = d] \in Calls /\ [s EXCEPT !.dec = d].dec = d
      /\ [s EXCEPT !.dec = d].wire = s.wire /\ [s EXCEPT !.dec = d].history = s.history
      /\ [s EXCEPT !.dec = d].suspended = s.suspended
  BY <1>4 DEF Calls
<1>7. PICK t : t = First(s) /\ t = [s EXCEPT !.dec = d]
  BY <1>1
<1>8. t \in Calls /\ t.dec = d /\ t.wire = s.wire /\ t.history = s.history /\ t.suspended = s.suspended
  BY <1>6, <1>7
<1>9. /\ Len(t.dec.bits) = Len(s.dec.bits) - 1
      /\ \A i \in 1 .. Len(s.dec.bits) - 1 : t.dec.bits[i] = s.dec.bits[i + 1]
  BY <1>3, <1>4, <1>8, Zenon
<1>. QED  BY <1>3, <1>4, <1>5, <1>7, <1>8, <1>9, Zenon

(* decode_mcu after process_restart: it suspends, or shows grey, or what is  *)
(* loaded first.                                                             *)
Grounded(s) == s.dec.insufficient => s.dec.unread # None /\ s.dec.bits = <<>>

(* There are no other cases.                                                 *)
LEMMA DecodeCases ==
  ASSUME NEW s \in Calls, ~s.suspended, Grounded(s), NEW ahead \in 0 .. MaxAhead
  PROVE  LET t == DecodeBlocks(s, ahead)
             u == LoadMcus(s, ahead)
         IN \/ t.suspended /\ t \in Calls
                 /\ t.dec = s.dec /\ t.wire = s.wire /\ t.history = s.history
            \/ t = Shown(s, <<>>) /\ s.dec.insufficient
            \/ /\ ~u.suspended /\ ~s.dec.insufficient
               /\ u.dec.bits # <<>> /\ t = Shown(First(u), SubSeq(u.dec.bits, 1, 1))
            \/ /\ ~u.suspended /\ ~s.dec.insufficient
               /\ u.dec.bits = <<>> /\ u.dec.unread # None /\ t = Shown(HitMarker(u), <<>>)
<1>. DEFINE t == DecodeBlocks(s, ahead)
            u == LoadMcus(s, ahead)
<1>1. CASE s.dec.insufficient
  BY <1>1 DEF DecodeBlocks
<1>2. CASE ~s.dec.insufficient
  <2>1. t = DecodedFrom(u)
    BY <1>2 DEF DecodeBlocks
  <2>2. /\ u \in Calls /\ u.history = s.history
        /\ \/ u = s /\ (s.dec.unread # None \/ s.dec.bits # <<>>)
           \/ u.suspended /\ u.dec = s.dec /\ u.wire = s.wire
           \/ /\ s.dec.unread = None /\ u.suspended = s.suspended
              /\ \E k \in 1 .. Len(s.wire), m \in 0 .. Len(s.wire) :
                   /\ u.wire = After(s.wire, k) /\ \A i \in 1 .. m : ~s.wire[i].marker
                   /\ u.dec.bits = s.dec.bits \o SubSeq(s.wire, 1, m)
                   /\ \/ m = k /\ u.dec.unread = None
                      \/ m = k - 1 /\ s.wire[k].marker /\ u.dec.unread = s.wire[k].number
    BY LoadFacts
  <2>3. ASSUME ~u.suspended, u.dec.bits = <<>>
        PROVE  u.dec.unread # None
    <3>1. s.wire \in Seq(Tokens) /\ s.dec.bits \in Seq(DataTokens)
      BY CallFacts
    <3>2. CASE u = s /\ (s.dec.unread # None \/ s.dec.bits # <<>>)
      BY <2>3, <3>2
    <3>3. ASSUME NEW k \in 1 .. Len(s.wire), s.wire[k].marker, u.dec.unread = s.wire[k].number
          PROVE  u.dec.unread # None
      <4>1. s.wire[k] \in Tokens
        BY <3>1
      <4>. QED  BY <3>3, <4>1, TokenFacts DEF None, EOI, Bogus
    <3>4. ASSUME NEW k \in 1 .. Len(s.wire), u.dec.bits = s.dec.bits \o SubSeq(s.wire, 1, k)
          PROVE  FALSE
      <4>1. s.dec.bits \in Seq(Tokens) /\ k \in 0 .. Len(s.wire)
        BY <3>1 DEF Tokens
      <4>. DEFINE v == SubSeq(s.wire, 1, k)
      <4>2. v \in Seq(Tokens) /\ Len(v) = k
        BY <3>1, <4>1, PrefixFacts
      <4>. HIDE DEF v
      <4>3. Len(s.dec.bits) \in Nat
        BY <4>1
      <4>4. Len(s.dec.bits \o v) = Len(s.dec.bits) + Len(v)
        BY <4>1, <4>2, JoinFacts
      <4>5. Len(u.dec.bits) = 0
        BY <2>3
      <4>. QED  BY <3>4, <4>2, <4>3, <4>4, <4>5 DEF v
    <3>. QED  BY <2>2, <2>3, <3>2, <3>3, <3>4
  <2>. HIDE DEF u
  <2>4. CASE u.suspended
    <3>1. t = u
      BY <2>1, <2>4 DEF DecodedFrom
    <3>. QED  BY <2>2, <2>4, <3>1 DEF u
  <2>5. CASE ~u.suspended /\ u.dec.bits # <<>>
    BY <1>2, <2>1, <2>5 DEF DecodedFrom, First, u
  <2>6. CASE ~u.suspended /\ u.dec.bits = <<>>
    BY <1>2, <2>1, <2>3, <2>6 DEF DecodedFrom, u
  <2>. QED  BY <2>4, <2>5, <2>6
<1>. QED  BY <1>1, <1>2

-----------------------------------------------------------------------------
(* A call of the decoder keeps the damage where it is. *)

InSegment(s, D) == s.dec.at + s.dec.togo = (D + 1) * Interval

ShownFits(s) ==
  s.history.shown # <<>> /\ s.history.shown[1].marked =>
    s.history.shown[1].segment = (s.dec.at - 1) \div Interval

Contained(s, D, last) ==
  ~s.history.wasted /\ Placed(s, D, last) /\ BitsFit(s, D) /\ ShownFits(s)

(* Showing grey.                                                             *)
LEMMA GreyContains ==
  ASSUME NEW s \in Calls, NEW D \in Nat, NEW last \in Places, Contained(s, D, last),
         s.dec.unread # None, s.dec.bits = <<>>, s.dec.togo # 0
  PROVE  Contained(Shown(s, <<>>), D, last)
<1>. DEFINE t == Shown(s, <<>>)
<1>1. <<>> \in Seq(DataTokens)
  OBVIOUS
<1>2. /\ t.wire = s.wire /\ t.dec.bits = s.dec.bits /\ t.dec.unread = s.dec.unread
      /\ t.history.wasted = s.history.wasted /\ t.history.shown = <<>>
  BY <1>1, ShownFacts
<1>. HIDE DEF t
<1>3. Placed(t, D, last)
  BY <1>2 DEF Contained, Placed, At, AtData, AtBogus, AtMarker
<1>4. BitsFit(t, D)
  BY <1>2 DEF BitsFit
<1>. QED  BY <1>2, <1>3, <1>4 DEF Contained, ShownFits, t

(* Showing what is loaded.                                                   *)
LEMMA FirstContains ==
  ASSUME NEW s \in Calls, NEW D \in Nat, NEW last \in Places, Contained(s, D, last),
         s.dec.bits # <<>>, s.dec.togo # 0, InSegment(s, D)
  PROVE  Contained(Shown(First(s), SubSeq(s.dec.bits, 1, 1)), D, last)
<1>. DEFINE n == Len(s.dec.bits)
            token == SubSeq(s.dec.bits, 1, 1)
            r == First(s)
            t == Shown(r, token)
<1>1. /\ r \in Calls /\ r.wire = s.wire
      /\ r.dec.at = s.dec.at /\ r.dec.togo = s.dec.togo
      /\ r.dec.unread = s.dec.unread /\ r.history = s.history
      /\ n \in Nat \ {0} /\ Len(r.dec.bits) = n - 1
      /\ \A i \in 1 .. n - 1 : r.dec.bits[i] = s.dec.bits[i + 1]
      /\ token \in Seq(DataTokens) /\ token # <<>> /\ token[1] = s.dec.bits[1]
      /\ s.dec.bits[1] \in DataTokens
  BY FirstFacts
<1>. HIDE DEF n, token, r
<1>2. /\ t \in Calls /\ t.wire = r.wire
      /\ t.dec.at = r.dec.at + 1 /\ t.dec.togo = r.dec.togo - 1
      /\ t.dec.bits = r.dec.bits /\ t.dec.unread = r.dec.unread
      /\ t.history.wasted = r.history.wasted /\ t.history.shown = token
  BY <1>1, ShownFacts
<1>. HIDE DEF t
<1>3. s.dec.togo \in 1 .. Interval /\ s.dec.at \in Nat /\ Interval \in Nat \ {0}
  <2>1. s.dec.togo \in 0 .. Interval /\ s.dec.at \in Nat
    BY CallFacts
  <2>2. Interval \in Nat \ {0}
    BY RestartAssumption
  <2>. QED  BY <2>1, <2>2
<1>4. Placed(t, D, last)
  <2>1. PICK a \in Places : Carries(s.wire, a, last) /\ At(s, a, D)
    BY DEF Contained, Placed
  <2>2. At(t, a, D)
    <3>1. CASE AtData(s, a, D)
      <4>1. a.fresh => a.n = Interval - s.dec.togo + n
        BY <1>3, <3>1 DEF AtData, n
      <4>2. Len(t.dec.bits) = n - 1 /\ t.dec.togo = s.dec.togo - 1
        BY <1>1, <1>2
      <4>3. /\ Interval - s.dec.togo + n = Interval - t.dec.togo + (n - 1)
            /\ t.dec.togo = 0 => Interval - s.dec.togo + n >= Interval
        <5>1. PICK x \in 1 .. Interval, y \in Int : x = s.dec.togo /\ y = t.dec.togo
          BY <1>3, <4>2
        <5>2. y = x - 1 /\ n \in Nat \ {0}
          BY <1>1, <4>2, <5>1
        <5>3. Interval - x + n = Interval - y + (n - 1) /\ (y = 0 => Interval - x + n >= Interval)
          BY <1>3, <5>2
        <5>. QED  BY <5>1, <5>3
      <4>4. a.fresh => IF t.dec.togo = 0 THEN a.n >= Interval
                       ELSE a.n = Interval - t.dec.togo + Len(t.dec.bits)
        BY <4>1, <4>2, <4>3
      <4>. QED  BY <1>1, <1>2, <3>1, <4>4 DEF At, AtData
    <3>2. CASE AtBogus(s, a, D)
      BY <1>1, <1>2, <3>2 DEF At, AtBogus
    <3>3. CASE AtMarker(s, a, D)
      BY <1>1, <1>2, <3>3 DEF At, AtMarker
    <3>. QED  BY <2>1, <3>1, <3>2, <3>3 DEF At
  <2>. QED  BY <1>1, <1>2, <2>1, <2>2 DEF Placed
<1>5. BitsFit(t, D)
  <2>1. t.dec.bits \in Seq(DataTokens)
    BY <1>2, CallFacts
  <2>2. s.dec.bits \in Seq(DataTokens)
    BY CallFacts
  <2>3. ASSUME NEW i \in DOMAIN t.dec.bits
        PROVE  /\ t.dec.bits[i].marked => t.dec.bits[i].segment = D
               /\ t.dec.bits[i].whole => t.dec.bits[i].mcu = Interval - t.dec.togo + i
    <3>1. i \in 1 .. n - 1
      BY <1>1, <1>2, <2>1
    <3>2. PICK j \in 1 .. n : j = i + 1
      BY <1>1, <3>1
    <3>3. t.dec.bits[i] = s.dec.bits[j] /\ j \in DOMAIN s.dec.bits
      BY <1>1, <1>2, <2>2, <3>1, <3>2 DEF n
    <3>4. Interval - s.dec.togo + j = Interval - t.dec.togo + i
      <4>1. PICK x \in 1 .. Interval : x = s.dec.togo
        BY <1>3
      <4>2. t.dec.togo = x - 1
        BY <1>1, <1>2, <4>1
      <4>3. Interval - x + j = Interval - (x - 1) + i
        BY <1>3, <3>1, <3>2
      <4>. QED  BY <4>1, <4>2, <4>3
    <3>. QED  BY <3>3, <3>4 DEF Contained, BitsFit
  <2>. QED  BY <2>3 DEF BitsFit
<1>6. ShownFits(t)
  <2>1. s.dec.bits[1].marked => s.dec.bits[1].segment = D
    <3>1. 1 \in DOMAIN s.dec.bits
      <4>1. s.dec.bits \in Seq(DataTokens)
        BY CallFacts
      <4>. QED  BY <1>1, <4>1 DEF n
    <3>. QED  BY <3>1 DEF Contained, BitsFit
  <2>2. (t.dec.at - 1) \div Interval = D
    <3>1. PICK i \in 0 .. Interval - 1 : i = Interval - s.dec.togo
      BY <1>3
    <3>2. (D + 1) * Interval = D * Interval + 1 * Interval /\ 1 * Interval = Interval
          /\ D * Interval \in Int
      BY <1>3, SumTimes
    <3>. DEFINE DI == D * Interval
    <3>. HIDE DEF DI
    <3>3. s.dec.at = DI + i
      BY <1>3, <3>1, <3>2 DEF InSegment, DI
    <3>4. t.dec.at - 1 = s.dec.at
      BY <1>1, <1>2, <1>3
    <3>5. (D * Interval + i) \div Interval = D
      <4>1. PICK b \in Nat \ {0}, x \in Int : b = Interval /\ x = D
        BY <1>3
      <4>2. i \in 0 .. b - 1
        BY <3>1, <4>1
      <4>3. (x * b + i) \div b = x
        BY <4>2, PlaceIn
      <4>. QED  BY <4>1, <4>3
    <3>. QED  BY <3>3, <3>4, <3>5 DEF DI
  <2>. QED  BY <1>1, <1>2, <2>1, <2>2 DEF ShownFits
<1>7. ~t.history.wasted
  BY <1>1, <1>2 DEF Contained
<1>. QED  BY <1>4, <1>5, <1>6, <1>7 DEF Contained, t, r, token

(* decode_mcu after process_restart.                                         *)
LEMMA DecodeContains ==
  ASSUME NEW s \in Calls, ~s.suspended, Grounded(s), NEW ahead \in 0 .. MaxAhead,
         NEW D \in Nat, NEW last \in Places, Contained(s, D, last),
         s.dec.togo # 0, InSegment(s, D)
  PROVE  Contained(DecodeBlocks(s, ahead), D, last)
<1>. DEFINE t == DecodeBlocks(s, ahead)
            u == LoadMcus(s, ahead)
<1>1. \/ /\ t \in Calls /\ t.dec = s.dec /\ t.wire = s.wire /\ t.history = s.history
      \/ t = Shown(s, <<>>) /\ s.dec.insufficient
      \/ u.dec.bits # <<>> /\ t = Shown(First(u), SubSeq(u.dec.bits, 1, 1))
      \/ u.dec.bits = <<>> /\ u.dec.unread # None /\ t = Shown(HitMarker(u), <<>>)
  BY DecodeCases
<1>2. /\ u \in Calls /\ u.history = s.history /\ u.dec.at = s.dec.at
      /\ u.dec.togo = s.dec.togo
  BY LoadFacts
<1>3. Placed(u, D, last) /\ BitsFit(u, D)
  BY LoadSeeks DEF Contained
<1>4. Contained(u, D, last)
  BY <1>2, <1>3 DEF Contained, ShownFits
<1>. HIDE DEF t, u
<1>5. CASE t.dec = s.dec /\ t.wire = s.wire /\ t.history = s.history
  BY <1>5 DEF Contained, Placed, At, AtData, AtBogus, AtMarker, BitsFit, ShownFits, t
<1>6. CASE t = Shown(s, <<>>) /\ s.dec.insufficient
  BY <1>6, GreyContains DEF Grounded, t
<1>7. CASE u.dec.bits # <<>> /\ t = Shown(First(u), SubSeq(u.dec.bits, 1, 1))
  BY <1>2, <1>4, <1>7, FirstContains DEF InSegment, t
<1>8. CASE u.dec.bits = <<>> /\ u.dec.unread # None /\ t = Shown(HitMarker(u), <<>>)
  <2>. DEFINE r == HitMarker(u)
  <2>1. /\ r \in Calls /\ r.wire = u.wire /\ r.dec.at = u.dec.at /\ r.dec.togo = u.dec.togo
        /\ r.dec.bits = u.dec.bits /\ r.dec.unread = u.dec.unread /\ r.history = u.history
    BY <1>2, HitFacts
  <2>. HIDE DEF r
  <2>2. Contained(r, D, last)
    BY <1>4, <2>1
    DEF Contained, Placed, At, AtData, AtBogus, AtMarker, BitsFit, ShownFits
  <2>3. Contained(Shown(r, <<>>), D, last)
    <3>1. r.dec.unread # None /\ r.dec.bits = <<>> /\ r.dec.togo # 0
      BY <1>2, <1>8, <2>1
    <3>. QED  BY <2>1, <2>2, <3>1, GreyContains
  <2>. QED  BY <1>8, <2>3 DEF t, r
<1>. QED  BY <1>1, <1>5, <1>6, <1>7, <1>8 DEF t

(* What else a call keeps.                                                   *)
LEMMA DecodeFacts ==
  ASSUME NEW s \in Calls, ~s.suspended, Grounded(s), NEW ahead \in 0 .. MaxAhead,
         s.dec.togo # 0
  PROVE  LET t == DecodeBlocks(s, ahead)
         IN /\ t \in Calls /\ Grounded(t) /\ t.dec.expects = s.dec.expects
            /\ t.history.long = s.history.long /\ t.history.repeated = s.history.repeated
            /\ \/ t.dec.at = s.dec.at /\ t.dec.togo = s.dec.togo
               \/ t.dec.at = s.dec.at + 1 /\ t.dec.togo = s.dec.togo - 1
<1>. DEFINE t == DecodeBlocks(s, ahead)
            u == LoadMcus(s, ahead)
<1>1. \/ t \in Calls /\ t.dec = s.dec /\ t.wire = s.wire /\ t.history = s.history
      \/ t = Shown(s, <<>>) /\ s.dec.insufficient
      \/ /\ ~s.dec.insufficient
         /\ u.dec.bits # <<>> /\ t = Shown(First(u), SubSeq(u.dec.bits, 1, 1))
      \/ u.dec.bits = <<>> /\ u.dec.unread # None /\ t = Shown(HitMarker(u), <<>>)
  BY DecodeCases
<1>2. /\ u \in Calls /\ u.history = s.history /\ u.dec.at = s.dec.at
      /\ u.dec.togo = s.dec.togo /\ u.dec.insufficient = s.dec.insufficient
      /\ u.dec.expects = s.dec.expects
  BY LoadFacts
<1>3. <<>> \in Seq(DataTokens)
  OBVIOUS
<1>. HIDE DEF t, u
<1>4. CASE t \in Calls /\ t.dec = s.dec /\ t.wire = s.wire /\ t.history = s.history
  BY <1>4 DEF Grounded, t
<1>5. CASE t = Shown(s, <<>>) /\ s.dec.insufficient
  <2>. DEFINE v == Shown(s, <<>>)
  <2>1. /\ v \in Calls /\ v.dec.at = s.dec.at + 1 /\ v.dec.togo = s.dec.togo - 1
        /\ v.dec.bits = s.dec.bits /\ v.dec.unread = s.dec.unread
        /\ v.dec.insufficient = s.dec.insufficient /\ v.dec.expects = s.dec.expects
        /\ v.history.long = s.history.long /\ v.history.repeated = s.history.repeated
    BY <1>3, ShownFacts
  <2>. HIDE DEF v
  <2>. QED  BY <1>5, <2>1 DEF Grounded, t, v
<1>6. CASE /\ ~s.dec.insufficient
           /\ u.dec.bits # <<>> /\ t = Shown(First(u), SubSeq(u.dec.bits, 1, 1))
  <2>. DEFINE r == First(u)
              token == SubSeq(u.dec.bits, 1, 1)
              v == Shown(r, token)
  <2>1. /\ r \in Calls /\ r.dec.at = u.dec.at /\ r.dec.togo = u.dec.togo
        /\ r.dec.insufficient = u.dec.insufficient /\ r.dec.expects = u.dec.expects
        /\ r.history = u.history /\ token \in Seq(DataTokens)
    BY <1>2, <1>6, FirstFacts
  <2>. HIDE DEF r, token
  <2>2. r.dec.togo # 0
    BY <1>2, <2>1
  <2>3. /\ v \in Calls /\ v.dec.at = r.dec.at + 1 /\ v.dec.togo = r.dec.togo - 1
        /\ v.dec.insufficient = r.dec.insufficient /\ v.dec.expects = r.dec.expects
        /\ v.history.long = r.history.long /\ v.history.repeated = r.history.repeated
    BY <2>1, <2>2, ShownFacts
  <2>4. t = v
    BY <1>6 DEF v, r, token
  <2>. HIDE DEF v
  <2>. QED  BY <1>2, <1>6, <2>1, <2>3, <2>4 DEF Grounded, t
<1>7. CASE u.dec.bits = <<>> /\ u.dec.unread # None /\ t = Shown(HitMarker(u), <<>>)
  <2>. DEFINE r == HitMarker(u)
              v == Shown(r, <<>>)
  <2>1. /\ r \in Calls /\ r.dec.at = u.dec.at /\ r.dec.togo = u.dec.togo
        /\ r.dec.bits = u.dec.bits /\ r.dec.unread = u.dec.unread
        /\ r.dec.expects = u.dec.expects /\ r.history = u.history
    BY <1>2, HitFacts
  <2>. HIDE DEF r
  <2>2. r.dec.togo # 0
    BY <1>2, <2>1
  <2>3. /\ v \in Calls /\ v.dec.at = r.dec.at + 1 /\ v.dec.togo = r.dec.togo - 1
        /\ v.dec.bits = r.dec.bits /\ v.dec.unread = r.dec.unread
        /\ v.dec.expects = r.dec.expects
        /\ v.history.long = r.history.long /\ v.history.repeated = r.history.repeated
    BY <1>3, <2>1, <2>2, ShownFacts
  <2>4. t = v
    BY <1>7 DEF v, r
  <2>. HIDE DEF v
  <2>. QED  BY <1>2, <1>7, <2>1, <2>3, <2>4 DEF Grounded, t
<1>. QED  BY <1>1, <1>4, <1>5, <1>6, <1>7 DEF t

(* A call of the decoder.                                                    *)
Call(s, ahead, byte) ==
  DecodeBlocks(IF s.dec.togo = 0 THEN ProcessRestart(s, byte) ELSE s, ahead)

(* A call of the decoder keeps it in its segment and contains the damage.    *)
LEMMA CallContains ==
  ASSUME NEW s \in Calls, ~s.suspended, Grounded(s), NEW D \in Nat, InSegment(s, D),
         s.dec.expects = D % Numbers, s.dec.at < Segments * Interval,
         NEW byte \in BOOLEAN, NEW ahead \in 0 .. MaxAhead
  PROVE  LET t == Call(s, ahead, byte)
         IN /\ t \in Calls /\ Grounded(t) /\ t.dec.at <= Segments * Interval
            /\ t.history.long = s.history.long /\ t.history.repeated = s.history.repeated
            /\ \E E \in Nat :
                 /\ InSegment(t, E) /\ t.dec.expects = E % Numbers
                 /\ \A last \in Places : Contained(s, D, last) => Contained(t, E, last)
<1>. DEFINE t == Call(s, ahead, byte)
            SI == Segments * Interval
<1>1. /\ Segments \in Nat \ {0} /\ Interval \in Nat \ {0} /\ Numbers \in Nat \ {0}
      /\ Numbers \in Nat \ 0..4 /\ SI \in Nat /\ D \in Int /\ 1 \in -2 .. 2
  BY RestartAssumption
<1>2. s.dec.at \in Nat /\ s.dec.togo \in 0 .. Interval
  BY CallFacts
<1>3. ASSUME NEW r \in Calls, ~r.suspended, Grounded(r), NEW E \in Nat, InSegment(r, E),
             r.dec.expects = E % Numbers, r.dec.at = s.dec.at, r.dec.togo # 0,
             r.history.long = s.history.long, r.history.repeated = s.history.repeated,
             \A last \in Places : Contained(s, D, last) => Contained(r, E, last),
             t = DecodeBlocks(r, ahead)
      PROVE  /\ t \in Calls /\ Grounded(t) /\ t.dec.at <= SI
             /\ t.history.long = s.history.long /\ t.history.repeated = s.history.repeated
             /\ InSegment(t, E) /\ t.dec.expects = E % Numbers
             /\ \A last \in Places : Contained(s, D, last) => Contained(t, E, last)
  <2>. DEFINE u == DecodeBlocks(r, ahead)
  <2>1. /\ u \in Calls /\ Grounded(u) /\ u.dec.expects = r.dec.expects
        /\ u.history.long = r.history.long /\ u.history.repeated = r.history.repeated
        /\ \/ u.dec.at = r.dec.at /\ u.dec.togo = r.dec.togo
           \/ u.dec.at = r.dec.at + 1 /\ u.dec.togo = r.dec.togo - 1
    BY <1>3, DecodeFacts
  <2>2. \A last \in Places : Contained(r, E, last) => Contained(u, E, last)
    BY <1>3, DecodeContains
  <2>3. u = t
    BY <1>3
  <2>. HIDE DEF t, u, SI
  <2>4. r.dec.togo \in 0 .. Interval /\ (E + 1) * Interval \in Int
    <3>1. r.dec.togo \in 0 .. Interval
      BY CallFacts
    <3>2. (E + 1) * Interval \in Int
      BY <1>1
    <3>. QED  BY <3>1, <3>2
  <2>. DEFINE EI == (E + 1) * Interval
  <2>5. t.dec.at + t.dec.togo = EI /\ t.dec.at <= SI
    <3>1. r.dec.at + r.dec.togo = EI /\ r.dec.at = s.dec.at /\ EI \in Int
      BY <1>3, <2>4 DEF InSegment
    <3>. HIDE DEF EI
    <3>2. s.dec.at < SI
      BY DEF SI
    <3>. QED  BY <1>1, <1>2, <2>1, <2>3, <2>4, <3>1, <3>2
  <2>. QED  BY <1>3, <2>1, <2>2, <2>3, <2>5 DEF InSegment
<1>4. CASE s.dec.togo # 0
  <2>1. t = DecodeBlocks(s, ahead)
    BY <1>4 DEF Call
  <2>. HIDE DEF t
  <2>2. /\ t \in Calls /\ Grounded(t) /\ t.dec.at <= SI
        /\ t.history.long = s.history.long /\ t.history.repeated = s.history.repeated
        /\ InSegment(t, D) /\ t.dec.expects = D % Numbers
        /\ \A last \in Places : Contained(s, D, last) => Contained(t, D, last)
    BY <1>3, <1>4, <2>1
  <2>. QED  BY <2>2 DEF t
<1>5. CASE s.dec.togo = 0
  <2>. DEFINE r == ProcessRestart(s, byte)
  <2>1. t = DecodeBlocks(r, ahead)
    BY <1>5 DEF Call
  <2>2. /\ r \in Calls /\ r.dec.at = s.dec.at /\ r.dec.bits = <<>>
        /\ r.history.long = s.history.long /\ r.history.repeated = s.history.repeated
        /\ r.history.shown = s.history.shown
        /\ r.suspended => /\ r.dec.togo = s.dec.togo /\ r.dec.expects = s.dec.expects
                          /\ r.dec.insufficient = s.dec.insufficient
                          /\ s.dec.unread # None => r.dec.unread # None
        /\ ~r.suspended => /\ r.dec.togo = Interval
                           /\ r.dec.expects = (s.dec.expects + 1) % Numbers
                           /\ r.dec.insufficient => r.dec.unread # None
    BY ProcessFacts
  <2>3. ASSUME NEW last \in Places, Contained(s, D, last)
        PROVE  IF r.suspended THEN Contained(r, D, last) ELSE Contained(r, D + 1, last)
    <3>1. D + 1 <= Segments - 1
      <4>1. (D + 1) * Interval < SI
        <5>1. (D + 1) * Interval = s.dec.at
          BY <1>2, <1>5 DEF InSegment
        <5>. QED  BY <5>1
      <4>2. D + 1 < Segments
        BY <1>1, <4>1, CancelFactor
      <4>. QED  BY <1>1, <4>2
    <3>2. Seeking(s, D, last)
      BY <1>5, <2>3 DEF Seeking, Contained
    <3>3. IF r.suspended THEN Seeking(r, D, last)
          ELSE ~r.history.wasted /\ Placed(r, D + 1, last)
      BY <2>3, <3>1, <3>2, ProcessSeeks DEF Contained
    <3>. HIDE DEF r
    <3>4. ShownFits(r)
      BY <2>2, <2>3 DEF Contained, ShownFits
    <3>5. BitsFit(r, D) /\ BitsFit(r, D + 1)
      BY <2>2 DEF BitsFit
    <3>. QED  BY <3>3, <3>4, <3>5 DEF Contained, Seeking
  <2>4. Grounded(r)
    BY <2>2 DEF Grounded
  <2>. HIDE DEF r, t
  <2>5. CASE r.suspended
    <3>1. t = r
      BY <2>1, <2>5 DEF DecodeBlocks
    <3>2. InSegment(r, D)
      BY <2>2, <2>5 DEF InSegment
    <3>3. \A last \in Places : Contained(s, D, last) => Contained(r, D, last)
      BY <2>3, <2>5
    <3>4. r.dec.at <= SI
      <4>1. s.dec.at < SI
        OBVIOUS
      <4>. HIDE DEF SI
      <4>. QED  BY <1>1, <1>2, <2>2, <4>1
    <3>. QED  BY <2>2, <2>4, <2>5, <3>1, <3>2, <3>3, <3>4 DEF t
  <2>6. CASE ~r.suspended
    <3>. DEFINE E == D + 1
    <3>1. E \in Nat
      OBVIOUS
    <3>2. InSegment(r, E)
      <4>1. (E + 1) * Interval = (D + 1) * Interval + 1 * Interval /\ 1 * Interval = Interval
        BY <1>1, SumTimes
      <4>. QED  BY <1>1, <1>2, <1>5, <2>2, <2>6, <4>1 DEF InSegment
    <3>3. r.dec.expects = E % Numbers
      <4>1. ((D % Numbers) + 1) % Numbers = (D + 1) % Numbers
        BY <1>1, StepInCircle
      <4>. QED  BY <2>2, <2>6, <4>1
    <3>4. \A last \in Places : Contained(s, D, last) => Contained(r, E, last)
      BY <2>3, <2>6
    <3>5. r.dec.togo # 0
      BY <1>1, <2>2, <2>6
    <3>. HIDE DEF E
    <3>6. /\ t \in Calls /\ Grounded(t) /\ t.dec.at <= SI
          /\ t.history.long = s.history.long /\ t.history.repeated = s.history.repeated
          /\ InSegment(t, E) /\ t.dec.expects = E % Numbers
          /\ \A last \in Places : Contained(s, D, last) => Contained(t, E, last)
      BY <1>3, <2>1, <2>2, <2>4, <2>6, <3>1, <3>2, <3>3, <3>4, <3>5
    <3>. QED  BY <3>1, <3>6 DEF t
  <2>. QED  BY <2>5, <2>6
<1>. QED  BY <1>4, <1>5

-----------------------------------------------------------------------------
(* The order of what is shown. *)

(* The place of an MCU in the picture that was sent.                         *)
Pos(token) == token.segment * Interval + token.mcu

(* Data in the order of the picture, between two places.                     *)
Ordered(v, low, high) ==
  \A i \in 1 .. Len(v) :
    ~v[i].marker =>
      /\ low < Pos(v[i]) /\ Pos(v[i]) < high
      /\ \A j \in 1 .. Len(v) : i < j /\ ~v[j].marker => Pos(v[i]) < Pos(v[j])

ShownAt(s) == IF s.history.shown = <<>> THEN 0 ELSE Pos(s.history.shown[1])

(* Until the caller is warned, what is shown, what is loaded and what is     *)
(* under way are in order; the picture shown is behind the one sent if       *)
(* something is missing from it, and cannot catch up.                        *)
Straight(s, high) ==
  ~s.dec.warned /\ ~s.history.repeated =>
    /\ ~s.dec.insufficient
    /\ Ordered(s.dec.bits \o s.wire, ShownAt(s), high)
    /\ s.dec.at <= ShownAt(s) /\ ShownAt(s) < high
    /\ s.history.damaged => s.dec.at < ShownAt(s)

(* Places are numbers from 1 to that of the last MCU.                        *)
LEMMA PosFacts ==
  ASSUME NEW token \in DataTokens
  PROVE  /\ ~token.marker /\ Pos(token) \in Nat \ {0} /\ Pos(token) <= Segments * Interval
         /\ token.segment \in Nat /\ token.mcu \in 1 .. Interval
<1>1. /\ ~token.marker /\ token.segment \in 0 .. Segments - 1 /\ token.mcu \in 1 .. Interval
  BY DEF DataTokens
<1>2. Segments \in Nat \ {0} /\ Interval \in Nat \ {0}
  BY RestartAssumption
<1>3. PICK x \in Nat, i \in 1 .. Interval : x = token.segment /\ i = token.mcu /\ x + 1 <= Segments
  BY <1>1, <1>2
<1>4. PICK y \in Nat : Segments = (x + 1) + y
  <2>1. Segments - (x + 1) \in Nat /\ Segments = (x + 1) + (Segments - (x + 1))
    BY <1>2, <1>3
  <2>. QED  BY <2>1
<1>5. /\ Segments * Interval = (x + 1) * Interval + y * Interval
      /\ (x + 1) * Interval = x * Interval + 1 * Interval /\ 1 * Interval = Interval
  <2>1. PICK z \in Int : z = x + 1
    BY <1>3
  <2>2. (z + y) * Interval = z * Interval + y * Interval
    BY <1>2, SumTimes
  <2>3. (x + 1) * Interval = x * Interval + 1 * Interval
    BY <1>2, SumTimes
  <2>. QED  BY <1>2, <1>4, <2>1, <2>2, <2>3
<1>6. x * Interval \in Nat /\ y * Interval \in Nat
  BY <1>2, ProductIsNat
<1>. DEFINE xi == x * Interval
            yi == y * Interval
<1>. HIDE DEF xi, yi
<1>7. Segments * Interval = xi + Interval + yi /\ xi \in Nat /\ yi \in Nat
  BY <1>5, <1>6 DEF xi, yi
<1>8. Pos(token) = xi + i
  BY <1>3 DEF Pos, xi
<1>9. xi + i \in Nat \ {0} /\ xi + i <= Segments * Interval
  BY <1>2, <1>3, <1>7
<1>. QED  BY <1>1, <1>3, <1>8, <1>9

(* What is left of data in order is in order.                                *)
LEMMA OrderedThinned ==
  ASSUME NEW v \in Seq(Tokens), NEW w \in Seq(Tokens), NEW low, NEW high,
         NEW f \in [1 .. Len(w) -> 1 .. Len(v)],
         \A i \in 1 .. Len(w) : w[i] = v[f[i]],
         \A i, j \in 1 .. Len(w) : i < j => f[i] < f[j],
         Ordered(v, low, high)
  PROVE  Ordered(w, low, high)
<1>1. ASSUME NEW i \in 1 .. Len(w), ~w[i].marker
      PROVE  /\ low < Pos(w[i]) /\ Pos(w[i]) < high
             /\ \A j \in 1 .. Len(w) : i < j /\ ~w[j].marker => Pos(w[i]) < Pos(w[j])
  <2>1. f[i] \in 1 .. Len(v) /\ w[i] = v[f[i]]
    OBVIOUS
  <2>2. low < Pos(w[i]) /\ Pos(w[i]) < high
    BY <1>1, <2>1 DEF Ordered
  <2>3. ASSUME NEW j \in 1 .. Len(w), i < j, ~w[j].marker
        PROVE  Pos(w[i]) < Pos(w[j])
    <3>1. f[j] \in 1 .. Len(v) /\ w[j] = v[f[j]] /\ f[i] < f[j]
      BY <2>3
    <3>. QED  BY <1>1, <2>1, <2>3, <3>1 DEF Ordered
  <2>. QED  BY <2>2, <2>3
<1>. QED  BY <1>1 DEF Ordered

(* What is loaded and what is under way, in one.                             *)
LEMMA StreamFacts ==
  ASSUME NEW s \in Calls
  PROVE  LET v == s.dec.bits \o s.wire
             b == Len(s.dec.bits)
         IN /\ v \in Seq(Tokens) /\ b \in Nat /\ Len(s.wire) \in Nat
            /\ Len(v) = b + Len(s.wire)
            /\ \A i \in 1 .. b : v[i] = s.dec.bits[i]
            /\ \A i \in 1 .. Len(s.wire) : v[b + i] = s.wire[i]
<1>1. s.wire \in Seq(Tokens) /\ s.dec.bits \in Seq(DataTokens)
  BY CallFacts
<1>2. s.dec.bits \in Seq(Tokens)
  BY <1>1 DEF Tokens
<1>3. PICK x \in Seq(Tokens), y \in Seq(Tokens) : x = s.dec.bits /\ y = s.wire
  BY <1>1, <1>2
<1>4. /\ x \o y \in Seq(Tokens) /\ Len(x \o y) = Len(x) + Len(y)
      /\ \A i \in 1 .. Len(x) : (x \o y)[i] = x[i]
      /\ \A i \in 1 .. Len(y) : (x \o y)[Len(x) + i] = y[i]
  BY JoinFacts
<1>5. Len(x) \in Nat /\ Len(y) \in Nat
  OBVIOUS
<1>. QED  BY <1>3, <1>4, <1>5

(* process_restart leaves some of it.                                        *)
LEMMA ProcessStraight ==
  ASSUME NEW s \in Calls, ~s.suspended, NEW byte \in BOOLEAN, NEW high \in Int,
         Straight(s, high)
  PROVE  Straight(ProcessRestart(s, byte), high)
<1>. DEFINE t == ProcessRestart(s, byte)
<1>1. /\ t \in Calls /\ Takes(s.wire, t.wire)
      /\ t.dec.at = s.dec.at /\ t.dec.bits = <<>> /\ (s.dec.warned => t.dec.warned)
      /\ t.history.repeated = s.history.repeated
      /\ t.history.damaged = s.history.damaged /\ t.history.shown = s.history.shown
      /\ t.dec.insufficient => s.dec.insufficient
  BY ProcessFacts
<1>. HIDE DEF t
<1>2. SUFFICES ASSUME ~t.dec.warned, ~t.history.repeated,
                      Ordered(s.dec.bits \o s.wire, ShownAt(s), high)
               PROVE  Ordered(t.dec.bits \o t.wire, ShownAt(t), high)
  BY <1>1 DEF Straight, ShownAt, t
<1>3. ShownAt(t) = ShownAt(s)
  BY <1>1 DEF ShownAt
<1>4. s.wire \in Seq(Tokens) /\ t.wire \in Seq(Tokens) /\ s.dec.bits \in Seq(DataTokens)
  BY <1>1, CallFacts
<1>5. Len(t.wire) \in Nat
  BY <1>4
<1>6. Len(s.wire) \in Nat
  BY <1>4
<1>7. PICK k \in 0 .. Len(s.wire) : /\ Len(t.wire) = Len(s.wire) - k
                                    /\ \A i \in 1 .. Len(s.wire) - k : t.wire[i] = s.wire[k + i]
  BY <1>1 DEF Takes
<1>. DEFINE v == s.dec.bits \o s.wire
            b == Len(s.dec.bits)
            f == [i \in 1 .. Len(t.wire) |-> b + (k + i)]
<1>8. /\ v \in Seq(Tokens) /\ Len(v) = b + Len(s.wire) /\ b \in Nat /\ k \in Nat
      /\ \A i \in 1 .. Len(s.wire) : v[b + i] = s.wire[i]
  <2>1. k \in Nat
    BY <1>6
  <2>. QED  BY <2>1, StreamFacts
<1>9. t.dec.bits \o t.wire = t.wire
  BY <1>1, <1>4
<1>. HIDE DEF v, b
<1>10. \A i \in 1 .. Len(t.wire) : k + i \in 1 .. Len(s.wire) /\ b + (k + i) \in 1 .. Len(v)
  BY <1>5, <1>6, <1>7, <1>8
<1>11. f \in [1 .. Len(t.wire) -> 1 .. Len(v)] /\ \A i \in 1 .. Len(t.wire) : f[i] = b + (k + i)
  BY <1>10
<1>12. \A i, j \in 1 .. Len(t.wire) : i < j => b + (k + i) < b + (k + j)
  BY <1>5, <1>8
<1>13. \A i \in 1 .. Len(t.wire) : t.wire[i] = v[b + (k + i)]
  BY <1>7, <1>8, <1>10
<1>. HIDE DEF f
<1>14. Ordered(t.wire, ShownAt(s), high)
  <2>1. Ordered(v, ShownAt(s), high)
    BY <1>2 DEF v
  <2>2. /\ \A i \in 1 .. Len(t.wire) : t.wire[i] = v[f[i]]
        /\ \A i, j \in 1 .. Len(t.wire) : i < j => f[i] < f[j]
    BY <1>11, <1>12, <1>13
  <2>3. PICK w \in Seq(Tokens), low \in {ShownAt(s)} : w = t.wire /\ low = ShownAt(s)
    BY <1>4
  <2>4. Ordered(w, low, high)
    BY <1>8, <1>11, <2>1, <2>2, <2>3, OrderedThinned
  <2>. QED  BY <2>3, <2>4
<1>. QED  BY <1>3, <1>9, <1>14

(* Loading leaves out a marker at most.                                      *)
LEMMA LoadStraight ==
  ASSUME NEW s \in Calls, NEW ahead \in 0 .. MaxAhead, NEW high \in Int, Straight(s, high)
  PROVE  Straight(LoadMcus(s, ahead), high)
<1>. DEFINE t == LoadMcus(s, ahead)
<1>1. /\ t \in Calls /\ t.history = s.history /\ t.dec.at = s.dec.at
      /\ t.dec.insufficient = s.dec.insufficient /\ t.dec.warned = s.dec.warned
      /\ \/ t = s /\ (s.dec.unread # None \/ s.dec.bits # <<>>)
         \/ t.suspended /\ t.dec = s.dec /\ t.wire = s.wire
         \/ /\ s.dec.unread = None /\ t.suspended = s.suspended
            /\ \E k \in 1 .. Len(s.wire), m \in 0 .. Len(s.wire) :
                 /\ t.wire = After(s.wire, k) /\ \A i \in 1 .. m : ~s.wire[i].marker
                 /\ t.dec.bits = s.dec.bits \o SubSeq(s.wire, 1, m)
                 /\ \/ m = k /\ t.dec.unread = None
                    \/ m = k - 1 /\ s.wire[k].marker /\ t.dec.unread = s.wire[k].number
  BY LoadFacts
<1>. HIDE DEF t
<1>2. CASE t.dec.bits = s.dec.bits /\ t.wire = s.wire
  BY <1>1, <1>2 DEF Straight, ShownAt, t
<1>3. ASSUME NEW k \in 1 .. Len(s.wire), NEW m \in 0 .. Len(s.wire), m <= k,
             t.wire = After(s.wire, k), t.dec.bits = s.dec.bits \o SubSeq(s.wire, 1, m)
      PROVE  Straight(t, high)
  <2>. DEFINE v == s.dec.bits \o s.wire
              w == t.dec.bits \o t.wire
              b == Len(s.dec.bits)
              c == Len(t.dec.bits)
  <2>1. /\ v \in Seq(Tokens) /\ b \in Nat /\ Len(s.wire) \in Nat /\ Len(v) = b + Len(s.wire)
        /\ \A i \in 1 .. b : v[i] = s.dec.bits[i]
        /\ \A i \in 1 .. Len(s.wire) : v[b + i] = s.wire[i]
    BY StreamFacts
  <2>2. /\ w \in Seq(Tokens) /\ c \in Nat /\ Len(t.wire) \in Nat /\ Len(w) = c + Len(t.wire)
        /\ \A i \in 1 .. c : w[i] = t.dec.bits[i]
        /\ \A i \in 1 .. Len(t.wire) : w[c + i] = t.wire[i]
    BY <1>1, StreamFacts
  <2>3. /\ c = b + m
        /\ \A i \in 1 .. b : t.dec.bits[i] = s.dec.bits[i]
        /\ \A i \in 1 .. m : t.dec.bits[b + i] = s.wire[i]
    <3>1. s.wire \in Seq(Tokens) /\ s.dec.bits \in Seq(DataTokens)
      BY CallFacts
    <3>2. PICK x \in Seq(Tokens), y \in Seq(Tokens) : x = s.dec.bits /\ y = SubSeq(s.wire, 1, m)
      <4>1. s.dec.bits \in Seq(Tokens)
        BY <3>1 DEF Tokens
      <4>2. SubSeq(s.wire, 1, m) \in Seq(Tokens)
        BY <3>1, PrefixFacts
      <4>. QED  BY <4>1, <4>2
    <3>3. Len(y) = m /\ \A i \in 1 .. m : y[i] = s.wire[i]
      BY <3>1, <3>2, PrefixFacts
    <3>4. /\ Len(x \o y) = Len(x) + Len(y)
          /\ \A i \in 1 .. Len(x) : (x \o y)[i] = x[i]
          /\ \A i \in 1 .. Len(y) : (x \o y)[Len(x) + i] = y[i]
      BY JoinFacts
    <3>. QED  BY <1>3, <3>2, <3>3, <3>4
  <2>4. Len(t.wire) = Len(s.wire) - k /\ \A i \in 1 .. Len(s.wire) - k : t.wire[i] = s.wire[k + i]
    <3>1. s.wire \in Seq(Tokens) /\ k \in 0 .. Len(s.wire)
      BY <2>1, CallFacts
    <3>. QED  BY <1>3, <3>1, AfterFacts
  <2>. HIDE DEF v, w, b, c
  <2>5. k \in Nat /\ m \in Nat /\ k <= Len(s.wire) /\ k - m \in Nat
    BY <1>3, <2>1
  <2>. DEFINE f == [i \in 1 .. Len(w) |-> IF i <= c THEN i ELSE i + (k - m)]
  <2>6. Len(w) = b + m + (Len(s.wire) - k)
    BY <2>2, <2>3, <2>4
  <2>7. f \in [1 .. Len(w) -> 1 .. Len(v)]
    <3>1. Len(s.wire) \in Nat /\ Len(w) \in Nat /\ Len(v) \in Nat
      BY <2>1, <2>2
    <3>2. PICK l \in Nat, lw \in Nat, lv \in Nat :
            l = Len(s.wire) /\ lw = Len(w) /\ lv = Len(v)
      BY <3>1, Zenon
    <3>3. /\ lv = b + l /\ lw = b + m + (l - k) /\ c = b + m /\ k <= l
      BY <2>1, <2>3, <2>5, <2>6, <3>2
    <3>4. \A i \in 1 .. lw : (IF i <= c THEN i ELSE i + (k - m)) \in 1 .. lv
      BY <1>3, <2>1, <2>5, <3>3
    <3>5. \A i \in 1 .. Len(w) : (IF i <= c THEN i ELSE i + (k - m)) \in 1 .. Len(v)
      BY <3>2, <3>4
    <3>. QED  BY <3>5, Zenon
  <2>8. \A i, j \in 1 .. Len(w) : i < j => f[i] < f[j]
    BY <2>1, <2>2, <2>3, <2>5, <2>6
  <2>9. ASSUME NEW i \in 1 .. Len(w)
        PROVE  w[i] = v[f[i]]
    <3>1. CASE i <= b
      <4>1. i \in 1 .. b /\ i \in 1 .. c /\ f[i] = i
        BY <2>1, <2>2, <2>3, <2>5, <3>1
      <4>2. w[i] = t.dec.bits[i] /\ t.dec.bits[i] = s.dec.bits[i]
        BY <2>2, <2>3, <4>1
      <4>3. v[i] = s.dec.bits[i]
        BY <2>1, <4>1
      <4>. QED  BY <4>1, <4>2, <4>3
    <3>2. CASE ~(i <= b) /\ i <= c
      <4>1. PICK j \in 1 .. m : i = b + j
        <5>1. i - b \in 1 .. m /\ i = b + (i - b)
          BY <2>1, <2>2, <2>3, <2>5, <3>2
        <5>. QED  BY <5>1
      <4>2. i \in 1 .. c /\ f[i] = b + j /\ j \in 1 .. Len(s.wire)
        BY <1>3, <2>1, <2>2, <2>3, <2>5, <3>2, <4>1
      <4>3. w[i] = t.dec.bits[b + j]
        BY <2>2, <4>1, <4>2
      <4>4. t.dec.bits[b + j] = s.wire[j]
        BY <2>3
      <4>5. v[f[i]] = s.wire[j]
        BY <2>1, <4>2
      <4>. QED  BY <4>3, <4>4, <4>5
    <3>3. CASE ~(i <= c)
      <4>1. PICK j \in 1 .. Len(t.wire) : i = c + j
        <5>1. i - c \in 1 .. Len(t.wire) /\ i = c + (i - c)
          BY <2>2, <3>3
        <5>. QED  BY <5>1
      <4>2. PICK l \in Nat : l = Len(s.wire)
        BY <2>1
      <4>3. k + j \in 1 .. l /\ j \in 1 .. l - k
        BY <2>4, <2>5, <4>1, <4>2
      <4>4. /\ w[i] = t.wire[j] /\ t.wire[j] = s.wire[k + j] /\ k + j \in 1 .. Len(s.wire)
        BY <2>2, <2>4, <4>1, <4>2, <4>3
      <4>5. f[i] = b + (k + j)
        BY <2>1, <2>2, <2>3, <2>5, <3>3, <4>1
      <4>. QED  BY <2>1, <4>4, <4>5
    <3>. QED  BY <3>1, <3>2, <3>3
  <2>. HIDE DEF f
  <2>10. ShownAt(t) = ShownAt(s)
    BY <1>1 DEF ShownAt
  <2>11. ASSUME NEW low, Ordered(v, low, high)
         PROVE  Ordered(w, low, high)
    BY <2>1, <2>2, <2>7, <2>8, <2>9, <2>11, OrderedThinned
  <2>. QED  BY <1>1, <2>10, <2>11 DEF Straight, v, w
<1>4. \A k \in 1 .. Len(s.wire), m \in 0 .. Len(s.wire) : m = k \/ m = k - 1 => m <= k
  <2>1. s.wire \in Seq(Tokens)
    BY CallFacts
  <2>. QED  BY <2>1
<1>. QED  BY <1>1, <1>2, <1>3, <1>4 DEF t

(* Showing what is loaded.                                                   *)
LEMMA FirstStraight ==
  ASSUME NEW s \in Calls, NEW high \in Int, Straight(s, high),
         s.dec.bits # <<>>, s.dec.togo # 0
  PROVE  Straight(Shown(First(s), SubSeq(s.dec.bits, 1, 1)), high)
<1>. DEFINE n == Len(s.dec.bits)
            token == SubSeq(s.dec.bits, 1, 1)
            r == First(s)
            t == Shown(r, token)
            one == s.dec.bits[1]
<1>1. /\ r \in Calls /\ r.wire = s.wire
      /\ r.dec.at = s.dec.at /\ r.dec.togo = s.dec.togo
      /\ r.dec.insufficient = s.dec.insufficient
      /\ r.dec.warned = s.dec.warned /\ r.history = s.history
      /\ n \in Nat \ {0} /\ Len(r.dec.bits) = n - 1
      /\ \A i \in 1 .. n - 1 : r.dec.bits[i] = s.dec.bits[i + 1]
      /\ token \in Seq(DataTokens) /\ token # <<>> /\ token[1] = one
      /\ one \in DataTokens
  BY FirstFacts
<1>. HIDE DEF n, token, r
<1>2. /\ t \in Calls /\ t.wire = r.wire /\ t.dec.at = r.dec.at + 1
      /\ t.dec.bits = r.dec.bits /\ t.dec.insufficient = r.dec.insufficient
      /\ t.dec.warned = r.dec.warned
      /\ t.history.repeated = r.history.repeated /\ t.history.shown = token
      /\ t.history.damaged = (r.history.damaged \/ Damages(r, token))
  BY <1>1, ShownFacts
<1>. HIDE DEF t
<1>. SUFFICES ASSUME ~t.dec.warned, ~t.history.repeated
              PROVE  /\ ~t.dec.insufficient
                     /\ Ordered(t.dec.bits \o t.wire, ShownAt(t), high)
                     /\ t.dec.at <= ShownAt(t) /\ ShownAt(t) < high
                     /\ t.history.damaged => t.dec.at < ShownAt(t)
  BY DEF Straight, t, r, token
<1>3. /\ ~s.dec.insufficient
      /\ Ordered(s.dec.bits \o s.wire, ShownAt(s), high)
      /\ s.dec.at <= ShownAt(s) /\ ShownAt(s) < high
      /\ s.history.damaged => s.dec.at < ShownAt(s)
  BY <1>1, <1>2 DEF Straight
<1>. DEFINE v == s.dec.bits \o s.wire
            w == t.dec.bits \o t.wire
<1>4. /\ v \in Seq(Tokens) /\ Len(s.wire) \in Nat /\ Len(v) = n + Len(s.wire)
      /\ \A i \in 1 .. n : v[i] = s.dec.bits[i]
      /\ \A i \in 1 .. Len(s.wire) : v[n + i] = s.wire[i]
  BY StreamFacts DEF n
<1>5. /\ w \in Seq(Tokens) /\ Len(w) = n - 1 + Len(s.wire)
      /\ \A i \in 1 .. n - 1 : w[i] = s.dec.bits[i + 1]
      /\ \A i \in 1 .. Len(s.wire) : w[n - 1 + i] = s.wire[i]
  <2>1. PICK c \in Nat : c = n - 1 /\ c = Len(t.dec.bits)
    BY <1>1, <1>2
  <2>2. /\ w \in Seq(Tokens) /\ Len(w) = c + Len(t.wire)
        /\ \A i \in 1 .. c : w[i] = t.dec.bits[i]
        /\ \A i \in 1 .. Len(t.wire) : w[c + i] = t.wire[i]
    BY <1>2, <2>1, StreamFacts
  <2>. HIDE DEF w
  <2>. QED  BY <1>1, <1>2, <2>1, <2>2
<1>6. s.dec.at \in Nat /\ ShownAt(s) \in Nat
  <2>1. s.dec.at \in Nat /\ s.history.shown \in Seq(DataTokens)
    BY CallFacts
  <2>2. s.history.shown # <<>> => s.history.shown[1] \in DataTokens
    BY <2>1
  <2>3. s.history.shown # <<>> => Pos(s.history.shown[1]) \in Nat
    BY <2>2, PosFacts
  <2>. QED  BY <2>1, <2>3 DEF ShownAt
<1>. HIDE DEF v, w
<1>7. ASSUME NEW i \in 1 .. Len(w)
      PROVE  w[i] = v[i + 1] /\ i + 1 \in 1 .. Len(v) /\ 1 < i + 1
  <2>1. CASE i <= n - 1
    <3>1. i \in 1 .. n - 1 /\ i + 1 \in 1 .. n /\ i + 1 \in 1 .. Len(v) /\ 1 < i + 1
      BY <1>1, <1>4, <1>5, <2>1
    <3>. QED  BY <1>4, <1>5, <3>1
  <2>2. CASE ~(i <= n - 1)
    <3>1. PICK j \in 1 .. Len(s.wire) : i = n - 1 + j
      <4>1. i - (n - 1) \in 1 .. Len(s.wire) /\ i = n - 1 + (i - (n - 1))
        <5>1. PICK l \in Nat : l = Len(s.wire)
          BY <1>4
        <5>2. i \in 1 .. n - 1 + l /\ ~(i <= n - 1)
          BY <1>5, <2>2, <5>1
        <5>3. i - (n - 1) \in 1 .. l /\ i = n - 1 + (i - (n - 1))
          BY <1>1, <5>2
        <5>. QED  BY <5>1, <5>3
      <4>. QED  BY <4>1
    <3>2. i + 1 = n + j /\ i + 1 \in 1 .. Len(v) /\ 1 < i + 1
      BY <1>1, <1>4, <3>1
    <3>. QED  BY <1>4, <1>5, <3>1, <3>2
  <2>. QED  BY <2>1, <2>2
<1>8. v[1] = one /\ 1 \in 1 .. Len(v) /\ ~one.marker /\ Pos(one) \in Nat
  <2>1. 1 \in 1 .. n /\ 1 \in 1 .. Len(v)
    BY <1>1, <1>4
  <2>. QED  BY <1>1, <1>4, <2>1, PosFacts
<1>9. ShownAt(t) = Pos(one)
  BY <1>1, <1>2 DEF ShownAt
<1>. HIDE DEF one
<1>10. Ordered(v, ShownAt(s), high)
  BY <1>3 DEF v
<1>11. ShownAt(s) < Pos(one) /\ Pos(one) < high
  BY <1>8, <1>10 DEF Ordered
<1>12. Ordered(w, Pos(one), high)
  <2>1. ASSUME NEW i \in 1 .. Len(w), ~w[i].marker
        PROVE  /\ Pos(one) < Pos(w[i]) /\ Pos(w[i]) < high
               /\ \A j \in 1 .. Len(w) : i < j /\ ~w[j].marker => Pos(w[i]) < Pos(w[j])
    <3>1. w[i] = v[i + 1] /\ i + 1 \in 1 .. Len(v) /\ 1 < i + 1
      BY <1>7
    <3>2. Pos(one) < Pos(w[i]) /\ Pos(w[i]) < high
      BY <1>8, <1>10, <2>1, <3>1 DEF Ordered
    <3>3. ASSUME NEW j \in 1 .. Len(w), i < j, ~w[j].marker
          PROVE  Pos(w[i]) < Pos(w[j])
      <4>1. w[j] = v[j + 1] /\ j + 1 \in 1 .. Len(v) /\ i + 1 < j + 1
        BY <1>5, <1>7, <3>3
      <4>. QED  BY <1>10, <2>1, <3>1, <3>3, <4>1 DEF Ordered
    <3>. QED  BY <3>2, <3>3
  <2>. QED  BY <2>1 DEF Ordered
<1>13. t.dec.at = s.dec.at + 1 /\ t.dec.at <= Pos(one)
  BY <1>1, <1>2, <1>3, <1>6, <1>8, <1>11
<1>14. ASSUME t.history.damaged
       PROVE  t.dec.at < Pos(one)
  <2>1. CASE s.history.damaged
    BY <1>1, <1>2, <1>3, <1>6, <1>8, <1>11, <1>13, <2>1
  <2>2. CASE ~s.history.damaged
    <3>1. <<one.segment, one.mcu>> # <<s.dec.at \div Interval, (s.dec.at % Interval) + 1>>
      BY <1>1, <1>2, <1>14, <2>2 DEF Damages
    <3>2. Pos(one) # s.dec.at + 1
      <4>. SUFFICES ASSUME Pos(one) = s.dec.at + 1 PROVE FALSE
        OBVIOUS
      <4>1. Interval \in Nat \ {0} /\ one.segment \in Nat /\ one.mcu \in 1 .. Interval
        BY <1>1, PosFacts, RestartAssumption
      <4>2. PICK x \in Nat, i \in 0 .. Interval - 1 : x = one.segment /\ i + 1 = one.mcu
        <5>1. one.mcu - 1 \in 0 .. Interval - 1 /\ (one.mcu - 1) + 1 = one.mcu
          BY <4>1
        <5>. QED  BY <4>1, <5>1
      <4>3. x * Interval \in Nat
        BY <4>1, ProductIsNat
      <4>4. s.dec.at = x * Interval + i
        <5>. DEFINE xi == x * Interval
        <5>1. xi \in Nat /\ Pos(one) = xi + (i + 1)
          BY <4>2, <4>3 DEF Pos
        <5>. HIDE DEF xi
        <5>2. s.dec.at = xi + i
          BY <1>6, <4>1, <5>1
        <5>. QED  BY <5>2 DEF xi
      <4>5. (x * Interval + i) \div Interval = x /\ (x * Interval + i) % Interval = i
        <5>1. x \in Int /\ i \in 0 .. Interval - 1
          BY <4>2
        <5>. QED  BY <4>1, <5>1, PlaceIn
      <4>. QED  BY <3>1, <4>2, <4>4, <4>5
    <3>. QED  BY <1>6, <1>8, <1>13, <3>2
  <2>. QED  BY <2>1, <2>2
<1>15. ~t.dec.insufficient
  BY <1>1, <1>2, <1>3
<1>. QED  BY <1>9, <1>11, <1>12, <1>13, <1>14, <1>15 DEF w

(* decode_mcu after process_restart: grey is shown with a warning only.      *)
LEMMA DecodeStraight ==
  ASSUME NEW s \in Calls, ~s.suspended, Grounded(s), NEW ahead \in 0 .. MaxAhead,
         NEW high \in Int, Straight(s, high), s.dec.togo # 0
  PROVE  Straight(DecodeBlocks(s, ahead), high)
<1>. DEFINE t == DecodeBlocks(s, ahead)
            u == LoadMcus(s, ahead)
<1>1. \/ /\ t \in Calls /\ t.dec = s.dec /\ t.wire = s.wire /\ t.history = s.history
      \/ t = Shown(s, <<>>) /\ s.dec.insufficient
      \/ u.dec.bits # <<>> /\ t = Shown(First(u), SubSeq(u.dec.bits, 1, 1))
      \/ u.dec.bits = <<>> /\ u.dec.unread # None /\ t = Shown(HitMarker(u), <<>>)
  BY DecodeCases
<1>2. u \in Calls /\ u.dec.togo = s.dec.togo
  BY LoadFacts
<1>3. Straight(u, high)
  BY LoadStraight
<1>4. <<>> \in Seq(DataTokens)
  OBVIOUS
<1>. HIDE DEF t, u
<1>5. CASE t.dec = s.dec /\ t.wire = s.wire /\ t.history = s.history
  BY <1>5 DEF Straight, ShownAt, t
<1>6. CASE t = Shown(s, <<>>) /\ s.dec.insufficient
  <2>. DEFINE v == Shown(s, <<>>)
  <2>1. v.dec.warned = s.dec.warned /\ v.history.repeated = s.history.repeated
    BY <1>4, ShownFacts
  <2>. HIDE DEF v
  <2>. QED  BY <1>6, <2>1 DEF Straight, t, v
<1>7. CASE u.dec.bits # <<>> /\ t = Shown(First(u), SubSeq(u.dec.bits, 1, 1))
  BY <1>2, <1>3, <1>7, FirstStraight DEF t
<1>8. CASE u.dec.bits = <<>> /\ u.dec.unread # None /\ t = Shown(HitMarker(u), <<>>)
  <2>. DEFINE r == HitMarker(u)
              v == Shown(r, <<>>)
  <2>1. r \in Calls /\ r.dec.togo = u.dec.togo /\ r.dec.warned
    BY <1>2, HitFacts
  <2>. HIDE DEF r
  <2>2. r.dec.togo # 0
    BY <1>2, <2>1
  <2>3. v.dec.warned
    BY <1>4, <2>1, <2>2, ShownFacts
  <2>. HIDE DEF v
  <2>4. t = v
    BY <1>8 DEF v, r
  <2>. QED  BY <2>3, <2>4 DEF Straight, t
<1>. QED  BY <1>1, <1>5, <1>6, <1>7, <1>8 DEF t

(* A call of the decoder.                                                    *)
LEMMA CallStraight ==
  ASSUME NEW s \in Calls, ~s.suspended, Grounded(s), NEW high \in Int, Straight(s, high),
         NEW byte \in BOOLEAN, NEW ahead \in 0 .. MaxAhead
  PROVE  Straight(Call(s, ahead, byte), high)
<1>1. CASE s.dec.togo # 0
  <2>1. Call(s, ahead, byte) = DecodeBlocks(s, ahead)
    BY <1>1 DEF Call
  <2>. QED  BY <1>1, <2>1, DecodeStraight
<1>2. CASE s.dec.togo = 0
  <2>. DEFINE r == ProcessRestart(s, byte)
  <2>1. Call(s, ahead, byte) = DecodeBlocks(r, ahead)
    BY <1>2 DEF Call
  <2>2. /\ r \in Calls /\ r.dec.bits = <<>>
        /\ r.suspended => /\ r.dec.insufficient = s.dec.insufficient
                          /\ s.dec.unread # None => r.dec.unread # None
        /\ ~r.suspended => /\ r.dec.togo = Interval
                           /\ r.dec.insufficient => r.dec.unread # None
    BY ProcessFacts
  <2>3. Straight(r, high)
    BY ProcessStraight
  <2>. HIDE DEF r
  <2>4. CASE r.suspended
    <3>1. DecodeBlocks(r, ahead) = r
      BY <2>4 DEF DecodeBlocks
    <3>. QED  BY <2>1, <2>3, <3>1
  <2>5. CASE ~r.suspended
    <3>1. Grounded(r) /\ r.dec.togo # 0
      BY <2>2, <2>5, RestartAssumption DEF Grounded
    <3>2. Straight(DecodeBlocks(r, ahead), high)
      BY <2>2, <2>3, <2>5, <3>1, DecodeStraight
    <3>. QED  BY <2>1, <3>2
  <2>. QED  BY <2>4, <2>5
<1>. QED  BY <1>1, <1>2

-----------------------------------------------------------------------------
(* What is sent. *)

(* A token more is where the sender is.                                      *)
LEMMA AppendContains ==
  ASSUME NEW s \in Calls, NEW t \in Calls, NEW token \in Tokens, NEW D \in Nat,
         NEW last \in Places, NEW c \in Places, Contained(s, D, last), Follows(last, token, c),
         t.dec = s.dec, t.wire = Append(s.wire, token),
         t.history.wasted = s.history.wasted, t.history.shown = s.history.shown
  PROVE  Contained(t, D, c)
<1>1. PICK a \in Places : Carries(s.wire, a, last) /\ At(s, a, D)
  BY DEF Contained, Placed
<1>2. s.wire \in Seq(Tokens)
  BY CallFacts
<1>3. Carries(t.wire, a, c)
  <2>1. Carries(Append(s.wire, token), a, c)
    BY <1>1, <1>2, CarriesAppend
  <2>. QED  BY <2>1
<1>4. At(t, a, D)
  BY <1>1 DEF At, AtData, AtBogus, AtMarker
<1>5. Placed(t, D, c)
  BY <1>3, <1>4 DEF Placed
<1>. QED  BY <1>5 DEF Contained, BitsFit, ShownFits

(* Nothing more.                                                             *)
LEMMA SameContains ==
  ASSUME NEW s \in Calls, NEW t \in Calls, NEW D \in Nat, NEW last \in Places,
         Contained(s, D, last), t.dec = s.dec, t.wire = s.wire,
         t.history.wasted = s.history.wasted, t.history.shown = s.history.shown
  PROVE  Contained(t, D, last)
BY DEF Contained, Placed, At, AtData, AtBogus, AtMarker, BitsFit, ShownFits

(* Where what is shown last is.                                              *)
LEMMA ShownAtFacts ==
  ASSUME NEW s \in Calls
  PROVE  ShownAt(s) \in Nat /\ ShownAt(s) <= Segments * Interval
<1>1. s.history.shown \in Seq(DataTokens)
  BY CallFacts
<1>2. CASE s.history.shown = <<>>
  <2>1. Segments * Interval \in Nat
    BY RestartAssumption, ProductIsNat
  <2>. QED  BY <1>2, <2>1 DEF ShownAt
<1>3. CASE s.history.shown # <<>>
  <2>1. s.history.shown[1] \in DataTokens
    BY <1>1, <1>3
  <2>2. /\ Pos(s.history.shown[1]) \in Nat
        /\ Pos(s.history.shown[1]) <= Segments * Interval
    BY <2>1, PosFacts
  <2>. QED  BY <1>3, <2>2 DEF ShownAt
<1>. QED  BY <1>2, <1>3

(* A token more, and what the sender is at moves on.                         *)
LEMMA AppendStraight ==
  ASSUME NEW s \in Calls, NEW t \in Calls, NEW token \in Tokens,
         NEW high \in Int, NEW next \in Int, high <= next, Straight(s, high),
         ~token.marker => Pos(token) = high /\ high < next,
         t.dec = s.dec, t.wire = Append(s.wire, token),
         t.history.repeated = s.history.repeated, t.history.damaged = s.history.damaged,
         t.history.shown = s.history.shown
  PROVE  Straight(t, next)
<1>. SUFFICES ASSUME ~s.dec.warned, ~s.history.repeated
              PROVE  /\ Ordered(t.dec.bits \o t.wire, ShownAt(t), next)
                     /\ ShownAt(t) < next
  BY DEF Straight, ShownAt
<1>1. Ordered(s.dec.bits \o s.wire, ShownAt(s), high) /\ ShownAt(s) < high
  BY DEF Straight
<1>2. ShownAt(t) = ShownAt(s) /\ ShownAt(s) \in Nat
  BY ShownAtFacts DEF ShownAt
<1>. DEFINE v == s.dec.bits \o s.wire
            w == t.dec.bits \o t.wire
            n == Len(v)
<1>3. v \in Seq(Tokens)
  BY StreamFacts
<1>4. w = Append(v, token)
  <2>1. s.wire \in Seq(Tokens) /\ s.dec.bits \in Seq(DataTokens)
    BY CallFacts
  <2>2. s.dec.bits \in Seq(Tokens)
    BY <2>1 DEF Tokens
  <2>3. s.dec.bits \o Append(s.wire, token) = Append(s.dec.bits \o s.wire, token)
    <3>1. PICK x \in Seq(Tokens), y \in Seq(Tokens) : x = s.dec.bits /\ y = s.wire
      BY <2>1, <2>2
    <3>2. x \o Append(y, token) = Append(x \o y, token)
      BY JoinAppend
    <3>. QED  BY <3>1, <3>2
  <2>. QED  BY <2>3
<1>. HIDE DEF v, w
<1>5. /\ n \in Nat /\ Len(w) = n + 1 /\ w[n + 1] = token
      /\ \A i \in 1 .. n : w[i] = v[i] /\ v[i] \in Tokens
  BY <1>3, <1>4
<1>. HIDE DEF n
<1>6. \A i \in 1 .. n : ~v[i].marker => Pos(v[i]) \in Nat
  <2>1. \A i \in 1 .. n : ~v[i].marker => v[i] \in DataTokens
    BY <1>5, TokenFacts
  <2>. QED  BY <2>1, PosFacts
<1>7. \A i \in 1 .. n : ~v[i].marker =>
        /\ ShownAt(s) < Pos(v[i]) /\ Pos(v[i]) < high
        /\ \A j \in 1 .. n : i < j /\ ~v[j].marker => Pos(v[i]) < Pos(v[j])
  BY <1>1 DEF Ordered, v, n
<1>8. ASSUME NEW i \in 1 .. Len(w), ~w[i].marker
      PROVE  /\ ShownAt(s) < Pos(w[i]) /\ Pos(w[i]) < next
             /\ \A j \in 1 .. Len(w) : i < j /\ ~w[j].marker => Pos(w[i]) < Pos(w[j])
  <2>1. CASE i = n + 1
    <3>1. w[i] = token /\ Pos(token) = high /\ high < next
      BY <1>5, <1>8, <2>1
    <3>2. \A j \in 1 .. Len(w) : ~(i < j)
      BY <1>5, <2>1
    <3>. QED  BY <1>1, <3>1, <3>2
  <2>2. CASE i # n + 1
    <3>1. i \in 1 .. n /\ w[i] = v[i] /\ ~v[i].marker
      BY <1>5, <1>8, <2>2
    <3>2. Pos(v[i]) \in Nat /\ ShownAt(s) < Pos(v[i]) /\ Pos(v[i]) < high
      BY <1>6, <1>7, <3>1
    <3>3. ASSUME NEW j \in 1 .. Len(w), i < j, ~w[j].marker
          PROVE  Pos(w[i]) < Pos(w[j])
      <4>1. CASE j = n + 1
        <5>1. w[j] = token /\ Pos(token) = high
          BY <1>5, <3>3, <4>1
        <5>. QED  BY <3>1, <3>2, <5>1
      <4>2. CASE j # n + 1
        <5>1. j \in 1 .. n /\ w[j] = v[j]
          BY <1>5, <4>2
        <5>. QED  BY <1>7, <3>1, <3>3, <5>1
      <4>. QED  BY <4>1, <4>2
    <3>4. Pos(v[i]) < next
      BY <3>2
    <3>. QED  BY <3>1, <3>2, <3>3, <3>4
  <2>. QED  BY <2>1, <2>2
<1>9. ShownAt(s) < next
  BY <1>1, <1>2
<1>. QED  BY <1>2, <1>8, <1>9 DEF Ordered, w

(* Nothing more, and what the sender is at moves on.                         *)
LEMMA SameStraight ==
  ASSUME NEW s \in Calls, NEW t \in Calls,
         NEW high \in Int, NEW next \in Int, high <= next, Straight(s, high),
         t.dec = s.dec, t.wire = s.wire,
         t.history.repeated = s.history.repeated, t.history.damaged = s.history.damaged,
         t.history.shown = s.history.shown
  PROVE  Straight(t, next)
<1>. SUFFICES ASSUME ~s.dec.warned, ~s.history.repeated
              PROVE  /\ Ordered(s.dec.bits \o s.wire, ShownAt(s), next)
                     /\ ShownAt(s) < next
  BY DEF Straight, ShownAt
<1>1. Ordered(s.dec.bits \o s.wire, ShownAt(s), high) /\ ShownAt(s) < high
  BY DEF Straight
<1>2. ShownAt(s) \in Nat
  BY ShownAtFacts
<1>. DEFINE v == s.dec.bits \o s.wire
            n == Len(v)
<1>3. v \in Seq(Tokens)
  BY StreamFacts
<1>. HIDE DEF v
<1>4. \A i \in 1 .. n : ~v[i].marker => Pos(v[i]) \in Nat
  <2>1. \A i \in 1 .. n : v[i] \in Tokens
    BY <1>3
  <2>2. \A i \in 1 .. n : ~v[i].marker => v[i] \in DataTokens
    BY <2>1, TokenFacts
  <2>. QED  BY <2>2, PosFacts
<1>5. Ordered(v, ShownAt(s), next)
  <2>1. ASSUME NEW i \in 1 .. n, ~v[i].marker
        PROVE  /\ ShownAt(s) < Pos(v[i]) /\ Pos(v[i]) < next
               /\ \A j \in 1 .. n : i < j /\ ~v[j].marker => Pos(v[i]) < Pos(v[j])
    <3>1. /\ ShownAt(s) < Pos(v[i]) /\ Pos(v[i]) < high /\ Pos(v[i]) \in Nat
          /\ \A j \in 1 .. n : i < j /\ ~v[j].marker => Pos(v[i]) < Pos(v[j])
      BY <1>1, <1>4, <2>1 DEF Ordered, v
    <3>. QED  BY <3>1
  <2>. QED  BY <2>1 DEF Ordered
<1>. QED  BY <1>1, <1>2, <1>5 DEF v

Senders ==
  [segment : Nat, mcu : 0 .. Interval, next : Nat, marked : BOOLEAN, whole : BOOLEAN,
   burst : Nat]

(* How far the sender is from the place of its last token: past the markers  *)
(* that were lost since, at most two.                                        *)
Sends(e, repeated, last) ==
  e.segment <= Segments =>
    /\ e.next = last.segment + 1 /\ last.segment <= Segments - 1
    /\ last.segment <= e.segment
    /\ e.segment <= last.segment + e.burst + (IF e.mcu = 0 THEN 1 ELSE 0)
    /\ e.mcu # 0 => /\ e.marked => last.segment = e.segment
                    /\ e.whole => last.fresh /\ e.mcu = last.n + 1
    /\ e.mcu = 0 /\ ~repeated => last.segment <= e.segment - 1

(* The place of the MCU that is sent next.                                   *)
NextPos(e) == e.segment * Interval + (IF e.mcu = 0 THEN 1 ELSE e.mcu)

(* What holds between calls: of the types, of the order, and of the places.  *)
SenderOK(e) == e \in Senders /\ (e.segment >= Segments => e.mcu = 0)
CallOK(s) ==
  s \in Calls /\ ~s.suspended /\ Grounded(s) /\ s.dec.at <= Segments * Interval
Kept(e, s, D) ==
  /\ InSegment(s, D) /\ s.dec.expects = D % Numbers
  /\ ~s.history.long =>
       /\ e.burst <= 2
       /\ \E last \in Places : Contained(s, D, last) /\ Sends(e, s.history.repeated, last)
Holds(e, s) ==
  SenderOK(e) /\ CallOK(s) /\ Straight(s, NextPos(e)) /\ \E D \in Nat : Kept(e, s, D)

(* The sender is at a number.                                                *)
LEMMA NextPosIsNat ==
  ASSUME NEW e \in Senders
  PROVE  NextPos(e) \in Nat
<1>1. e.segment \in Nat /\ e.mcu \in 0 .. Interval /\ Interval \in Nat
  BY RestartAssumption DEF Senders
<1>2. e.segment * Interval \in Nat
  BY <1>1, ProductIsNat
<1>. QED  BY <1>1, <1>2 DEF NextPos

(* Where the sender goes a place goes with it, as long as no damage may      *)
(* spread.                                                                   *)
Moves(e, s, f, t) ==
  \A D \in Nat, last \in Places :
    /\ ~t.history.long /\ e.burst <= 2 /\ Contained(s, D, last)
    /\ Sends(e, s.history.repeated, last)
    => /\ f.burst <= 2
       /\ \E c \in Places : Contained(t, D, c) /\ Sends(f, t.history.repeated, c)

(* A step of the sender.                                                     *)
LEMMA SenderKeeps ==
  ASSUME NEW e, NEW s, Holds(e, s), NEW f, SenderOK(f), NEW t \in Calls, ~t.suspended,
         t.dec = s.dec, s.history.long => t.history.long, Straight(t, NextPos(f)),
         Moves(e, s, f, t)
  PROVE  Holds(f, t)
<1>1. PICK D \in Nat : Kept(e, s, D)
  BY DEF Holds
<1>2. Kept(f, t, D)
  <2>1. InSegment(t, D) /\ t.dec.expects = D % Numbers
    BY <1>1 DEF Kept, InSegment
  <2>2. ASSUME ~t.history.long
        PROVE  /\ f.burst <= 2
               /\ \E c \in Places : Contained(t, D, c) /\ Sends(f, t.history.repeated, c)
    <3>1. e.burst <= 2 /\ \E last \in Places : Contained(s, D, last) /\ Sends(e, s.history.repeated, last)
      BY <1>1, <2>2 DEF Kept
    <3>. QED  BY <2>2, <3>1 DEF Moves
  <2>. QED  BY <2>1, <2>2 DEF Kept
<1>3. CallOK(t)
  BY DEF Holds, CallOK, Grounded
<1>. QED  BY <1>2, <1>3 DEF Holds

(* What the sender does next.                                                *)
LEMMA NextFacts ==
  ASSUME NEW e, SenderOK(e), e.segment < Segments
  PROVE  LET f == NextToSend(e)
         IN /\ f \in Senders /\ SenderOK(f)
            /\ f.next = e.next /\ f.marked = e.marked /\ f.whole = e.whole /\ f.burst = e.burst
            /\ f.mcu = 0 \/ f.mcu # 0
            /\ \/ e.mcu < Interval /\ f.segment = e.segment /\ f.mcu = e.mcu + 1
               \/ e.mcu = Interval /\ f.segment = e.segment + 1 /\ f.mcu = 0
            /\ NextPos(f) = IF e.mcu = 0 THEN NextPos(e) ELSE NextPos(e) + 1
<1>. DEFINE f == NextToSend(e)
            xi == e.segment * Interval
<1>1. /\ e.segment \in Nat /\ e.mcu \in 0 .. Interval /\ e.next \in Nat /\ e.burst \in Nat
      /\ e.marked \in BOOLEAN /\ e.whole \in BOOLEAN /\ e \in Senders
  BY DEF SenderOK, Senders
<1>2. Interval \in Nat \ {0} /\ Segments \in Nat \ {0}
  BY RestartAssumption
<1>3. xi \in Nat /\ (e.segment + 1) * Interval = xi + 1 * Interval /\ 1 * Interval = Interval
  BY <1>1, <1>2, SumTimes, ProductIsNat
<1>4. CASE e.mcu < Interval
  <2>1. f = [e EXCEPT !.mcu = e.mcu + 1]
    BY <1>4 DEF NextToSend
  <2>2. e.mcu + 1 \in 0 .. Interval /\ e.mcu + 1 # 0
    BY <1>1, <1>2, <1>4
  <2>3. /\ f \in Senders /\ f.segment = e.segment /\ f.mcu = e.mcu + 1
        /\ f.next = e.next /\ f.marked = e.marked /\ f.whole = e.whole /\ f.burst = e.burst
    BY <1>1, <2>1, <2>2 DEF Senders
  <2>. HIDE DEF f
  <2>4. SenderOK(f)
    BY <1>1, <1>2, <2>3 DEF SenderOK
  <2>5. NextPos(f) = IF e.mcu = 0 THEN NextPos(e) ELSE NextPos(e) + 1
    <3>1. NextPos(f) = xi + (e.mcu + 1)
      BY <2>2, <2>3 DEF NextPos
    <3>2. NextPos(e) = IF e.mcu = 0 THEN xi + 1 ELSE xi + e.mcu
      BY DEF NextPos
    <3>. HIDE DEF xi
    <3>. QED  BY <1>1, <1>3, <3>1, <3>2
  <2>. QED  BY <1>4, <2>3, <2>4, <2>5 DEF f
<1>5. CASE ~(e.mcu < Interval)
  <2>0. e.mcu = Interval
    BY <1>1, <1>2, <1>5
  <2>1. f = [e EXCEPT !.segment = e.segment + 1, !.mcu = 0]
    BY <1>5 DEF NextToSend
  <2>2. 0 \in 0 .. Interval /\ e.segment + 1 \in Nat
    BY <1>1, <1>2
  <2>3. /\ f \in Senders /\ f.segment = e.segment + 1 /\ f.mcu = 0
        /\ f.next = e.next /\ f.marked = e.marked /\ f.whole = e.whole /\ f.burst = e.burst
    BY <1>1, <2>1, <2>2 DEF Senders
  <2>. HIDE DEF f
  <2>4. SenderOK(f)
    BY <2>3 DEF SenderOK
  <2>5. NextPos(f) = IF e.mcu = 0 THEN NextPos(e) ELSE NextPos(e) + 1
    <3>1. NextPos(f) = (e.segment + 1) * Interval + 1
      BY <2>3 DEF NextPos
    <3>2. NextPos(e) = xi + Interval
      BY <1>2, <2>0 DEF NextPos
    <3>. HIDE DEF xi
    <3>. QED  BY <1>2, <1>3, <2>0, <3>1, <3>2
  <2>. QED  BY <2>0, <2>3, <2>4, <2>5 DEF f
<1>. QED  BY <1>4, <1>5

(* What the sender and the places hold, in numbers.                          *)
LEMMA HoldsFacts ==
  ASSUME NEW e, NEW s, Holds(e, s)
  PROVE  /\ e \in Senders /\ SenderOK(e) /\ s \in Calls /\ ~s.suspended
         /\ e.segment \in Nat /\ e.mcu \in 0 .. Interval /\ e.next \in Nat /\ e.burst \in Nat
         /\ e.marked \in BOOLEAN /\ e.whole \in BOOLEAN
         /\ Straight(s, NextPos(e)) /\ NextPos(e) \in Int
         /\ Segments \in Nat \ {0} /\ Interval \in Nat \ {0}
<1>1. SenderOK(e) /\ CallOK(s) /\ Straight(s, NextPos(e))
  BY DEF Holds
<1>2. e \in Senders /\ s \in Calls /\ ~s.suspended
  BY <1>1 DEF SenderOK, CallOK
<1>3. NextPos(e) \in Int
  BY <1>2, NextPosIsNat
<1>4. Segments \in Nat \ {0} /\ Interval \in Nat \ {0}
  BY RestartAssumption
<1>5. /\ e.segment \in Nat /\ e.mcu \in 0 .. Interval /\ e.next \in Nat /\ e.burst \in Nat
      /\ e.marked \in BOOLEAN /\ e.whole \in BOOLEAN
  BY <1>2 DEF Senders
<1>. QED  BY <1>1, <1>2, <1>3, <1>4, <1>5

(* A marker is sent: the place is behind it.                                 *)
LEMMA MarkerSent ==
  ASSUME NEW e, NEW s, Holds(e, s), e.mcu = 0, e.segment \in 1 .. Segments - 1,
         NEW t \in Calls, ~t.suspended, t.dec = s.dec, t.history = s.history,
         t.wire = Append(s.wire, Marker(NumberBefore(e.segment))),
         NEW f, f = [NextToSend(e) EXCEPT !.marked = TRUE, !.whole = e.segment >= e.next,
                                         !.next = e.segment + 1, !.burst = 0]
  PROVE  Holds(f, t)
<1>1. /\ e \in Senders /\ SenderOK(e) /\ s \in Calls
      /\ e.segment \in Nat /\ e.mcu \in 0 .. Interval /\ e.next \in Nat /\ e.burst \in Nat
      /\ Straight(s, NextPos(e)) /\ NextPos(e) \in Int
      /\ Segments \in Nat \ {0} /\ Interval \in Nat \ {0}
  BY HoldsFacts
<1>. DEFINE g == NextToSend(e)
            whole == e.segment >= e.next
            token == Marker(NumberBefore(e.segment))
            c == [segment |-> e.segment, fresh |-> whole, n |-> 0]
<1>2. /\ SenderOK(g) /\ NextPos(g) = NextPos(e) /\ g.segment = e.segment /\ g.mcu = 1
  BY <1>1, NextFacts
<1>3. /\ SenderOK(f) /\ f.segment = e.segment /\ f.mcu = 1 /\ f.marked /\ f.whole = whole
      /\ f.next = e.segment + 1 /\ f.burst = 0 /\ NextPos(f) = NextPos(e)
  <2>. HIDE DEF g
  <2>1. f = [g EXCEPT !.marked = TRUE, !.whole = whole, !.next = e.segment + 1, !.burst = 0]
    BY DEF g
  <2>2. whole \in BOOLEAN /\ e.segment + 1 \in Nat /\ 0 \in Nat
    BY <1>1
  <2>. HIDE DEF whole
  <2>3. PICK n \in Nat : n = e.segment + 1
    BY <2>2
  <2>. QED  BY <1>2, <2>1, <2>2, <2>3 DEF SenderOK, Senders, NextPos
<1>4. token \in Tokens /\ token.marker /\ token.number = (e.segment - 1) % Numbers
  <2>1. PICK z \in Int : z = e.segment - 1
    BY <1>1
  <2>2. Numbers \in Nat \ {0}
    BY RestartAssumption
  <2>3. z % Numbers \in 0 .. Numbers - 1
    BY <2>2, Quotient
  <2>. QED  BY <2>1, <2>3 DEF Marker, NumberBefore, Tokens, MarkerTokens
<1>5. c \in Places /\ c.segment = e.segment /\ c.fresh = whole /\ c.n = 0
  BY <1>1 DEF Places
<1>. HIDE DEF token, c, g
<1>6. Straight(t, NextPos(f))
  <2>1. t.wire = Append(s.wire, token)
    BY DEF token
  <2>2. PICK h \in Int : h = NextPos(e) /\ Straight(s, h) /\ h <= h
    BY <1>1
  <2>3. Straight(t, h)
    BY <1>1, <1>4, <2>1, <2>2, AppendStraight
  <2>. QED  BY <1>3, <2>2, <2>3
<1>7. ASSUME NEW D \in Nat, NEW last \in Places, e.burst <= 2, Contained(s, D, last),
             Sends(e, s.history.repeated, last)
      PROVE  Contained(t, D, c) /\ Sends(f, t.history.repeated, c)
  <2>1. last.segment \in Nat
    BY DEF Places
  <2>2. /\ e.next = last.segment + 1 /\ last.segment <= e.segment
        /\ e.segment <= last.segment + e.burst + 1
    BY <1>1, <1>7 DEF Sends
  <2>3. FollowsMarker(last, token, c)
    <3>1. c.segment \in 1 .. Segments /\ c.segment # Segments
      BY <1>1, <1>5
    <3>2. token.number = NumberOf(c.segment)
      BY <1>4, <1>5, <3>1 DEF NumberOf
    <3>3. c.segment \in last.segment .. last.segment + 3
      BY <1>1, <1>5, <1>7, <2>1, <2>2, SMTT(30)
    <3>4. ASSUME c.fresh  PROVE c.segment > last.segment
      <4>1. e.segment >= e.next
        BY <1>5, <3>4, Zenon
      <4>. QED  BY <1>1, <1>5, <2>1, <2>2, <4>1
    <3>. QED  BY <1>4, <1>5, <3>1, <3>2, <3>3, <3>4 DEF FollowsMarker
  <2>4. Contained(t, D, c)
    <3>1. t.wire = Append(s.wire, token) /\ Follows(last, token, c)
      BY <2>3 DEF token, Follows
    <3>. QED  BY <1>1, <1>4, <1>5, <1>7, <3>1, AppendContains
  <2>5. Sends(f, t.history.repeated, c)
    BY <1>1, <1>3, <1>5 DEF Sends
  <2>. QED  BY <2>4, <2>5
<1>8. f.burst <= 2
  BY <1>3
<1>9. Moves(e, s, f, t)
  BY <1>5, <1>7, <1>8 DEF Moves
<1>10. s.history.long => t.history.long
  OBVIOUS
<1>. QED  BY <1>3, <1>6, <1>9, <1>10, SenderKeeps, Zenon

(* A marker is lost, or comes spoilt: nothing that is sent until the next    *)
(* one is marked.                                                            *)
LEMMA MarkerMissing ==
  ASSUME NEW e, NEW s, Holds(e, s), e.mcu = 0, e.segment \in 1 .. Segments - 1,
         NEW t \in Calls, ~t.suspended, t.dec = s.dec,
         t.wire = s.wire \/ t.wire = Append(s.wire, Marker(Bogus)),
         t.history.long = (s.history.long \/ e.burst >= 2),
         t.history.repeated = s.history.repeated, t.history.damaged = s.history.damaged,
         t.history.shown = s.history.shown, t.history.wasted = s.history.wasted,
         NEW f, f = [NextToSend(e) EXCEPT !.marked = FALSE, !.whole = FALSE, !.burst = @ + 1]
  PROVE  Holds(f, t)
<1>1. /\ e \in Senders /\ SenderOK(e) /\ s \in Calls
      /\ e.segment \in Nat /\ e.mcu \in 0 .. Interval /\ e.next \in Nat /\ e.burst \in Nat
      /\ Straight(s, NextPos(e)) /\ NextPos(e) \in Int
      /\ Segments \in Nat \ {0} /\ Interval \in Nat \ {0}
  BY HoldsFacts
<1>. DEFINE g == NextToSend(e)
            token == Marker(Bogus)
<1>2. /\ SenderOK(g) /\ NextPos(g) = NextPos(e) /\ g.segment = e.segment /\ g.mcu = 1
      /\ g.next = e.next /\ g.burst = e.burst
  BY <1>1, NextFacts
<1>3. /\ SenderOK(f) /\ f.segment = e.segment /\ f.mcu = 1 /\ ~f.marked /\ ~f.whole
      /\ f.next = e.next /\ f.burst = e.burst + 1 /\ NextPos(f) = NextPos(e)
  <2>. HIDE DEF g
  <2>1. f = [g EXCEPT !.marked = FALSE, !.whole = FALSE, !.burst = g.burst + 1]
    BY DEF g
  <2>2. PICK n \in Nat : n = g.burst + 1
    BY <1>1, <1>2
  <2>. QED  BY <1>2, <2>1, <2>2 DEF SenderOK, Senders, NextPos
<1>4. token \in Tokens /\ token.marker /\ token.number = Bogus
  BY DEF Marker, Tokens, MarkerTokens
<1>. HIDE DEF token, g
<1>5. Straight(t, NextPos(f))
  <2>1. PICK h \in Int : h = NextPos(e) /\ Straight(s, h) /\ h <= h
    BY <1>1
  <2>2. CASE t.wire = s.wire
    <3>1. Straight(t, h)
      BY <1>1, <2>1, <2>2, SameStraight
    <3>. QED  BY <1>3, <2>1, <3>1
  <2>3. CASE t.wire = Append(s.wire, token)
    <3>1. Straight(t, h)
      BY <1>1, <1>4, <2>1, <2>3, AppendStraight
    <3>. QED  BY <1>3, <2>1, <3>1
  <2>. QED  BY <2>2, <2>3 DEF token
<1>6. ASSUME NEW D \in Nat, NEW last \in Places, ~t.history.long, e.burst <= 2,
             Contained(s, D, last), Sends(e, s.history.repeated, last)
      PROVE  /\ f.burst <= 2
             /\ \E c \in Places : Contained(t, D, c) /\ Sends(f, t.history.repeated, c)
  <2>1. last.segment \in Nat /\ last.fresh \in BOOLEAN /\ last.n \in Nat
    BY DEF Places
  <2>2. /\ e.next = last.segment + 1 /\ last.segment <= e.segment
        /\ last.segment <= Segments - 1
        /\ e.segment <= last.segment + e.burst + 1
    BY <1>1, <1>6 DEF Sends
  <2>3. f.burst <= 2
    <3>1. ~(e.burst >= 2)
      BY <1>6, Zenon
    <3>. QED  BY <1>1, <1>3, <3>1
  <2>4. ASSUME NEW c \in Places, c.segment = last.segment
        PROVE  Sends(f, t.history.repeated, c)
    BY <1>1, <1>3, <2>1, <2>2, <2>4 DEF Sends
  <2>5. CASE t.wire = s.wire
    <3>1. Contained(t, D, last)
      BY <1>1, <1>6, <2>5, SameContains
    <3>. QED  BY <2>3, <2>4, <3>1
  <2>6. CASE t.wire = Append(s.wire, token)
    <3>. DEFINE c == [last EXCEPT !.fresh = FALSE]
    <3>1. c \in Places /\ c.segment = last.segment /\ ~c.fresh
      BY <2>1 DEF Places
    <3>. HIDE DEF c
    <3>2. Follows(last, token, c)
      BY <1>4, <3>1 DEF Follows, FollowsBogus
    <3>3. Contained(t, D, c)
      BY <1>1, <1>4, <1>6, <2>6, <3>1, <3>2, AppendContains
    <3>. QED  BY <2>3, <2>4, <3>1, <3>3
  <2>. QED  BY <2>5, <2>6 DEF token
<1>7. Moves(e, s, f, t)
  BY <1>6 DEF Moves
<1>8. s.history.long => t.history.long
  OBVIOUS
<1>. QED  BY <1>3, <1>5, <1>7, <1>8, SenderKeeps, Zenon

(* Data is sent, or lost: what comes after that is not whole.                *)
LEMMA DataSent ==
  ASSUME NEW e, NEW s, Holds(e, s), e.mcu > 0, e.segment < Segments,
         NEW t \in Calls, ~t.suspended, t.dec = s.dec, t.history = s.history,
         t.wire = Append(s.wire, Data(e.segment, e.mcu, e.marked, e.whole)),
         NEW f, f = NextToSend(e)
  PROVE  Holds(f, t)
<1>1. /\ e \in Senders /\ SenderOK(e) /\ s \in Calls
      /\ e.segment \in Nat /\ e.mcu \in 0 .. Interval /\ e.next \in Nat /\ e.burst \in Nat
      /\ e.marked \in BOOLEAN /\ e.whole \in BOOLEAN
      /\ Straight(s, NextPos(e)) /\ NextPos(e) \in Int
      /\ Segments \in Nat \ {0} /\ Interval \in Nat \ {0}
  BY HoldsFacts
<1>. DEFINE token == Data(e.segment, e.mcu, e.marked, e.whole)
<1>2. /\ SenderOK(f) /\ NextPos(f) = NextPos(e) + 1
      /\ f.next = e.next /\ f.burst = e.burst /\ f.marked = e.marked /\ f.whole = e.whole
      /\ \/ f.segment = e.segment /\ f.mcu = e.mcu + 1
         \/ e.mcu = Interval /\ f.segment = e.segment + 1 /\ f.mcu = 0
  BY <1>1, NextFacts
<1>3. /\ token \in Tokens /\ ~token.marker /\ token.segment = e.segment /\ token.mcu = e.mcu
      /\ token.marked = e.marked /\ token.whole = e.whole
  <2>1. e.segment \in 0 .. Segments - 1 /\ e.mcu \in 1 .. Interval
    BY <1>1
  <2>. QED  BY <1>1, <2>1 DEF Data, Tokens, DataTokens
<1>4. Pos(token) = NextPos(e)
  BY <1>1, <1>3 DEF Pos, NextPos
<1>. HIDE DEF token
<1>5. Straight(t, NextPos(f))
  <2>1. PICK h \in Int, n \in Int : /\ h = NextPos(e) /\ n = NextPos(f) /\ Straight(s, h)
                                    /\ h <= n /\ h < n /\ Pos(token) = h
    BY <1>1, <1>2, <1>4
  <2>2. t.wire = Append(s.wire, token)
    BY DEF token
  <2>3. Straight(t, n)
    BY <1>1, <1>3, <2>1, <2>2, AppendStraight
  <2>. QED  BY <2>1, <2>3
<1>6. ASSUME NEW D \in Nat, NEW last \in Places, e.burst <= 2,
             Contained(s, D, last), Sends(e, s.history.repeated, last)
      PROVE  /\ f.burst <= 2
             /\ \E c \in Places : Contained(t, D, c) /\ Sends(f, t.history.repeated, c)
  <2>1. last.segment \in Nat /\ last.fresh \in BOOLEAN /\ last.n \in Nat
    BY DEF Places
  <2>2. /\ e.next = last.segment + 1 /\ last.segment <= e.segment
        /\ last.segment <= Segments - 1
        /\ e.segment <= last.segment + e.burst
        /\ e.marked => last.segment = e.segment
        /\ e.whole => last.fresh /\ e.mcu = last.n + 1
    <3>1. e.mcu # 0 /\ e.segment <= Segments
      BY <1>1
    <3>2. /\ e.next = last.segment + 1 /\ last.segment <= e.segment
          /\ last.segment <= Segments - 1
          /\ e.segment <= last.segment + e.burst + 0
      BY <1>6, <3>1 DEF Sends
    <3>3. /\ e.marked => last.segment = e.segment
          /\ e.whole => last.fresh /\ e.mcu = last.n + 1
      BY <1>6, <3>1, Zenon DEF Sends
    <3>. QED  BY <1>1, <2>1, <3>2, <3>3
  <2>. DEFINE c == Further(last, 1)
  <2>3. /\ c \in Places /\ c.segment = last.segment /\ c.fresh = last.fresh
        /\ c.n = last.n + 1 /\ c = [last EXCEPT !.n = @ + 1]
    <3>1. 1 \in Nat
      OBVIOUS
    <3>. QED  BY <3>1, FurtherFacts DEF Further
  <2>. HIDE DEF c
  <2>4. Follows(last, token, c)
    BY <1>3, <2>2, <2>3 DEF Follows, FollowsData
  <2>5. Contained(t, D, c)
    <3>1. t.wire = Append(s.wire, token)
      BY DEF token
    <3>. QED  BY <1>1, <1>3, <1>6, <2>3, <2>4, <3>1, AppendContains
  <2>6. Sends(f, t.history.repeated, c)
    <3>1. CASE f.segment = e.segment /\ f.mcu = e.mcu + 1
      <4>1. f.mcu # 0
        BY <1>1, <3>1
      <4>2. f.whole => c.fresh /\ f.mcu = c.n + 1
        <5>1. ASSUME f.whole  PROVE last.fresh /\ e.mcu = last.n + 1
          BY <1>2, <2>2, <5>1, Zenon
        <5>2. ASSUME f.whole  PROVE c.fresh
          BY <2>3, <5>1, <5>2, Zenon
        <5>3. ASSUME f.whole  PROVE f.mcu = c.n + 1
          BY <1>1, <2>1, <2>3, <3>1, <5>1, <5>3
        <5>. QED  BY <5>2, <5>3
      <4>3. f.marked => c.segment = f.segment
        BY <1>2, <2>2, <2>3, <3>1, Zenon
      <4>4. /\ f.next = c.segment + 1 /\ c.segment <= Segments - 1 /\ c.segment <= f.segment
            /\ f.segment <= c.segment + f.burst
        BY <1>2, <2>2, <2>3, <3>1
      <4>. QED  BY <1>1, <1>2, <2>1, <2>3, <3>1, <4>1, <4>2, <4>3, <4>4 DEF Sends
    <3>2. CASE f.segment = e.segment + 1 /\ f.mcu = 0
      <4>1. /\ f.next = c.segment + 1 /\ c.segment <= Segments - 1 /\ c.segment <= f.segment
            /\ f.segment <= c.segment + f.burst + 1 /\ c.segment <= f.segment - 1
        BY <1>1, <1>2, <2>1, <2>2, <2>3, <3>2, SMTT(30)
      <4>. QED  BY <3>2, <4>1 DEF Sends
    <3>. QED  BY <1>2, <3>1, <3>2
  <2>7. f.burst <= 2
    BY <1>2, <1>6
  <2>. QED  BY <2>3, <2>5, <2>6, <2>7
<1>7. Moves(e, s, f, t)
  BY <1>6 DEF Moves
<1>8. s.history.long => t.history.long
  OBVIOUS
<1>. QED  BY <1>2, <1>5, <1>7, <1>8, SenderKeeps, Zenon

(* Data is lost: what comes of the segment after it is not whole.            *)
LEMMA DataLost ==
  ASSUME NEW e, NEW s, Holds(e, s), e.mcu > 0, e.segment < Segments,
         NEW f, f = [NextToSend(e) EXCEPT !.whole = FALSE]
  PROVE  Holds(f, s)
<1>1. /\ e \in Senders /\ SenderOK(e) /\ s \in Calls /\ ~s.suspended
      /\ e.segment \in Nat /\ e.mcu \in 0 .. Interval /\ e.next \in Nat /\ e.burst \in Nat
      /\ e.marked \in BOOLEAN /\ e.whole \in BOOLEAN
      /\ Straight(s, NextPos(e)) /\ NextPos(e) \in Int
      /\ Segments \in Nat \ {0} /\ Interval \in Nat \ {0}
  BY HoldsFacts
<1>. DEFINE g == NextToSend(e)
<1>2. /\ SenderOK(g) /\ NextPos(g) = NextPos(e) + 1
      /\ g.next = e.next /\ g.burst = e.burst /\ g.marked = e.marked
      /\ \/ g.segment = e.segment /\ g.mcu = e.mcu + 1
         \/ e.mcu = Interval /\ g.segment = e.segment + 1 /\ g.mcu = 0
  BY <1>1, NextFacts
<1>3. /\ SenderOK(f) /\ NextPos(f) = NextPos(e) + 1
      /\ f.next = e.next /\ f.burst = e.burst /\ f.marked = e.marked /\ ~f.whole
      /\ \/ f.segment = e.segment /\ f.mcu = e.mcu + 1
         \/ e.mcu = Interval /\ f.segment = e.segment + 1 /\ f.mcu = 0
  <2>1. f = [g EXCEPT !.whole = FALSE]
    OBVIOUS
  <2>. HIDE DEF g
  <2>2. /\ SenderOK(f) /\ f.segment = g.segment /\ f.mcu = g.mcu
        /\ f.marked = g.marked /\ ~f.whole /\ f.next = g.next /\ f.burst = g.burst
        /\ NextPos(f) = NextPos(g)
    BY <1>2, <2>1 DEF SenderOK, Senders, NextPos
  <2>. QED  BY <1>2, <2>2
<1>4. Straight(s, NextPos(f))
  <2>1. PICK h \in Int, n \in Int : h = NextPos(e) /\ n = NextPos(f) /\ Straight(s, h) /\ h <= n
    BY <1>1, <1>3
  <2>2. Straight(s, n)
    BY <1>1, <2>1, SameStraight
  <2>. QED  BY <2>1, <2>2
<1>5. ASSUME NEW D \in Nat, NEW last \in Places, e.burst <= 2,
             Sends(e, s.history.repeated, last)
      PROVE  f.burst <= 2 /\ Sends(f, s.history.repeated, last)
  <2>1. last.segment \in Nat
    BY DEF Places
  <2>2. /\ e.next = last.segment + 1 /\ last.segment <= e.segment
        /\ last.segment <= Segments - 1
        /\ e.segment <= last.segment + e.burst
        /\ e.marked => last.segment = e.segment
    <3>1. e.mcu # 0 /\ e.segment <= Segments
      BY <1>1
    <3>2. /\ e.next = last.segment + 1 /\ last.segment <= e.segment
          /\ last.segment <= Segments - 1
          /\ e.segment <= last.segment + e.burst + 0
      BY <1>5, <3>1 DEF Sends
    <3>3. e.marked => last.segment = e.segment
      BY <1>5, <3>1, Zenon DEF Sends
    <3>. QED  BY <1>1, <2>1, <3>2, <3>3
  <2>3. CASE f.segment = e.segment /\ f.mcu = e.mcu + 1
    <3>1. f.marked => last.segment = f.segment
      BY <1>3, <2>2, <2>3, Zenon
    <3>2. f.mcu # 0
      BY <1>1, <2>3
    <3>. QED  BY <1>1, <1>3, <1>5, <2>1, <2>2, <2>3, <3>1, <3>2 DEF Sends
  <2>4. CASE f.segment = e.segment + 1 /\ f.mcu = 0
    <3>1. /\ f.next = last.segment + 1 /\ last.segment <= f.segment
          /\ f.segment <= last.segment + f.burst + 1 /\ last.segment <= f.segment - 1
      BY <1>1, <1>3, <2>1, <2>2, <2>4
    <3>. QED  BY <1>3, <1>5, <2>2, <2>4, <3>1 DEF Sends
  <2>. QED  BY <1>3, <2>3, <2>4
<1>6. Moves(e, s, f, s)
  BY <1>5 DEF Moves
<1>. QED  BY <1>1, <1>3, <1>4, <1>6, SenderKeeps, Zenon

(* A segment comes again: the order is given up, and the marker before it is *)
(* behind the place.                                                         *)
LEMMA SegmentRepeats ==
  ASSUME NEW e, NEW s, Holds(e, s), e.mcu = 0, e.segment \in 2 .. Segments,
         ~s.history.repeated,
         NEW t \in Calls, ~t.suspended, t.dec = s.dec, t.wire = s.wire,
         t.history.repeated, t.history.long = s.history.long,
         t.history.wasted = s.history.wasted, t.history.shown = s.history.shown,
         NEW f, f = [e EXCEPT !.segment = @ - 1]
  PROVE  Holds(f, t)
<1>1. /\ e \in Senders /\ SenderOK(e) /\ s \in Calls /\ ~s.suspended
      /\ e.segment \in Nat /\ e.mcu \in 0 .. Interval /\ e.next \in Nat /\ e.burst \in Nat
      /\ Segments \in Nat \ {0} /\ Interval \in Nat \ {0}
  BY HoldsFacts
<1>2. /\ SenderOK(f) /\ f.segment = e.segment - 1 /\ f.mcu = 0
      /\ f.next = e.next /\ f.burst = e.burst
  <2>1. PICK n \in Nat : n = e.segment - 1
    BY <1>1
  <2>2. f = [e EXCEPT !.segment = n]
    BY <2>1
  <2>. QED  BY <1>1, <2>1, <2>2 DEF SenderOK, Senders
<1>3. Straight(t, NextPos(f))
  BY DEF Straight
<1>4. ASSUME NEW D \in Nat, NEW last \in Places, e.burst <= 2, Contained(s, D, last),
             Sends(e, s.history.repeated, last)
      PROVE  f.burst <= 2 /\ Contained(t, D, last) /\ Sends(f, t.history.repeated, last)
  <2>1. last.segment \in Nat
    BY DEF Places
  <2>2. /\ e.next = last.segment + 1 /\ last.segment <= Segments - 1
        /\ e.segment <= last.segment + e.burst + 1 /\ last.segment <= e.segment - 1
    BY <1>1, <1>4 DEF Sends
  <2>3. Contained(t, D, last)
    BY <1>1, <1>4, SameContains
  <2>4. /\ f.next = last.segment + 1 /\ last.segment <= f.segment
        /\ f.segment <= last.segment + f.burst + 1
    BY <1>1, <1>2, <2>1, <2>2
  <2>5. Sends(f, t.history.repeated, last)
    BY <1>2, <2>2, <2>4 DEF Sends
  <2>. QED  BY <1>2, <1>4, <2>3, <2>5
<1>5. Moves(e, s, f, t)
  BY <1>4 DEF Moves
<1>6. s.history.long => t.history.long
  OBVIOUS
<1>. QED  BY <1>2, <1>3, <1>5, <1>6, SenderKeeps, Zenon

(* EOI is sent: the scan is at its end.                                      *)
LEMMA EndSent ==
  ASSUME NEW e, NEW s, Holds(e, s), e.mcu = 0, e.segment = Segments,
         NEW t \in Calls, ~t.suspended, t.dec = s.dec, t.history = s.history,
         t.wire = Append(s.wire, Marker(EOI)),
         NEW f, f = [e EXCEPT !.segment = @ + 1]
  PROVE  Holds(f, t)
<1>1. /\ e \in Senders /\ SenderOK(e) /\ s \in Calls /\ ~s.suspended
      /\ e.segment \in Nat /\ e.mcu \in 0 .. Interval /\ e.next \in Nat /\ e.burst \in Nat
      /\ Straight(s, NextPos(e)) /\ NextPos(e) \in Int
      /\ Segments \in Nat \ {0} /\ Interval \in Nat \ {0}
  BY HoldsFacts
<1>. DEFINE token == Marker(EOI)
            c == [segment |-> Segments, fresh |-> TRUE, n |-> 0]
<1>2. SenderOK(f) /\ f.segment = Segments + 1 /\ f.mcu = 0 /\ f.burst = e.burst
  <2>1. PICK n \in Nat : n = e.segment + 1
    BY <1>1
  <2>2. f = [e EXCEPT !.segment = n]
    BY <2>1
  <2>. QED  BY <1>1, <2>1, <2>2 DEF SenderOK, Senders
<1>3. NextPos(e) <= NextPos(f) /\ NextPos(f) \in Int
  <2>1. NextPos(f) \in Int
    BY <1>2, NextPosIsNat DEF SenderOK
  <2>2. NextPos(e) = Segments * Interval + 1 /\ NextPos(f) = (Segments + 1) * Interval + 1
    BY <1>2 DEF NextPos
  <2>3. (Segments + 1) * Interval = Segments * Interval + 1 * Interval
    BY <1>1, SumTimes
  <2>4. PICK x \in Int : x = Segments * Interval
    BY <1>1
  <2>. QED  BY <1>1, <2>1, <2>2, <2>3, <2>4
<1>4. token \in Tokens /\ token.marker /\ token.number = EOI
  BY DEF Marker, Tokens, MarkerTokens
<1>5. c \in Places /\ c.segment = Segments /\ c.fresh /\ c.n = 0
  BY <1>1 DEF Places
<1>. HIDE DEF token, c
<1>6. Straight(t, NextPos(f))
  <2>1. PICK h \in Int, n \in Int : h = NextPos(e) /\ n = NextPos(f) /\ Straight(s, h) /\ h <= n
    BY <1>1, <1>3
  <2>2. t.wire = Append(s.wire, token)
    BY DEF token
  <2>3. Straight(t, n)
    BY <1>1, <1>4, <2>1, <2>2, AppendStraight
  <2>. QED  BY <2>1, <2>3
<1>7. ASSUME NEW D \in Nat, NEW last \in Places, e.burst <= 2, Contained(s, D, last),
             Sends(e, s.history.repeated, last)
      PROVE  f.burst <= 2 /\ Contained(t, D, c) /\ Sends(f, t.history.repeated, c)
  <2>1. last.segment \in Nat
    BY DEF Places
  <2>2. last.segment <= Segments - 1 /\ Segments <= last.segment + e.burst + 1
    BY <1>1, <1>7 DEF Sends
  <2>3. FollowsMarker(last, token, c)
    <3>1. c.segment \in 1 .. Segments /\ token.number = NumberOf(c.segment)
      BY <1>1, <1>4, <1>5 DEF NumberOf
    <3>2. c.segment \in last.segment .. last.segment + 3 /\ c.segment > last.segment
      BY <1>1, <1>5, <1>7, <2>1, <2>2
    <3>. QED  BY <1>4, <1>5, <3>1, <3>2 DEF FollowsMarker
  <2>4. Contained(t, D, c)
    <3>1. t.wire = Append(s.wire, token) /\ Follows(last, token, c)
      BY <2>3 DEF token, Follows
    <3>. QED  BY <1>1, <1>4, <1>5, <1>7, <3>1, AppendContains
  <2>5. Sends(f, t.history.repeated, c)
    BY <1>1, <1>2 DEF Sends
  <2>. QED  BY <1>2, <1>7, <2>4, <2>5
<1>8. Moves(e, s, f, t)
  BY <1>5, <1>7 DEF Moves
<1>9. s.history.long => t.history.long
  OBVIOUS
<1>. QED  BY <1>2, <1>6, <1>8, <1>9, SenderKeeps, Zenon

(* A call of the decoder.                                                    *)
LEMMA CallHolds ==
  ASSUME NEW e, NEW s, Holds(e, s), s.dec.at < Segments * Interval,
         NEW byte \in BOOLEAN, NEW ahead \in 0 .. MaxAhead,
         NEW r, r = Call(s, ahead, byte),
         NEW t \in Calls, ~t.suspended, t.dec = r.dec, t.wire = r.wire, t.history = r.history
  PROVE  Holds(e, t)
<1>1. /\ SenderOK(e) /\ s \in Calls /\ ~s.suspended /\ NextPos(e) \in Int
      /\ Straight(s, NextPos(e))
  BY HoldsFacts
<1>2. Grounded(s)
  BY DEF Holds, CallOK
<1>3. PICK D \in Nat : Kept(e, s, D)
  BY DEF Holds
<1>4. /\ InSegment(s, D) /\ s.dec.expects = D % Numbers
      /\ ~s.history.long =>
           /\ e.burst <= 2
           /\ \E last \in Places : Contained(s, D, last) /\ Sends(e, s.history.repeated, last)
  BY <1>3 DEF Kept
<1>5. /\ r \in Calls /\ Grounded(r) /\ r.dec.at <= Segments * Interval
      /\ r.history.long = s.history.long /\ r.history.repeated = s.history.repeated
      /\ \E E \in Nat :
           /\ InSegment(r, E) /\ r.dec.expects = E % Numbers
           /\ \A last \in Places : Contained(s, D, last) => Contained(r, E, last)
  BY <1>1, <1>2, <1>4, CallContains
<1>6. PICK E \in Nat : /\ InSegment(r, E) /\ r.dec.expects = E % Numbers
                       /\ \A last \in Places : Contained(s, D, last) => Contained(r, E, last)
  BY <1>5
<1>7. Straight(t, NextPos(e))
  <2>1. PICK h \in Int : h = NextPos(e) /\ Straight(s, h) /\ h <= h
    BY <1>1
  <2>2. Straight(r, h)
    BY <1>1, <1>2, <2>1, CallStraight
  <2>3. Straight(t, h)
    BY <1>5, <2>1, <2>2, SameStraight
  <2>. QED  BY <2>1, <2>3
<1>8. Kept(e, t, E)
  <2>1. InSegment(t, E) /\ t.dec.expects = E % Numbers
    BY <1>6 DEF InSegment
  <2>2. ASSUME ~t.history.long
        PROVE  /\ e.burst <= 2
               /\ \E last \in Places : Contained(t, E, last) /\ Sends(e, t.history.repeated, last)
    <3>1. ~s.history.long
      BY <1>5, <2>2, Zenon
    <3>2. PICK last \in Places : Contained(s, D, last) /\ Sends(e, s.history.repeated, last)
      BY <1>4, <3>1
    <3>3. Contained(t, E, last)
      BY <1>5, <1>6, <3>2, SameContains
    <3>4. Sends(e, t.history.repeated, last)
      BY <1>5, <3>2, Zenon
    <3>. QED  BY <1>4, <3>1, <3>3, <3>4
  <2>. QED  BY <2>1, <2>2 DEF Kept
<1>9. CallOK(t)
  BY <1>5 DEF CallOK, Grounded
<1>. QED  BY <1>1, <1>7, <1>8, <1>9 DEF Holds

-----------------------------------------------------------------------------
(* The scan. *)

Now == [dec |-> dec, wire |-> wire, history |-> history, suspended |-> FALSE]

(* The inductive invariant.                                                  *)
RestartInv == Holds(enc, Now)

(* The types of what is between calls.                                       *)
LEMMA NowFacts ==
  ASSUME RestartInv
  PROVE  /\ dec \in Decoders /\ wire \in Seq(Tokens) /\ history \in Histories
         /\ enc \in Senders /\ Now \in Calls /\ ~Now.suspended
         /\ Now.dec = dec /\ Now.wire = wire /\ Now.history = history
<1>1. enc \in Senders /\ Now \in Calls /\ ~Now.suspended
  BY HoldsFacts DEF RestartInv
<1>2. Now.dec = dec /\ Now.wire = wire /\ Now.history = history
  BY DEF Now
<1>3. dec \in Decoders /\ wire \in Seq(Tokens) /\ history \in Histories
  BY <1>1, <1>2 DEF Calls
<1>. QED  BY <1>1, <1>2, <1>3

(* A state of these types is one between calls.                              *)
LEMMA NewNow ==
  ASSUME dec' \in Decoders, wire' \in Seq(Tokens), history' \in Histories
  PROVE  /\ Now' \in Calls /\ ~(Now').suspended
         /\ (Now').dec = dec' /\ (Now').wire = wire' /\ (Now').history = history'
BY DEF Now, Calls

(* Before anything is sent.                                                  *)
LEMMA InitHolds == RestartInit => RestartInv
<1>. SUFFICES ASSUME RestartInit  PROVE Holds(enc, Now)
  BY DEF RestartInv
<1>1. /\ Segments \in Nat \ {0} /\ Interval \in Nat \ {0} /\ Numbers \in Nat \ {0}
      /\ Segments * Interval \in Nat \ {0}
  <2>1. Segments \in Nat \ {0} /\ Interval \in Nat \ {0} /\ Numbers \in Nat \ {0}
    BY RestartAssumption
  <2>2. PICK n \in Nat : Segments = n + 1
    <3>1. Segments - 1 \in Nat /\ Segments = (Segments - 1) + 1
      BY <2>1
    <3>. QED  BY <3>1
  <2>3. (n + 1) * Interval = n * Interval + 1 * Interval /\ n * Interval \in Nat
    BY <2>1, SumTimes, ProductIsNat
  <2>. QED  BY <2>1, <2>2, <2>3
<1>2. /\ enc.segment = 0 /\ enc.mcu = 1 /\ enc.next = 1 /\ enc.marked /\ enc.whole
      /\ enc.burst = 0
  BY DEF RestartInit
<1>3. SenderOK(enc)
  <2>1. enc \in Senders
    BY <1>1 DEF RestartInit, Senders
  <2>. QED  BY <1>1, <1>2, <2>1 DEF SenderOK
<1>4. /\ dec.unread = None /\ dec.expects = 0 /\ dec.togo = Interval /\ ~dec.insufficient
      /\ dec.bits = <<>> /\ ~dec.discarded /\ dec.at = 0 /\ ~dec.warned
      /\ ~history.long /\ ~history.repeated /\ ~history.wasted /\ ~history.damaged
      /\ history.shown = <<>> /\ wire = <<>>
  BY DEF RestartInit
<1>5. /\ Now \in Calls /\ ~Now.suspended
      /\ Now.dec = dec /\ Now.wire = wire /\ Now.history = history
  <2>1. <<>> \in Seq(DataTokens) /\ <<>> \in Seq(Tokens)
    OBVIOUS
  <2>2. dec \in Decoders
    BY <1>1, <2>1 DEF RestartInit, Decoders
  <2>3. history \in Histories
    BY <2>1 DEF RestartInit, Histories
  <2>4. wire \in Seq(Tokens)
    BY <2>1 DEF RestartInit
  <2>. QED  BY <2>2, <2>3, <2>4 DEF Now, Calls
<1>6. CallOK(Now)
  BY <1>1, <1>4, <1>5 DEF CallOK, Grounded
<1>7. Straight(Now, NextPos(enc))
  <2>1. ShownAt(Now) = 0
    BY <1>4, <1>5 DEF ShownAt
  <2>2. NextPos(enc) = 0 * Interval + 1 /\ 0 * Interval = 0
    BY <1>1, <1>2 DEF NextPos
  <2>3. Now.dec.bits \o Now.wire = <<>> /\ Len(<<>>) = 0
    BY <1>4, <1>5
  <2>4. Ordered(Now.dec.bits \o Now.wire, ShownAt(Now), NextPos(enc))
    <3>1. \A i \in 1 .. Len(<<>>) : FALSE
      BY <2>3
    <3>2. Ordered(<<>>, ShownAt(Now), NextPos(enc))
      BY <3>1 DEF Ordered
    <3>. QED  BY <2>3, <3>2
  <2>. QED  BY <1>4, <1>5, <2>1, <2>2, <2>4 DEF Straight
<1>8. Kept(enc, Now, 0)
  <2>. DEFINE last == [segment |-> 0, fresh |-> TRUE, n |-> 0]
  <2>1. last \in Places /\ last.segment = 0 /\ last.fresh /\ last.n = 0
    BY DEF Places
  <2>. HIDE DEF last
  <2>2. InSegment(Now, 0)
    <3>1. (0 + 1) * Interval = Interval
      BY <1>1
    <3>. QED  BY <1>1, <1>4, <1>5, <3>1 DEF InSegment
  <2>3. 0 % Numbers = 0
    <3>1. 0 \in 0 .. Numbers - 1 /\ 0 * Numbers + 0 = 0 /\ 0 \in Int
      BY <1>1
    <3>2. /\ 0 \div Numbers \in Int /\ 0 % Numbers \in 0 .. Numbers - 1
          /\ 0 = (0 \div Numbers) * Numbers + (0 % Numbers)
      BY <1>1, Quotient
    <3>3. PICK q \in Int, r \in 0 .. Numbers - 1 : q * Numbers + r = 0 /\ r = 0 % Numbers
      BY <3>2
    <3>4. PICK z \in 0 .. Numbers - 1, y \in Int : z = 0 /\ y = 0 /\ y * Numbers + z = 0
      BY <3>1
    <3>5. q * Numbers + r = y * Numbers + z
      BY <3>3, <3>4
    <3>6. r = z
      BY <1>1, <3>5, OneQuotient
    <3>. QED  BY <3>3, <3>4, <3>6
  <2>4. Contained(Now, 0, last)
    <3>1. Carries(Now.wire, last, last)
      BY <1>4, <1>5, <2>1, CarriesNothing
    <3>2. AtData(Now, last, 0)
      <4>1. Len(<<>>) = 0
        OBVIOUS
      <4>. QED  BY <1>1, <1>4, <1>5, <2>1, <4>1 DEF AtData
    <3>3. Placed(Now, 0, last)
      BY <2>1, <3>1, <3>2 DEF Placed, At
    <3>4. BitsFit(Now, 0)
      BY <1>4, <1>5 DEF BitsFit
    <3>. QED  BY <1>4, <1>5, <3>3, <3>4 DEF Contained, ShownFits
  <2>5. Sends(enc, Now.history.repeated, last)
    BY <1>1, <1>2, <2>1 DEF Sends
  <2>6. enc.burst <= 2
    BY <1>2
  <2>. QED  BY <1>4, <1>5, <2>1, <2>2, <2>3, <2>4, <2>5, <2>6 DEF Kept
<1>. QED  BY <1>3, <1>6, <1>7, <1>8 DEF Holds

(* A step.                                                                   *)
LEMMA StepHolds == RestartInv /\ [RestartNext]_evars => RestartInv'
<1>. SUFFICES ASSUME RestartInv, [RestartNext]_evars
              PROVE  Holds(enc', Now')
  BY DEF RestartInv
<1>1. /\ dec \in Decoders /\ wire \in Seq(Tokens) /\ history \in Histories
      /\ enc \in Senders /\ Now \in Calls /\ ~Now.suspended
      /\ Now.dec = dec /\ Now.wire = wire /\ Now.history = history
  BY NowFacts
<1>2. Holds(enc, Now)
  BY DEF RestartInv
<1>3. /\ Segments \in Nat \ {0} /\ Interval \in Nat \ {0} /\ enc.segment \in Nat
      /\ enc.mcu \in 0 .. Interval /\ enc.burst \in Nat
      /\ enc.marked \in BOOLEAN /\ enc.whole \in BOOLEAN
  BY <1>2, HoldsFacts
<1>4. /\ Marker(Bogus) \in Tokens /\ Marker(EOI) \in Tokens
      /\ \A number \in 0 .. Numbers - 1 : Marker(number) \in Tokens
  BY DEF Marker, Tokens, MarkerTokens
<1>5. CASE SendMarker
  <2>1. /\ enc.mcu = 0 /\ enc.segment \in 1 .. Segments - 1 /\ dec' = dec
    BY <1>5 DEF SendMarker
  <2>2. CASE /\ wire' = Append(wire, Marker(NumberBefore(enc.segment)))
             /\ enc' = [NextToSend(enc)
                          EXCEPT !.marked = TRUE, !.whole = enc.segment >= enc.next,
                                 !.next = enc.segment + 1, !.burst = 0]
             /\ history' = history
    <3>1. Marker(NumberBefore(enc.segment)) \in Tokens
      <4>1. PICK z \in Int : z = enc.segment - 1
        BY <1>3
      <4>2. Numbers \in Nat \ {0}
        BY RestartAssumption
      <4>3. z % Numbers \in 0 .. Numbers - 1
        BY <4>2, Quotient
      <4>. QED  BY <1>4, <4>1, <4>3 DEF NumberBefore
    <3>2. wire' \in Seq(Tokens)
      BY <1>1, <2>2, <3>1
    <3>3. /\ Now' \in Calls /\ ~(Now').suspended
          /\ (Now').dec = dec' /\ (Now').wire = wire' /\ (Now').history = history'
      BY <1>1, <2>1, <2>2, <3>2, NewNow
    <3>. QED  BY <1>1, <1>2, <2>1, <2>2, <3>3, MarkerSent
  <2>3. CASE /\ wire' = wire \/ wire' = Append(wire, Marker(Bogus))
             /\ enc' = [NextToSend(enc)
                          EXCEPT !.marked = FALSE, !.whole = FALSE, !.burst = @ + 1]
             /\ history' = [history EXCEPT !.long = @ \/ enc.burst >= 2]
    <3>1. wire' \in Seq(Tokens)
      BY <1>1, <1>4, <2>3
    <3>2. /\ history' \in Histories
          /\ (history').repeated = history.repeated /\ (history').damaged = history.damaged
          /\ (history').shown = history.shown /\ (history').wasted = history.wasted
          /\ (history').long = (history.long \/ enc.burst >= 2)
      <4>. DEFINE long == history.long \/ enc.burst >= 2
      <4>1. long \in BOOLEAN /\ history' = [history EXCEPT !.long = long]
        BY <2>3
      <4>. HIDE DEF long
      <4>2. /\ history' \in Histories
            /\ (history').repeated = history.repeated /\ (history').damaged = history.damaged
            /\ (history').shown = history.shown /\ (history').wasted = history.wasted
            /\ (history').long = long
        BY <1>1, <4>1 DEF Histories
      <4>. QED  BY <4>2 DEF long
    <3>3. /\ Now' \in Calls /\ ~(Now').suspended
          /\ (Now').dec = dec' /\ (Now').wire = wire' /\ (Now').history = history'
      BY <1>1, <2>1, <3>1, <3>2, NewNow
    <3>4. /\ (Now').wire = Now.wire \/ (Now').wire = Append(Now.wire, Marker(Bogus))
          /\ (Now').dec = Now.dec
      BY <1>1, <2>1, <2>3, <3>3
    <3>5. /\ (Now').history.repeated = Now.history.repeated
          /\ (Now').history.damaged = Now.history.damaged
          /\ (Now').history.shown = Now.history.shown
          /\ (Now').history.wasted = Now.history.wasted
      BY <1>1, <3>2, <3>3
    <3>6. (Now').history.long = (Now.history.long \/ enc.burst >= 2)
      BY <1>1, <3>2, <3>3, Zenon
    <3>. QED  BY <1>2, <2>1, <2>3, <3>3, <3>4, <3>5, <3>6, MarkerMissing, Zenon
  <2>. QED  BY <1>5, <2>2, <2>3 DEF SendMarker
<1>6. CASE SendData
  <2>1. enc.mcu > 0 /\ enc.segment < Segments /\ dec' = dec /\ history' = history
    BY <1>6 DEF SendData
  <2>2. CASE /\ wire' = Append(wire, Data(enc.segment, enc.mcu, enc.marked, enc.whole))
             /\ enc' = NextToSend(enc)
    <3>1. Data(enc.segment, enc.mcu, enc.marked, enc.whole) \in Tokens
      <4>1. enc.segment \in 0 .. Segments - 1 /\ enc.mcu \in 1 .. Interval
        BY <1>3, <2>1
      <4>. QED  BY <1>3, <4>1 DEF Data, Tokens, DataTokens
    <3>2. wire' \in Seq(Tokens)
      BY <1>1, <2>2, <3>1
    <3>3. /\ Now' \in Calls /\ ~(Now').suspended
          /\ (Now').dec = dec' /\ (Now').wire = wire' /\ (Now').history = history'
      BY <1>1, <2>1, <3>2, NewNow
    <3>. QED  BY <1>1, <1>2, <2>1, <2>2, <3>3, DataSent
  <2>3. CASE enc' = [NextToSend(enc) EXCEPT !.whole = FALSE] /\ wire' = wire
    <3>1. Now' = Now
      BY <2>1, <2>3 DEF Now
    <3>. QED  BY <1>2, <2>1, <2>3, <3>1, DataLost
  <2>. QED  BY <1>6, <2>2, <2>3 DEF SendData
<1>7. CASE Repeat
  <2>1. /\ ~history.repeated /\ enc.mcu = 0 /\ enc.segment \in 2..Segments
        /\ enc' = [enc EXCEPT !.segment = @ - 1]
        /\ history' = [history EXCEPT !.repeated = TRUE]
        /\ wire' = wire /\ dec' = dec
    BY <1>7 DEF Repeat
  <2>2. /\ history' \in Histories /\ (history').repeated
        /\ (history').shown = history.shown /\ (history').wasted = history.wasted
        /\ (history').long = history.long
    BY <1>1, <2>1 DEF Histories
  <2>3. /\ Now' \in Calls /\ ~(Now').suspended
        /\ (Now').dec = dec' /\ (Now').wire = wire' /\ (Now').history = history'
    BY <1>1, <2>1, <2>2, NewNow
  <2>4. PICK e, s, t, f : e = enc /\ s = Now /\ t = Now' /\ f = enc'
    OBVIOUS
  <2>5. Holds(e, s) /\ s.dec = dec /\ s.wire = wire /\ s.history = history
    BY <1>1, <1>2, <2>4
  <2>6. /\ e.mcu = 0 /\ e.segment \in 2 .. Segments /\ f = [e EXCEPT !.segment = @ - 1]
        /\ ~s.history.repeated
    BY <2>1, <2>4, <2>5
  <2>7. /\ t \in Calls /\ ~t.suspended /\ t.dec = s.dec /\ t.wire = s.wire
        /\ t.history.repeated /\ t.history.long = s.history.long
        /\ t.history.wasted = s.history.wasted /\ t.history.shown = s.history.shown
    BY <2>1, <2>2, <2>3, <2>4, <2>5
  <2>8. Holds(f, t)
    BY <2>5, <2>6, <2>7, SegmentRepeats
  <2>. QED  BY <2>4, <2>8
<1>8. CASE SendEOI
  <2>1. /\ enc.mcu = 0 /\ enc.segment = Segments /\ wire' = Append(wire, Marker(EOI))
        /\ enc' = [enc EXCEPT !.segment = @ + 1] /\ dec' = dec /\ history' = history
    BY <1>8 DEF SendEOI
  <2>2. wire' \in Seq(Tokens)
    BY <1>1, <1>4, <2>1
  <2>3. /\ Now' \in Calls /\ ~(Now').suspended
        /\ (Now').dec = dec' /\ (Now').wire = wire' /\ (Now').history = history'
    BY <1>1, <2>1, <2>2, NewNow
  <2>. QED  BY <1>1, <1>2, <2>1, <2>3, EndSent
<1>9. CASE DecodeEntropy
  <2>1. dec.at < Segments * Interval /\ enc' = enc
    BY <1>9 DEF DecodeEntropy
  <2>2. PICK ahead \in 0..MaxAhead, byte \in BOOLEAN :
          LET t == DecodeBlocks(IF Now.dec.togo = 0 THEN ProcessRestart(Now, byte) ELSE Now, ahead)
          IN dec' = t.dec /\ wire' = t.wire /\ history' = t.history
    BY <1>1, <1>9 DEF DecodeEntropy, Now
  <2>. DEFINE r == Call(Now, ahead, byte)
  <2>3. dec' = r.dec /\ wire' = r.wire /\ history' = r.history
    BY <2>2 DEF Call
  <2>4. r \in Calls
    <3>1. Grounded(Now) /\ \E D \in Nat : InSegment(Now, D) /\ Now.dec.expects = D % Numbers
      BY <1>2 DEF Holds, CallOK, Kept
    <3>. QED  BY <1>1, <2>1, <3>1, CallContains
  <2>. HIDE DEF r
  <2>5. dec' \in Decoders /\ wire' \in Seq(Tokens) /\ history' \in Histories
    BY <2>3, <2>4 DEF Calls
  <2>6. /\ Now' \in Calls /\ ~(Now').suspended
        /\ (Now').dec = dec' /\ (Now').wire = wire' /\ (Now').history = history'
    BY <2>5, NewNow
  <2>7. Holds(enc, Now')
    BY <1>1, <1>2, <2>1, <2>3, <2>6, CallHolds DEF r
  <2>. QED  BY <2>1, <2>7
<1>10. CASE UNCHANGED evars
  <2>1. enc' = enc /\ Now' = Now
    BY <1>10 DEF evars, Now
  <2>. QED  BY <1>2, <2>1
<1>. QED  BY <1>5, <1>6, <1>7, <1>8, <1>9, <1>10 DEF RestartNext

(* What holds between calls contains the damage.                             *)
LEMMA HoldsContains == RestartInv => LossIsContained
<1>. SUFFICES ASSUME RestartInv  PROVE LossIsContained
  OBVIOUS
<1>1. /\ Now \in Calls /\ Now.dec = dec /\ Now.wire = wire /\ Now.history = history
      /\ dec \in Decoders
  BY NowFacts
<1>2. Straight(Now, NextPos(enc)) /\ \E D \in Nat : Kept(enc, Now, D)
  BY DEF RestartInv, Holds
<1>3. DamageStays
  <2>1. ASSUME ~history.long
        PROVE  ~Now.history.wasted /\ ShownFits(Now)
    BY <1>1, <1>2, <2>1 DEF Kept, Contained
  <2>. QED  BY <1>1, <2>1 DEF DamageStays, ShownFits, ShownIn
<1>4. DamageIsWarned
  <2>. SUFFICES ASSUME dec.at = Segments * Interval, history.damaged, ~history.repeated,
                       ~dec.warned
                PROVE  FALSE
    BY DEF DamageIsWarned
  <2>1. dec.at < ShownAt(Now)
    BY <1>1, <1>2 DEF Straight
  <2>2. ShownAt(Now) \in Nat /\ ShownAt(Now) <= Segments * Interval
    BY <1>1, ShownAtFacts
  <2>3. dec.at \in Nat
    BY <1>1 DEF Decoders
  <2>. QED  BY <2>1, <2>2, <2>3
<1>. QED  BY <1>3, <1>4 DEF LossIsContained

(* In every scan, however it is cut into segments, and whatever is lost on    *)
(* the way: the decoder (jdhuff.c, jdmarker.c) shows what came with its       *)
(* marker in its own interval only and whole segments whole, unless more      *)
(* than two markers in a row are missing, and a picture that is not the one   *)
(* sent has been warned of.                                                   *)
THEOREM LossContained == RestartSpec => []LossIsContained
<1>1. RestartInit => RestartInv
  BY InitHolds
<1>2. RestartInv /\ [RestartNext]_evars => RestartInv'
  BY StepHolds
<1>3. RestartInv => LossIsContained
  BY HoldsContains
<1>. QED  BY <1>1, <1>2, <1>3, PTL DEF RestartSpec

=============================================================================
