-------------------------- MODULE JpegPictures_proofs --------------------------
(***************************************************************************)
(* Theorems of JpegRows and of JpegTransform, the two ways the library      *)
(* moves a whole picture.  First the rows, without context rows and with    *)
(* them: whatever the height, the size of the iMCU rows and the calls of    *)
(* the client, they arrive as RowReader promises.  Then the index           *)
(* arithmetic of the transforms, for every size of picture and of DCT       *)
(* block, every sampling, every crop and every sequence of outputs.         *)
(***************************************************************************)
EXTENDS JpegRows, JpegTransform, SequenceTheorems, WellFoundedInduction, TLAPS

-----------------------------------------------------------------------------
(* Multiples of the lines of an iMCU row. *)

(* A product of two numbers. *)
LEMMA ProductIsNat ==
  ASSUME NEW a \in Nat, NEW b \in Nat
  PROVE  a * b \in Nat
OBVIOUS

(* A factor is drawn into a sum. *)
LEMMA SumTimes ==
  ASSUME NEW a \in Int, NEW b \in Int, NEW c \in Int
  PROVE  (a + b) * c = a * c + b * c
OBVIOUS

(* A common factor is cancelled. *)
LEMMA CancelFactor ==
  ASSUME NEW a \in Int, NEW b \in Int, NEW c \in Nat \ {0}, a * c < b * c
  PROVE  a < b
OBVIOUS

(* What truncating division does. *)
LEMMA Quotient ==
  ASSUME NEW a \in Nat, NEW b \in Nat \ {0}
  PROVE  /\ a \div b \in Nat /\ a % b \in Nat
         /\ (a \div b) * b <= a /\ a < (a \div b) * b + b
         /\ a % b = a - (a \div b) * b /\ a % b < b
OBVIOUS

(* A number and its half. *)
LEMMA Halved ==
  ASSUME NEW n \in Nat
  PROVE  n = 2 * (n \div 2) + (n % 2) /\ n % 2 \in 0..1 /\ n \div 2 \in Nat
<1>1. PICK b \in Nat \ {0} : b = 2
  OBVIOUS
<1>2. PICK q \in Nat, r \in Nat : q = n \div b /\ r = n % b
  BY Quotient
<1>3. q * b <= n /\ n < q * b + b /\ r = n - q * b /\ r < b
  BY <1>2, Quotient
<1>4. n = 2 * q + r /\ r \in 0..1
  BY <1>1, <1>3
<1>5. n \div 2 = q /\ n % 2 = r
  BY <1>1, <1>2
<1>. QED  BY <1>4, <1>5

(* Quotient and rest of a line known by its iMCU row and its place in it. *)
LEMMA PlaceInRow ==
  ASSUME NEW x \in Nat, NEW D \in Nat \ {0}, NEW i \in 0 .. D - 1
  PROVE  (x * D + i) \div D = x /\ (x * D + i) % D = i
<1>. DEFINE s == x * D + i
            q == s \div D
<1>1. x * D \in Nat /\ s \in Nat /\ i \in Nat /\ i < D
  BY ProductIsNat
<1>2. q \in Nat /\ q * D <= s /\ s < q * D + D /\ s % D = s - q * D
  BY <1>1, Quotient
<1>3. q * D \in Nat /\ (q + 1) * D = q * D + D /\ (x + 1) * D = x * D + D
  <2>. HIDE DEF q
  <2>. QED  BY <1>2, ProductIsNat, SumTimes
<1>4. s = x * D + i
  OBVIOUS
<1>. HIDE DEF s, q
<1>5. q * D < (x + 1) * D /\ x * D < (q + 1) * D
  BY <1>1, <1>2, <1>3, <1>4
<1>6. q < x + 1 /\ x < q + 1
  BY <1>2, <1>5, CancelFactor
<1>7. q = x
  BY <1>2, <1>6
<1>. QED  BY <1>1, <1>2, <1>4, <1>7 DEF s, q

-----------------------------------------------------------------------------
(* The decompressor without context rows: one list of pointers, which shows  *)
(* the workspace as it is.                                                   *)
Plain == shape \in Shapes /\ ~shape.context

Sample == [y : Int, c : {<<>>}]
Pointers == [list \in {0, 1} |-> [c \in {"Y"} |-> FunnyPointers(list, c)]]

Machines ==
  [full : BOOLEAN, rowgroup : Nat, which : {0}, ctx : {"prepare"}, avail : {0},
   iMCUctr : Nat, imcu : Nat, scan : Nat, out : Seq(Sample),
   xbuffer : {Pointers}, work : [{"Y"} -> [0 .. LinesPerRow - 1 -> Int]],
   next : 1 .. V, toGo : Nat, luma : [list : {0}, at : Nat], chroma : {<<>>}]

(* The first line of the iMCU row in the buffer, or of the next to be read. *)
FirstLine(t) == (IF t.full THEN t.imcu - 1 ELSE t.imcu) * LinesPerRow

(* The rows of pixels of the current row group that were given. *)
Given(t) == IF t.next < V THEN t.next ELSE 0

(***************************************************************************)
(* output_scanline, the row group, the conversion buffer and the iMCU row   *)
(* agree, and the buffer shows the rows of its iMCU row.                    *)
(***************************************************************************)
InStep(t) ==
  /\ t.rowgroup < M
  /\ t.full => t.imcu > 0
  /\ t.full => \A i \in 0 .. LinesPerRow - 1 :
                 FirstLine(t) + i < Height => t.work["Y"][i] = FirstLine(t) + i
  /\ t.next < V => t.full /\ t.luma.at = t.rowgroup * V
  /\ t.scan = FirstLine(t) + t.rowgroup * V + Given(t)

(* As every read leaves it: a buffer is emptied as soon as it is used up,    *)
(* and filled only when a row of it is given.                                *)
AfterRead(t) == IF t.full THEN t.scan > FirstLine(t) ELSE t.rowgroup = 0

RowsInv ==
  /\ Plain
  /\ d \in Machines
  /\ d.scan <= Height
  /\ d.scan < Height =>
       /\ InStep(d)
       /\ d.toGo = Height - d.scan
       /\ client.op # "skip" => AfterRead(d)

-----------------------------------------------------------------------------
(* The constants of a picture. *)
LEMMA PlainFacts ==
  ASSUME Plain
  PROVE  /\ M \in Nat \ {0} /\ Height \in Nat \ {0}
         /\ LinesPerRow \in Nat \ {0} /\ LinesPerRow = 2 * M /\ LinesPerRow = M * V
         /\ Components = {"Y"} /\ V = 2
         /\ Workspace("Y") = 0 .. LinesPerRow - 1
         /\ \A i \in 0 .. LinesPerRow - 1 : i \in Offsets("Y") /\ Pointers[0]["Y"][i] = i
<1>1. M \in Nat \ {0} /\ Height \in Nat \ {0} /\ shape.context = FALSE
  <2>1. shape.context \in BOOLEAN
    BY ShapesAssumption DEF Plain
  <2>. QED  BY <2>1, ShapesAssumption DEF Plain, M, Height
<1>2. LinesPerRow \in Nat \ {0} /\ LinesPerRow = 2 * M /\ LinesPerRow = M * V /\ V = 2
  BY <1>1 DEF LinesPerRow, V
<1>3. Components = {"Y"}
  BY <1>1 DEF Components
<1>4. RGroup("Y") = 2
  BY DEF RGroup, V
<1>5. Workspace("Y") = 0 .. LinesPerRow - 1
  BY <1>1, <1>2, <1>4 DEF Workspace
<1>6. ASSUME NEW i \in 0 .. LinesPerRow - 1
      PROVE  i \in Offsets("Y") /\ Pointers[0]["Y"][i] = i
  <2>1. i \in Offsets("Y")
    BY <1>1, <1>2, <1>4 DEF Offsets
  <2>2. FunnyPointers(0, "Y")[i] = i
    <3>1. ~(i < 0) /\ i \in Workspace("Y")
      BY <1>2, <1>5
    <3>2. FunnyPointers(0, "Y")[i] =
            CASE i < 0 -> 0
              [] i \in Workspace("Y") -> i
              [] OTHER -> Unset
      BY <2>1, <1>4 DEF FunnyPointers
    <3>. QED  BY <3>1, <3>2
  <2>3. Pointers[0]["Y"] = FunnyPointers(0, "Y")
    BY DEF Pointers
  <2>. QED  BY <2>1, <2>2, <2>3
<1>. QED  BY <1>1, <1>2, <1>3, <1>5, <1>6

(* The row that the picture has at a line, and the line of a row. *)
LEMMA ExpectedFacts ==
  ASSUME Plain, NEW line \in 0 .. Height - 1
  PROVE  Expected(line) = [y |-> line, c |-> <<>>] /\ LineOf(Expected(line)) = line
<1>1. shape.context = FALSE
  BY ShapesAssumption DEF Plain
<1>2. \A x : Expected(x) = [y |-> x, c |-> <<>>]
  BY <1>1 DEF Expected
<1>3. \A x : Expected(x).y = x
  BY <1>2
<1>4. \A x : Expected(x) = Expected(line) => x = line
  BY <1>3
<1>5. LineOf(Expected(line)) = CHOOSE x \in 0 .. Height - 1 : Expected(x) = Expected(line)
  BY DEF LineOf
<1>. QED  BY <1>2, <1>4, <1>5

-----------------------------------------------------------------------------
(* The pieces of a read. *)

(* The pointers are never changed. *)
LEMMA MachineFacts ==
  ASSUME Plain, NEW t \in Machines
  PROVE  /\ t.which = 0 /\ t.luma.list = 0 /\ t.chroma = <<>> /\ t.xbuffer = Pointers
         /\ \A i \in 0 .. LinesPerRow - 1 : t.xbuffer[t.which]["Y"][i] = i
<1>1. t.which = 0 /\ t.luma.list = 0 /\ t.chroma = <<>> /\ t.xbuffer = Pointers
  BY DEF Machines
<1>. QED  BY <1>1, PlainFacts

(* Load fills the buffer with the rows of its iMCU row and changes nothing   *)
(* else that counts.                                                         *)
LEMMA Loads ==
  ASSUME Plain, NEW t \in Machines, InStep(t)
  PROVE  /\ Load(t) \in Machines /\ InStep(Load(t)) /\ Load(t).full
         /\ Load(t).scan = t.scan /\ Load(t).out = t.out /\ Load(t).toGo = t.toGo
         /\ Load(t).next = t.next /\ Load(t).rowgroup = t.rowgroup
<1>1. CASE t.full
  BY <1>1 DEF Load
<1>2. CASE ~t.full
  <2>. DEFINE n == t.imcu
              at(w) == {i \in 0 .. RGroup("Y") * M - 1 : t.xbuffer[t.which]["Y"][i] = w}
              value(w) == IF at(w) = {} THEN t.work["Y"][w]
                          ELSE Decoded(t, "Y", CHOOSE i \in at(w) : TRUE, t.work["Y"][w])
              work == [c \in {"Y"} |-> [w \in 0 .. LinesPerRow - 1 |-> Decoded(t, "Y", w, t.work["Y"][w])]]
              r == [t EXCEPT !.full = TRUE, !.imcu = @ + 1, !.iMCUctr = @ + 1, !.work = work]
  <2>0. n \in Nat /\ n * LinesPerRow \in Nat /\ t.full = FALSE
    <3>1. n \in Nat /\ t.full = FALSE
      BY <1>2 DEF Machines
    <3>. HIDE DEF n
    <3>. QED  BY <3>1, PlainFacts, ProductIsNat
  <2>1. Load(t) = r
    <3>1. ASSUME NEW w \in 0 .. LinesPerRow - 1
          PROVE  value(w) = Decoded(t, "Y", w, t.work["Y"][w])
      <4>1. at(w) = {w}
        <5>1. RGroup("Y") * M = LinesPerRow
          BY PlainFacts DEF RGroup
        <5>. QED  BY <5>1, MachineFacts
      <4>2. (CHOOSE i \in at(w) : TRUE) = w
        BY <4>1
      <4>. QED  BY <4>1, <4>2
    <3>. DEFINE Loaded(c) == [w \in Workspace(c) |->
                  LET a == {i \in 0 .. RGroup(c) * M - 1 : t.xbuffer[t.which][c][i] = w} IN
                    IF a = {} THEN t.work[c][w]
                    ELSE Decoded(t, c, CHOOSE i \in a : TRUE, t.work[c][w])]
    <3>2. Loaded("Y") = work["Y"]
      <4>1. Loaded("Y") = [w \in Workspace("Y") |-> value(w)]
        OBVIOUS
      <4>2. work["Y"] = [w \in 0 .. LinesPerRow - 1 |-> Decoded(t, "Y", w, t.work["Y"][w])]
        OBVIOUS
      <4>. HIDE DEF value
      <4>. QED  BY <3>1, <4>1, <4>2, PlainFacts
    <3>3. Load(t) = [t EXCEPT !.full = TRUE, !.imcu = @ + 1, !.iMCUctr = @ + 1,
                              !.work = [c \in Components |-> Loaded(c)]]
      BY <1>2 DEF Load
    <3>4. work = [c \in {"Y"} |-> work["Y"]]
      OBVIOUS
    <3>. HIDE DEF Loaded, work
    <3>5. [c \in Components |-> Loaded(c)] = work
      BY <3>2, <3>4, PlainFacts
    <3>. QED  BY <3>3, <3>5
  <2>2. /\ RGroup("Y") * M = LinesPerRow /\ Samples("Y") = Height
        /\ Height \in Nat /\ LinesPerRow \in Nat
    BY PlainFacts DEF RGroup, Samples
  <2>3. ASSUME NEW w \in 0 .. LinesPerRow - 1
        PROVE  /\ work["Y"][w] \in Int
               /\ n * LinesPerRow + w < Height => work["Y"][w] = n * LinesPerRow + w
    <3>1. t.work["Y"][w] \in Int
      BY DEF Machines
    <3>2. t.imcu * RGroup("Y") * M = n * LinesPerRow
      BY <2>0, <2>2, PlainFacts DEF RGroup
    <3>3. work["Y"][w] = Decoded(t, "Y", w, t.work["Y"][w])
      OBVIOUS
    <3>4. Decoded(t, "Y", w, t.work["Y"][w]) =
            IF n * LinesPerRow + w < Height THEN n * LinesPerRow + w
            ELSE IF (n * LinesPerRow + w) \div M < (Height + M - 1) \div M THEN Pad ELSE t.work["Y"][w]
      BY <2>2, <3>2 DEF Decoded
    <3>. HIDE DEF n, work
    <3>. QED  BY <2>0, <3>1, <3>3, <3>4 DEF Pad
  <2>. HIDE DEF work
  <2>4. work \in [{"Y"} -> [0 .. LinesPerRow - 1 -> Int]]
    <3>1. \A w \in 0 .. LinesPerRow - 1 : work["Y"][w] \in Int
      BY <2>3
    <3>. QED  BY <3>1 DEF work
  <2>5. r \in Machines
    <3>1. t.imcu + 1 \in Nat /\ t.iMCUctr + 1 \in Nat
      BY DEF Machines
    <3>. QED  BY <2>4, <3>1 DEF Machines
  <2>6. /\ r.full = TRUE /\ r.imcu = n + 1 /\ r.scan = t.scan /\ r.out = t.out /\ r.toGo = t.toGo
        /\ r.next = t.next /\ r.rowgroup = t.rowgroup /\ r.luma = t.luma /\ r.work = work
    BY DEF Machines
  <2>. HIDE DEF r, n
  <2>7. FirstLine(r) = n * LinesPerRow /\ FirstLine(t) = n * LinesPerRow /\ Given(r) = Given(t)
    <3>1. n + 1 - 1 = n
      BY <2>0
    <3>. QED  BY <2>0, <2>6, <3>1 DEF FirstLine, Given, n
  <2>8. InStep(r)
    BY <2>0, <2>3, <2>6, <2>7 DEF InStep
  <2>. QED  BY <2>1, <2>5, <2>6, <2>8
<1>. QED  BY <1>1, <1>2 DEF Machines

(* A pointer of a full buffer leads to the row of the picture it belongs to. *)
LEMMA RowFound ==
  ASSUME Plain, NEW t \in Machines, InStep(t), t.full,
         NEW i \in 0 .. LinesPerRow - 1, FirstLine(t) + i < Height
  PROVE  RowAt(t, 0, "Y", i) = FirstLine(t) + i
<1>1. t.xbuffer[0]["Y"][i] = i /\ i \in Offsets("Y")
  BY MachineFacts, PlainFacts
<1>2. i # Unset
  BY PlainFacts DEF Unset
<1>3. t.work["Y"][i] = FirstLine(t) + i
  BY DEF InStep
<1>. QED  BY <1>1, <1>2, <1>3 DEF RowAt

(* The conversion buffer that the next rows are taken from. *)
Filled(t) == [t EXCEPT !.next = Given(t), !.luma = [list |-> 0, at |-> t.rowgroup * V]]

(* The upsampler takes up its row group where the last call left it.         *)
LEMMA Fills ==
  ASSUME Plain, NEW t \in Machines, InStep(t)
  PROVE  (IF t.next >= V THEN Fill(t) ELSE t) = Filled(t)
<1>1. V = 2 /\ t.next \in 1 .. V /\ t.which = 0 /\ shape.context = FALSE
  BY PlainFacts, ShapesAssumption DEF Machines, Plain
<1>2. CASE t.next >= V
  <2>1. Fill(t) = [t EXCEPT !.next = 0, !.luma = [list |-> 0, at |-> t.rowgroup * V], !.chroma = <<>>]
    BY <1>1 DEF Fill
  <2>2. Given(t) = 0
    BY <1>1, <1>2 DEF Given
  <2>. QED  BY <1>2, <2>1, <2>2 DEF Filled, Machines
<1>3. CASE ~(t.next >= V)
  <2>1. Given(t) = t.next /\ t.luma = [list |-> 0, at |-> t.rowgroup * V]
    BY <1>1, <1>3 DEF Given, InStep, Machines
  <2>. QED  BY <1>3, <2>1 DEF Filled, Machines
<1>. QED  BY <1>2, <1>3

(* How many rows the upsampler gives. *)
Rows(t, room) == Least(Least(V - Given(t), t.toGo), room)

(* What it gives are the rows of the picture from output_scanline on.        *)
LEMMA Upsamples ==
  ASSUME Plain, NEW t \in Machines, InStep(t), t.full, t.out = <<>>, t.scan < Height,
         t.toGo > 0, NEW room \in Nat \ {0}, t.toGo = Height - t.scan \/ room = 1
  PROVE  LET n == Rows(t, room)
             r == Upsample(t, room)
         IN /\ n \in 1 .. room /\ n <= t.toGo /\ t.scan + n <= Height /\ Given(t) + n \in 1 .. V
            /\ r = [t EXCEPT !.next = Given(t) + n, !.luma = [list |-> 0, at |-> t.rowgroup * V],
                             !.out = [k \in 1..n |-> Expected(t.scan + k - 1)],
                             !.toGo = @ - n,
                             !.rowgroup = IF Given(t) + n >= V THEN @ + 1 ELSE @]
<1>. DEFINE n == Rows(t, room)
            g == Given(t)
            u == Filled(t)
<1>1. /\ V = 2 /\ g \in 0..1 /\ t.toGo \in Nat /\ t.scan \in Nat /\ Height \in Nat
      /\ t.rowgroup \in Nat /\ M \in Nat /\ LinesPerRow = 2 * M
  BY PlainFacts DEF Machines, Given
<1>2. n \in 1 .. room /\ n <= t.toGo /\ t.scan + n <= Height /\ g + n \in 1 .. V
  <2>1. n = Least(Least(2 - g, t.toGo), room)
    BY <1>1 DEF Rows
  <2>. DEFINE l == Least(2 - g, t.toGo)
  <2>. HIDE DEF g, n
  <2>2. 2 - g \in 1..2 /\ t.toGo \in Nat \ {0} /\ room \in Nat \ {0}
    BY <1>1
  <2>3. l \in Nat \ {0} /\ l <= 2 - g /\ l <= t.toGo
    BY <2>2 DEF Least
  <2>4. n = Least(l, room)
    BY <2>1
  <2>. HIDE DEF l
  <2>5. n \in Nat \ {0} /\ n <= room /\ n <= l
    BY <2>2, <2>3, <2>4 DEF Least
  <2>6. n <= 2 - g /\ n <= t.toGo /\ n \in 1 .. room
    BY <2>2, <2>3, <2>5
  <2>7. t.scan + n <= Height
    BY <1>1, <2>2, <2>6
  <2>8. g + n \in 1 .. V
    BY <1>1, <2>5, <2>6
  <2>. QED  BY <2>6, <2>7, <2>8
<1>3. /\ u.next = g /\ u.luma = [list |-> 0, at |-> t.rowgroup * V] /\ u.out = <<>>
      /\ u.toGo = t.toGo /\ u.rowgroup = t.rowgroup /\ u.xbuffer = t.xbuffer /\ u.work = t.work
  BY DEF Filled, Machines
<1>4. Upsample(t, room) = Deliver(u, n)
  <2>1. Upsample(t, room) = DeliverUpTo(u, room)
    BY Fills DEF Upsample
  <2>2. room - Len(u.out) = room
    BY <1>3
  <2>. QED  BY <1>3, <2>1, <2>2 DEF DeliverUpTo, Rows
<1>5. FirstLine(t) \in Nat /\ t.scan = FirstLine(t) + t.rowgroup * 2 + g /\ t.rowgroup < M
  <2>1. t.imcu - 1 \in Nat
    BY DEF Machines, InStep
  <2>2. (t.imcu - 1) * LinesPerRow \in Nat
    BY <1>1, <2>1, ProductIsNat
  <2>. QED  BY <1>1, <2>2 DEF FirstLine, InStep
<1>6. ASSUME NEW k \in 1..n PROVE Pixels(u, g + k - 1) = Expected(t.scan + k - 1)
  <2>. DEFINE i == t.rowgroup * 2 + g + k - 1
  <2>. HIDE DEF g, n, i, u
  <2>1. i \in 0 .. LinesPerRow - 1 /\ FirstLine(t) + i = t.scan + k - 1 /\ t.scan + k - 1 < Height
    <3>0. n \in Nat /\ k \in Nat /\ k <= n /\ 1 <= k
      BY <1>2
    <3>1. t.rowgroup \in 0 .. M - 1 /\ k \in 1..2 /\ g \in 0..1 /\ g + k <= 2
      <4>1. t.rowgroup \in Nat /\ M \in Nat /\ t.rowgroup < M
        BY <1>1, <1>5
      <4>2. t.rowgroup \in 0 .. M - 1
        BY <4>1
      <4>3. g \in 0..1 /\ g + n \in 1..2
        BY <1>1, <1>2
      <4>4. k \in 1..2 /\ g + k <= 2
        BY <3>0, <4>3
      <4>. QED  BY <4>2, <4>3, <4>4
    <3>2. PICK a \in Nat, m \in Nat, F \in Nat :
            a = t.rowgroup * 2 /\ a <= m - 2 /\ m = LinesPerRow /\ F = FirstLine(t)
      <4>1. PICK x \in Nat, y \in Nat : x = t.rowgroup /\ y = M /\ x <= y - 1
        BY <1>1, <3>1
      <4>2. x * 2 \in Nat /\ x * 2 <= 2 * y - 2 /\ 2 * y \in Nat
        BY <4>1
      <4>. QED  BY <1>1, <1>5, <4>1, <4>2
    <3>3. i \in 0 .. LinesPerRow - 1
      <4>1. i = a + g + k - 1
        BY <3>2 DEF i
      <4>2. a + g + k - 1 \in 0 .. m - 1
        <5>1. (g = 0 /\ k \in 1..2) \/ (g = 1 /\ k = 1)
          BY <3>1
        <5>2. a + g + k - 1 \in a .. a + 1
          BY <3>2, <5>1
        <5>. QED  BY <3>2, <5>2
      <4>. QED  BY <3>2, <4>1, <4>2
    <3>4. FirstLine(t) + i = t.scan + k - 1
      <4>1. i = a + g + k - 1 /\ t.scan = F + a + g
        BY <1>5, <3>2 DEF i
      <4>. QED  BY <3>1, <3>2, <4>1
    <3>5. t.scan + k - 1 < Height
      BY <1>1, <1>2
    <3>. QED  BY <3>3, <3>4, <3>5
  <2>2. RowAt(t, 0, "Y", i) = t.scan + k - 1
    BY <2>1, RowFound
  <2>3. RowAt(u, 0, "Y", i) = RowAt(t, 0, "Y", i)
    BY <1>3 DEF RowAt
  <2>4. u.luma.at + (g + k - 1) = i
    <3>1. u.luma.at = t.rowgroup * 2
      BY <1>1, <1>3
    <3>2. PICK a \in Nat : a = t.rowgroup * 2
      BY <1>1
    <3>3. PICK x \in 0..1, y \in Nat : x = g /\ y = k
      BY <1>1, <1>2
    <3>. QED  BY <3>1, <3>2, <3>3 DEF i
  <2>5. shape.context = FALSE
    BY ShapesAssumption DEF Plain
  <2>6. u.luma.list = 0
    BY <1>3
  <2>7. Pixels(u, g + k - 1) = [y |-> RowAt(u, 0, "Y", i), c |-> <<>>]
    BY <2>4, <2>5, <2>6 DEF Pixels
  <2>8. Expected(t.scan + k - 1) = [y |-> t.scan + k - 1, c |-> <<>>]
    BY <2>5 DEF Expected
  <2>. QED  BY <2>2, <2>3, <2>7, <2>8
<1>7. u.out \o [k \in 1..n |-> Pixels(u, u.next + k - 1)] = [k \in 1..n |-> Expected(t.scan + k - 1)]
  <2>1. [k \in 1..n |-> Pixels(u, u.next + k - 1)] = [k \in 1..n |-> Expected(t.scan + k - 1)]
    BY <1>3, <1>6
  <2>2. [k \in 1..n |-> Expected(t.scan + k - 1)] \in Seq(Sample)
    <3>1. shape.context = FALSE
      BY ShapesAssumption DEF Plain
    <3>2. \A x \in Int : Expected(x) \in Sample
      BY <3>1 DEF Expected, Sample
    <3>3. \A k \in 1..n : t.scan + k - 1 \in Int
      BY <1>1
    <3>. HIDE DEF n
    <3>. QED  BY <1>2, <3>2, <3>3
  <2>. QED  BY <1>3, <2>1, <2>2
<1>8. Deliver(u, n) = [t EXCEPT !.next = g + n, !.luma = [list |-> 0, at |-> t.rowgroup * V],
                               !.out = [k \in 1..n |-> Expected(t.scan + k - 1)],
                               !.toGo = @ - n,
                               !.rowgroup = IF g + n >= V THEN @ + 1 ELSE @]
  <2>. HIDE DEF n, g
  <2>. QED  BY <1>3, <1>7 DEF Deliver, Filled, Machines
<1>. QED  BY <1>2, <1>4, <1>8

(* A call to read gives the next rows of the picture, one at least, and      *)
(* leaves the decompressor in step.                                          *)
LEMMA Reads ==
  ASSUME Plain, NEW t \in Machines, InStep(t), t.scan < Height, t.toGo > 0,
         NEW lines \in Nat \ {0}, t.toGo = Height - t.scan \/ lines = 1
  PROVE  LET r == ReadScanlines(t, lines)
         IN \E n \in 1 .. lines :
              /\ t.scan + n <= Height
              /\ r \in Machines /\ InStep(r) /\ AfterRead(r)
              /\ r.scan = t.scan + n /\ r.toGo = t.toGo - n
              /\ r.out = [k \in 1..n |-> Expected(t.scan + k - 1)]
<1>. DEFINE s == [t EXCEPT !.out = <<>>]
            l == Load(s)
            n == Rows(l, lines)
            u == Upsample(l, lines)
            e == EmptyIfUsed(u)
            r == [e EXCEPT !.scan = @ + Len(e.out)]
            w == Given(l) + n
<1>1. /\ s \in Machines /\ InStep(s) /\ s.out = <<>> /\ s.scan = t.scan /\ s.toGo = t.toGo
  <2>1. /\ s \in Machines /\ s.out = <<>> /\ s.scan = t.scan /\ s.toGo = t.toGo
        /\ s.full = t.full /\ s.imcu = t.imcu /\ s.rowgroup = t.rowgroup /\ s.next = t.next
        /\ s.luma = t.luma /\ s.work = t.work
    <3>1. <<>> \in Seq(Sample)
      OBVIOUS
    <3>. QED  BY <3>1 DEF Machines
  <2>. HIDE DEF s
  <2>2. FirstLine(s) = FirstLine(t) /\ Given(s) = Given(t)
    BY <2>1 DEF FirstLine, Given
  <2>. QED  BY <2>1, <2>2 DEF InStep
<1>. HIDE DEF s
<1>2. /\ l \in Machines /\ InStep(l) /\ l.full /\ l.out = <<>> /\ l.scan = t.scan /\ l.toGo = t.toGo
  BY <1>1, Loads
<1>. HIDE DEF l
<1>3. /\ n \in 1 .. lines /\ n <= l.toGo /\ l.scan + n <= Height /\ w \in 1 .. V
      /\ u = [l EXCEPT !.next = w, !.luma = [list |-> 0, at |-> l.rowgroup * V],
                       !.out = [k \in 1..n |-> Expected(l.scan + k - 1)],
                       !.toGo = @ - n, !.rowgroup = IF w >= V THEN @ + 1 ELSE @]
  BY <1>2, Upsamples
<1>4. /\ V = 2 /\ M \in Nat \ {0} /\ LinesPerRow = 2 * M /\ Height \in Nat
      /\ l.rowgroup \in 0 .. M - 1 /\ l.scan \in Nat /\ l.toGo \in Nat
  BY <1>2, PlainFacts DEF Machines, InStep
<1>. DEFINE F == FirstLine(l)
            g == Given(l)
<1>5. /\ F \in Nat /\ F = (l.imcu - 1) * LinesPerRow /\ F + LinesPerRow = l.imcu * LinesPerRow
      /\ l.imcu \in Nat \ {0}
  <2>1. l.imcu \in Nat \ {0}
    BY <1>2 DEF Machines, InStep
  <2>2. (l.imcu - 1) * LinesPerRow \in Nat
    BY <1>4, <2>1, ProductIsNat
  <2>3. (l.imcu - 1 + 1) * LinesPerRow = (l.imcu - 1) * LinesPerRow + 1 * LinesPerRow
    BY <1>4, <2>1, SumTimes
  <2>4. l.imcu - 1 + 1 = l.imcu
    BY <2>1
  <2>. QED  BY <1>2, <1>4, <2>1, <2>2, <2>3, <2>4 DEF FirstLine
<1>6. l.scan = F + l.rowgroup * 2 + g /\ g \in 0..1 /\ l.rowgroup * 2 \in Nat
  <2>1. l.next \in 1..2 /\ g \in 0..1
    BY <1>2, <1>4 DEF Machines, Given
  <2>2. l.scan = F + l.rowgroup * V + g
    BY <1>2 DEF InStep
  <2>3. l.rowgroup * V = l.rowgroup * 2 /\ l.rowgroup * 2 \in Nat
    BY <1>4
  <2>. QED  BY <2>1, <2>2, <2>3
<1>7. [k \in 1..n |-> Expected(l.scan + k - 1)] \in Seq(Sample)
      /\ Len([k \in 1..n |-> Expected(l.scan + k - 1)]) = n
  <2>1. \A x \in Int : Expected(x) \in Sample
    BY ShapesAssumption DEF Expected, Sample, Plain
  <2>2. \A k \in 1..n : l.scan + k - 1 \in Int
    BY <1>4
  <2>. HIDE DEF n
  <2>. QED  BY <1>3, <2>1, <2>2
<1>. HIDE DEF n, u, w, F, g
<1>8. /\ u.full = l.full /\ u.imcu = l.imcu /\ u.work = l.work /\ u.scan = l.scan
      /\ u.next = w /\ u.luma.at = l.rowgroup * V /\ u.toGo = l.toGo - n
      /\ u.out = [k \in 1..n |-> Expected(l.scan + k - 1)]
      /\ u.rowgroup = IF w >= V THEN l.rowgroup + 1 ELSE l.rowgroup
  BY <1>2, <1>3 DEF Machines
<1>9. u \in Machines
  <2>1. l.rowgroup * V \in Nat /\ l.toGo - n \in Nat
        /\ (IF w >= V THEN l.rowgroup + 1 ELSE l.rowgroup) \in Nat
    BY <1>3, <1>4
  <2>2. [list |-> 0, at |-> l.rowgroup * V] \in [list : {0}, at : Nat]
    BY <2>1
  <2>. QED  BY <1>2, <1>3, <1>7, <2>1, <2>2 DEF Machines
<1>10. w = g + n
  BY DEF w, g
<1>11. /\ e \in Machines /\ e.out = u.out /\ e.scan = u.scan /\ e.toGo = u.toGo /\ e.next = u.next
       /\ e.luma = u.luma /\ e.work = u.work /\ e.imcu = u.imcu
       /\ u.rowgroup < M => e.full /\ e.rowgroup = u.rowgroup
       /\ ~(u.rowgroup < M) => e.full = FALSE /\ e.rowgroup = 0
  <2>0. u.rowgroup \in Nat
    BY <1>9 DEF Machines
  <2>1. CASE u.rowgroup >= M
    <3>1. e = [u EXCEPT !.full = FALSE, !.rowgroup = 0]
      BY <2>1 DEF EmptyIfUsed
    <3>. HIDE DEF e
    <3>2. /\ e \in Machines /\ e.out = u.out /\ e.scan = u.scan /\ e.toGo = u.toGo /\ e.next = u.next
          /\ e.luma = u.luma /\ e.work = u.work /\ e.imcu = u.imcu
          /\ e.full = FALSE /\ e.rowgroup = 0
      BY <1>9, <3>1 DEF Machines
    <3>. QED  BY <1>4, <2>0, <2>1, <3>2
  <2>2. CASE ~(u.rowgroup >= M)
    <3>1. e = u
      BY <2>2 DEF EmptyIfUsed
    <3>2. u.full = TRUE
      BY <1>2, <1>8 DEF Machines
    <3>. HIDE DEF e
    <3>. QED  BY <1>4, <1>9, <2>0, <2>2, <3>1, <3>2
  <2>. QED  BY <2>1, <2>2
<1>. HIDE DEF e
<1>12. /\ r \in Machines /\ r.scan = l.scan + n /\ r.toGo = l.toGo - n
       /\ r.out = [k \in 1..n |-> Expected(l.scan + k - 1)]
       /\ r.next = w /\ r.luma.at = l.rowgroup * V /\ r.work = l.work /\ r.imcu = l.imcu
       /\ u.rowgroup < M => r.full /\ r.rowgroup = u.rowgroup
       /\ ~(u.rowgroup < M) => r.full = FALSE /\ r.rowgroup = 0
  <2>1. Len(e.out) = n
    BY <1>7, <1>8, <1>11
  <2>2. e.scan + n \in Nat
    BY <1>3, <1>4, <1>8, <1>11
  <2>. QED  BY <1>8, <1>11, <2>1, <2>2 DEF Machines
<1>13. ReadScanlines(t, lines) = r
  <2>1. shape.context = FALSE
    BY ShapesAssumption DEF Plain
  <2>2. s.scan < Height /\ ~(t.scan >= Height)
    BY <1>1, <1>2, <1>4
  <2>. QED  BY <2>1, <2>2 DEF ReadScanlines, ProcessSimple, Scanned, r, e, u, l, s
<1>. HIDE DEF r
<1>14. InStep(r) /\ AfterRead(r)
  <2>1. CASE u.rowgroup < M
    <3>1. FirstLine(r) = F /\ r.full
      BY <1>2, <1>12, <2>1 DEF FirstLine, F
    <3>2. CASE w >= V
      <4>1. Given(r) = 0 /\ w = 2 /\ r.rowgroup = l.rowgroup + 1
        BY <1>3, <1>4, <1>8, <1>12, <2>1, <3>2 DEF Given
      <4>2. r.rowgroup * V = r.rowgroup * 2 /\ r.scan = l.scan + n
        BY <1>4, <1>12
      <4>3. r.scan = F + r.rowgroup * 2 + Given(r) /\ r.scan > F
        BY <1>3, <1>4, <1>5, <1>6, <1>10, <4>1, <4>2
      <4>4. r.rowgroup < M /\ r.imcu > 0 /\ r.next = w
        BY <1>5, <1>12, <2>1
      <4>5. \A i \in 0 .. LinesPerRow - 1 : F + i < Height => r.work["Y"][i] = F + i
        BY <1>2, <1>12 DEF InStep, F
      <4>6. ~(r.next < V)
        BY <1>3, <1>4, <4>1, <4>4
      <4>. QED  BY <3>1, <4>2, <4>3, <4>4, <4>5, <4>6 DEF InStep, AfterRead
    <3>3. CASE ~(w >= V)
      <4>1. Given(r) = w /\ w = 1 /\ r.rowgroup = l.rowgroup
        BY <1>3, <1>4, <1>8, <1>12, <2>1, <3>3 DEF Given
      <4>2. r.rowgroup * V = r.rowgroup * 2 /\ r.scan = l.scan + n
        BY <1>4, <1>12
      <4>3. r.scan = F + r.rowgroup * 2 + Given(r) /\ r.scan > F
        BY <1>3, <1>4, <1>5, <1>6, <1>10, <4>1, <4>2
      <4>. QED  BY <1>2, <1>5, <1>12, <2>1, <3>1, <3>3, <4>1, <4>2, <4>3 DEF InStep, AfterRead, F
    <3>. QED  BY <3>2, <3>3
  <2>2. CASE ~(u.rowgroup < M)
    <3>1. w = 2 /\ l.rowgroup = M - 1 /\ u.rowgroup = M
      BY <1>3, <1>4, <1>8, <2>2
    <3>2. r.full = FALSE /\ r.rowgroup = 0 /\ Given(r) = 0 /\ r.next = 2
      BY <1>4, <1>12, <2>2, <3>1 DEF Given
    <3>3. FirstLine(r) = F + LinesPerRow
      BY <1>5, <1>12, <3>2 DEF FirstLine
    <3>4. r.scan = FirstLine(r) + r.rowgroup * V + Given(r)
      <4>1. r.scan = l.scan + n /\ l.rowgroup * 2 = 2 * M - 2 /\ r.rowgroup * V = 0
        BY <1>4, <1>12, <3>1, <3>2
      <4>. QED  BY <1>3, <1>4, <1>5, <1>6, <1>10, <3>1, <3>2, <3>3, <4>1
    <3>. QED  BY <1>4, <3>2, <3>4 DEF InStep, AfterRead
  <2>. QED  BY <2>1, <2>2
<1>15. /\ n \in 1 .. lines /\ t.scan + n <= Height
       /\ r \in Machines /\ InStep(r) /\ AfterRead(r)
       /\ r.scan = t.scan + n /\ r.toGo = t.toGo - n
       /\ r.out = [k \in 1..n |-> Expected(t.scan + k - 1)]
  <2>1. l.scan = t.scan /\ l.toGo = t.toGo
    BY <1>2
  <2>. QED  BY <1>3, <1>12, <1>14, <2>1
<1>. QED  BY <1>13, <1>15

(* A row read by itself. *)
LEMMA ReadsOne ==
  ASSUME Plain, NEW t \in Machines, InStep(t), t.scan < Height, t.toGo > 0
  PROVE  /\ ReadScanlines(t, 1) \in Machines /\ InStep(ReadScanlines(t, 1))
         /\ ReadScanlines(t, 1).scan = t.scan + 1
<1>1. PICK one \in Nat \ {0} : one = 1
  OBVIOUS
<1>2. \E n \in 1 .. one : /\ ReadScanlines(t, one) \in Machines /\ InStep(ReadScanlines(t, one))
                         /\ ReadScanlines(t, one).scan = t.scan + n
  BY <1>1, Reads
<1>. QED  BY <1>1, <1>2

(* Without context rows one row at most is read to be discarded.             *)
LEMMA Discards ==
  ASSUME NEW t, NEW lines \in 0..1
  PROVE  ReadAndDiscard(t, lines) =
           [IF lines = 0 THEN t ELSE ReadScanlines(t, 1) EXCEPT !.out = <<>>]
<1>. DEFINE Step(f) == [n \in 0..lines |-> IF n = 0 THEN t ELSE ReadScanlines(f[n - 1], 1)]
            g == [n \in 0..lines |-> IF n = 0 THEN t ELSE ReadScanlines(t, 1)]
            after == CHOOSE f : f = Step(f)
<1>1. ReadAndDiscard(t, lines) = [after[lines] EXCEPT !.out = <<>>]
  BY DEF ReadAndDiscard
<1>2. g = Step(g)
  <2>1. ASSUME NEW n \in 0..lines
        PROVE  (IF n = 0 THEN t ELSE ReadScanlines(t, 1)) =
                 (IF n = 0 THEN t ELSE ReadScanlines(g[n - 1], 1))
    <3>1. n # 0 => n - 1 = 0 /\ g[n - 1] = t
      OBVIOUS
    <3>. QED  BY <3>1
  <2>. QED  BY <2>1
<1>3. after = Step(after)
  <2>. HIDE DEF Step, g
  <2>. QED  BY <1>2
<1>. HIDE DEF after, g
<1>4. after[0] = t /\ (lines = 1 => after[1] = ReadScanlines(after[0], 1))
  BY <1>3
<1>. QED  BY <1>1, <1>4

-----------------------------------------------------------------------------
(* The pieces of a skip. *)

(* The lines left bring output_scanline to the next iMCU row, which is the   *)
(* next to be read.                                                          *)
LEMMA LeftOver ==
  ASSUME Plain, NEW t \in Machines, InStep(t), AfterRead(t)
  PROVE  LinesLeft(t) \in Nat /\ t.scan + LinesLeft(t) = t.imcu * LinesPerRow
<1>. DEFINE L == LinesPerRow
            n == t.imcu
<1>1. /\ L \in Nat \ {0} /\ L = 2 * M /\ M \in Nat \ {0} /\ V = 2 /\ n \in Nat
      /\ t.rowgroup \in 0 .. M - 1 /\ t.scan \in Nat
  BY PlainFacts DEF Machines, InStep
<1>2. Given(t) \in 0..1 /\ t.rowgroup * V = t.rowgroup * 2 /\ t.rowgroup * 2 \in Nat
      /\ t.rowgroup * 2 <= 2 * M - 2
  <2>1. t.next \in 1..2
    BY <1>1 DEF Machines
  <2>. QED  BY <1>1, <2>1 DEF Given
<1>3. CASE t.full
  <2>. DEFINE i == t.rowgroup * 2 + Given(t)
  <2>1. n - 1 \in Nat
    BY <1>1, <1>3 DEF InStep
  <2>2. t.scan = (n - 1) * L + i
    <3>1. t.scan = FirstLine(t) + t.rowgroup * V + Given(t)
      BY DEF InStep
    <3>2. FirstLine(t) = (n - 1) * L /\ (n - 1) * L \in Nat
      <4>1. FirstLine(t) = (n - 1) * L
        BY <1>3 DEF FirstLine
      <4>. HIDE DEF n, L
      <4>. QED  BY <1>1, <2>1, <4>1, ProductIsNat
    <3>. HIDE DEF n, L
    <3>. QED  BY <1>2, <3>1, <3>2
  <2>3. i \in 1 .. L - 1
    <3>1. (n - 1) * L \in Nat
      BY <1>1, <2>1, ProductIsNat
    <3>2. t.scan > (n - 1) * L
      BY <1>3 DEF AfterRead, FirstLine
    <3>. HIDE DEF n, L
    <3>. QED  BY <1>1, <1>2, <2>2, <3>1, <3>2
  <2>4. t.scan % L = i
    <3>. HIDE DEF i, L, n
    <3>1. PICK x \in Nat : x = n - 1
      BY <2>1
    <3>2. i \in 0 .. L - 1
      BY <1>1, <2>3
    <3>3. (x * L + i) % L = i
      BY <1>1, <3>2, PlaceInRow
    <3>. QED  BY <2>2, <3>1, <3>3
  <2>5. (L - i) % L = L - i
    <3>. HIDE DEF i, L
    <3>1. L - i \in 0 .. L - 1
      BY <1>1, <2>3
    <3>2. (0 * L + (L - i)) % L = L - i
      BY <1>1, <3>1, PlaceInRow
    <3>. QED  BY <1>1, <3>1, <3>2
  <2>6. (n - 1) * L + L = n * L /\ (n - 1) * L \in Nat
    <3>. HIDE DEF L, n
    <3>1. (n - 1 + 1) * L = (n - 1) * L + 1 * L
      BY <1>1, <2>1, SumTimes
    <3>2. n - 1 + 1 = n
      BY <1>1
    <3>. QED  BY <1>1, <2>1, <3>1, <3>2, ProductIsNat
  <2>7. LinesLeft(t) = L - i
    BY <2>4, <2>5 DEF LinesLeft
  <2>. HIDE DEF i, L, n
  <2>. QED  BY <1>1, <2>2, <2>3, <2>6, <2>7 DEF L, n
<1>4. CASE ~t.full
  <2>1. t.rowgroup = 0 /\ t.next = 2
    <3>1. t.next \in 1..2
      BY <1>1 DEF Machines
    <3>. QED  BY <1>1, <1>4, <3>1 DEF AfterRead, InStep
  <2>2. t.scan = n * L
    <3>1. t.scan = n * L + 0 * V + 0
      BY <1>1, <1>4, <2>1 DEF InStep, FirstLine, Given
    <3>2. n * L \in Nat
      BY <1>1, ProductIsNat
    <3>. HIDE DEF n, L
    <3>. QED  BY <1>1, <3>1, <3>2
  <2>3. t.scan % L = 0
    <3>. HIDE DEF L, n
    <3>0. 0 \in 0 .. L - 1
      BY <1>1
    <3>1. (n * L + 0) % L = 0
      BY <1>1, <3>0, PlaceInRow, Zenon
    <3>2. n * L \in Nat
      BY <1>1, ProductIsNat
    <3>. QED  BY <2>2, <3>1, <3>2
  <2>4. (L - 0) % L = 0
    <3>. HIDE DEF L
    <3>1. (1 * L + 0) % L = 0
      BY <1>1, PlaceInRow
    <3>. QED  BY <1>1, <3>1
  <2>5. LinesLeft(t) = 0
    BY <2>3, <2>4 DEF LinesLeft
  <2>. HIDE DEF L, n
  <2>. QED  BY <1>1, <2>2, <2>5 DEF L, n
<1>. QED  BY <1>3, <1>4

(* increment_simple_rowgroup_ctr leaves the decompressor within its iMCU     *)
(* row.                                                                      *)
LEMMA Increments ==
  ASSUME Plain, NEW t \in Machines, ~t.full, t.rowgroup = 0, t.next = V, t.toGo > 0,
         t.scan = t.imcu * LinesPerRow,
         NEW rows \in 0 .. LinesPerRow - 1, t.scan + rows < Height
  PROVE  LET r == IncrementRowgroup(t, rows)
         IN r \in Machines /\ InStep(r) /\ r.scan = t.scan + rows
<1>. DEFINE q == rows \div V
            b == rows % V
            s == [t EXCEPT !.rowgroup = @ + q, !.scan = @ + V * q]
            r == IncrementRowgroup(t, rows)
<1>1. /\ V = 2 /\ M \in Nat \ {0} /\ LinesPerRow = 2 * M /\ Height \in Nat
      /\ rows \in Nat /\ t.scan \in Nat
  BY PlainFacts DEF Machines
<1>2. q \in 0 .. M - 1 /\ b \in 0..1 /\ rows = 2 * q + b
  <2>1. q = rows \div 2 /\ b = rows % 2 /\ rows < 2 * M
    BY <1>1
  <2>2. rows = 2 * (rows \div 2) + (rows % 2) /\ rows % 2 \in 0..1 /\ rows \div 2 \in Nat
    BY <1>1, Halved
  <2>. HIDE DEF q, b
  <2>. QED  BY <1>1, <2>1, <2>2
<1>. HIDE DEF q, b
<1>3. /\ s \in Machines /\ s.rowgroup = q /\ s.scan = t.scan + 2 * q /\ s.full = FALSE
      /\ s.imcu = t.imcu /\ s.next = V /\ s.toGo = t.toGo
  <2>1. t.scan + V * q \in Nat /\ t.rowgroup + q = q /\ V * q = 2 * q /\ q \in Nat
    BY <1>1, <1>2
  <2>. QED  BY <2>1 DEF Machines
<1>. HIDE DEF s
<1>4. InStep(s)
  <2>1. Given(s) = 0 /\ FirstLine(s) = t.scan
    BY <1>1, <1>3 DEF Given, FirstLine
  <2>2. s.scan = FirstLine(s) + s.rowgroup * V + Given(s)
    BY <1>1, <1>2, <1>3, <2>1
  <2>. QED  BY <1>1, <1>2, <1>3, <2>2 DEF InStep
<1>5. r = ReadAndDiscard(s, b)
  BY DEF IncrementRowgroup, s, q, b
<1>. HIDE DEF r
<1>6. ASSUME NEW u \in Machines, InStep(u), r = [u EXCEPT !.out = <<>>]
      PROVE  r \in Machines /\ InStep(r) /\ r.scan = u.scan
  <2>1. /\ r \in Machines /\ r.scan = u.scan
        /\ r.full = u.full /\ r.imcu = u.imcu /\ r.rowgroup = u.rowgroup /\ r.next = u.next
        /\ r.luma = u.luma /\ r.work = u.work
    <3>1. <<>> \in Seq(Sample)
      OBVIOUS
    <3>. QED  BY <1>6, <3>1 DEF Machines
  <2>2. FirstLine(r) = FirstLine(u) /\ Given(r) = Given(u)
    BY <2>1 DEF FirstLine, Given
  <2>. QED  BY <1>6, <2>1, <2>2 DEF InStep
<1>7. CASE b = 0
  <2>1. r = [s EXCEPT !.out = <<>>]
    BY <1>5, <1>7, Discards
  <2>2. r \in Machines /\ InStep(r) /\ r.scan = s.scan
    BY <1>3, <1>4, <1>6, <2>1
  <2>3. s.scan = t.scan + rows
    BY <1>1, <1>2, <1>3, <1>7
  <2>. QED  BY <2>2, <2>3 DEF r
<1>8. CASE b = 1
  <2>. DEFINE u == ReadScanlines(s, 1)
  <2>1. r = [u EXCEPT !.out = <<>>]
    BY <1>5, <1>8, Discards
  <2>2. s.scan < Height /\ s.toGo > 0 /\ s.scan + 1 = t.scan + rows
    BY <1>1, <1>2, <1>3, <1>8
  <2>3. u \in Machines /\ InStep(u) /\ u.scan = s.scan + 1
    BY <1>3, <1>4, <2>2, ReadsOne
  <2>. HIDE DEF u
  <2>4. r \in Machines /\ InStep(r) /\ r.scan = u.scan
    BY <1>6, <2>1, <2>3
  <2>. QED  BY <2>2, <2>3, <2>4 DEF r
<1>. QED  BY <1>2, <1>7, <1>8

(* The rows given and the rows to go do not move the decompressor.           *)
LEMMA Regardless ==
  ASSUME NEW u \in Machines, InStep(u), NEW togo \in Nat
  PROVE  LET r == [u EXCEPT !.out = <<>>, !.toGo = togo]
         IN r \in Machines /\ InStep(r) /\ r.scan = u.scan /\ r.out = <<>> /\ r.toGo = togo
<1>. DEFINE r == [u EXCEPT !.out = <<>>, !.toGo = togo]
<1>1. /\ r \in Machines /\ r.scan = u.scan /\ r.out = <<>> /\ r.toGo = togo
      /\ r.full = u.full /\ r.imcu = u.imcu /\ r.rowgroup = u.rowgroup /\ r.next = u.next
      /\ r.luma = u.luma /\ r.work = u.work
  <2>1. <<>> \in Seq(Sample)
    OBVIOUS
  <2>. QED  BY <2>1 DEF Machines
<1>. HIDE DEF r
<1>2. FirstLine(r) = FirstLine(u) /\ Given(r) = Given(u)
  BY <1>1 DEF FirstLine, Given
<1>3. InStep(r)
  BY <1>1, <1>2 DEF InStep
<1>. QED  BY <1>1, <1>3 DEF r

(* A skip that leaves the iMCU row ends that many lines further down, with   *)
(* the decompressor in step.                                                 *)
LEMMA Skips ==
  ASSUME Plain, NEW t \in Machines, InStep(t), AfterRead(t),
         NEW lines \in Nat, lines >= LinesLeft(t), t.scan + lines < Height
  PROVE  LET r == [SkipSimple(t, lines) EXCEPT !.out = <<>>]
         IN /\ r \in Machines /\ InStep(r)
            /\ r.scan = t.scan + lines /\ r.toGo = Height - r.scan /\ r.out = <<>>
<1>. DEFINE after == lines - LinesLeft(t)
            n == after \div LinesPerRow
            rest == after - n * LinesPerRow
            v == LeaveRow(t, LinesLeft(t))
            j == JumpRows(v, n)
            i == IncrementRowgroup(j, rest)
            r == [SkipSimple(t, lines) EXCEPT !.out = <<>>]
<1>1. /\ V = 2 /\ M \in Nat \ {0} /\ LinesPerRow \in Nat \ {0} /\ Height \in Nat
      /\ t.scan \in Nat /\ t.imcu \in Nat
  BY PlainFacts DEF Machines
<1>2. /\ LinesLeft(t) \in Nat /\ t.scan + LinesLeft(t) = t.imcu * LinesPerRow
      /\ after \in Nat
  BY LeftOver
<1>. HIDE DEF after
<1>3. /\ n \in Nat /\ n * LinesPerRow \in Nat /\ rest \in 0 .. LinesPerRow - 1
      /\ n * LinesPerRow + rest = after
  <2>1. /\ n \in Nat /\ n * LinesPerRow <= after /\ after < n * LinesPerRow + LinesPerRow
    BY <1>1, <1>2, Quotient
  <2>. HIDE DEF n
  <2>2. n * LinesPerRow \in Nat
    BY <1>1, <2>1, ProductIsNat
  <2>. QED  BY <1>1, <1>2, <2>1, <2>2
<1>. HIDE DEF n, rest
<1>4. (t.imcu + n) * LinesPerRow = t.imcu * LinesPerRow + n * LinesPerRow
  BY <1>1, <1>3, SumTimes
<1>5. /\ v \in Machines /\ v.scan = t.imcu * LinesPerRow /\ v.full = FALSE /\ v.rowgroup = 0
      /\ v.next = V /\ v.toGo = Height - v.scan /\ v.toGo > 0 /\ v.imcu = t.imcu
  <2>1. /\ t.scan + LinesLeft(t) \in Nat /\ t.scan + LinesLeft(t) < Height
        /\ Height - (t.scan + LinesLeft(t)) \in Nat \ {0}
    BY <1>1, <1>2
  <2>. DEFINE x == t.scan + LinesLeft(t)
              y == Height - x
  <2>2. x \in Nat /\ y \in Nat \ {0} /\ V \in 1 .. V /\ x = t.imcu * LinesPerRow
    BY <1>1, <1>2, <2>1
  <2>3. v = [t EXCEPT !.scan = x, !.full = FALSE, !.rowgroup = 0, !.next = V, !.toGo = y]
    BY DEF LeaveRow, Machines
  <2>. HIDE DEF v, x
  <2>4. y = Height - x
    OBVIOUS
  <2>. HIDE DEF y
  <2>5. /\ v \in Machines /\ v.scan = x /\ v.full = FALSE /\ v.rowgroup = 0
        /\ v.next = V /\ v.toGo = y /\ v.imcu = t.imcu
    BY <2>2, <2>3 DEF Machines
  <2>. QED  BY <2>2, <2>4, <2>5
<1>. HIDE DEF v
<1>6. /\ j \in Machines /\ j.scan = v.scan + n * LinesPerRow /\ j.imcu = t.imcu + n
      /\ j.full = FALSE /\ j.rowgroup = 0 /\ j.next = V /\ j.toGo > 0
  <2>0. v.scan \in Nat
    BY <1>5 DEF Machines
  <2>1. v.scan + n * LinesPerRow \in Nat /\ t.imcu + n \in Nat
    BY <1>1, <1>3, <2>0
  <2>. QED  BY <1>5, <2>1 DEF Machines, JumpRows
<1>. HIDE DEF j
<1>7. j.scan = j.imcu * LinesPerRow /\ j.scan + rest = t.scan + lines
  <2>1. j.scan = t.imcu * LinesPerRow + n * LinesPerRow
    BY <1>5, <1>6
  <2>2. t.imcu * LinesPerRow \in Nat /\ after = lines - LinesLeft(t)
    BY <1>1, <1>2 DEF after
  <2>. QED  BY <1>1, <1>2, <1>3, <1>4, <1>6, <2>1, <2>2
<1>8. i \in Machines /\ InStep(i) /\ i.scan = t.scan + lines
  BY <1>3, <1>6, <1>7, Increments
<1>. HIDE DEF i
<1>9. r = [i EXCEPT !.out = <<>>, !.toGo = Height - i.scan]
  <2>1. ~(lines < LinesLeft(t))
    BY <1>2
  <2>2. SkipSimple(t, lines) = ToGo(i)
    BY <2>1 DEF SkipSimple, i, j, v, rest, n, after
  <2>. QED  BY <1>8, <2>2 DEF ToGo, Machines
<1>10. Height - i.scan \in Nat
  BY <1>1, <1>8
<1>. HIDE DEF r
<1>11. r \in Machines /\ InStep(r) /\ r.scan = i.scan /\ r.out = <<>> /\ r.toGo = Height - i.scan
  BY <1>8, <1>9, <1>10, Regardless
<1>. QED  BY <1>8, <1>11 DEF r

-----------------------------------------------------------------------------
(* The invariant. *)

(* A picture before its first row is in step.                                *)
LEMMA InitInStep ==
  ASSUME RowsInit, ~shape.context
  PROVE  RowsInv
<1>1. Plain
  BY DEF RowsInit, Plain
<1>2. /\ Components = {"Y"} /\ Workspace("Y") = 0 .. LinesPerRow - 1 /\ V = 2
      /\ M \in Nat \ {0} /\ LinesPerRow \in Nat \ {0} /\ Height \in Nat \ {0}
  BY <1>1, PlainFacts
<1>3. /\ d.full = FALSE /\ d.rowgroup = 0 /\ d.imcu = 0 /\ d.scan = 0 /\ d.next = V
      /\ d.toGo = Height
  BY DEF RowsInit
<1>. DEFINE work == [c \in {"Y"} |-> [w \in 0 .. LinesPerRow - 1 |-> Unset]]
            pointers == [list \in {0, 1} |-> [c \in Components |-> FunnyPointers(list, c)]]
<1>4. /\ d.which = 0 /\ d.ctx = "prepare" /\ d.avail = 0 /\ d.iMCUctr = 0 /\ d.out = <<>>
      /\ d.luma = [list |-> 0, at |-> 0] /\ d.chroma = <<>>
      /\ d = [full |-> FALSE, rowgroup |-> 0, which |-> 0, ctx |-> "prepare", avail |-> 0,
              iMCUctr |-> 0, imcu |-> 0, scan |-> 0, out |-> <<>>,
              xbuffer |-> pointers, work |-> [c \in Components |-> [w \in Workspace(c) |-> Unset]],
              next |-> V, toGo |-> Height, luma |-> [list |-> 0, at |-> 0], chroma |-> <<>>]
  BY DEF RowsInit
<1>5. pointers = Pointers
  BY <1>2 DEF Pointers
<1>6. [c \in Components |-> [w \in Workspace(c) |-> Unset]] = work
  BY <1>2
<1>7. work \in [{"Y"} -> [0 .. LinesPerRow - 1 -> Int]]
  BY DEF Unset
<1>. HIDE DEF work, pointers
<1>8. d \in Machines
  <2>1. <<>> \in Seq(Sample)
    OBVIOUS
  <2>2. 2 \in 1 .. V /\ Height \in Nat /\ [list |-> 0, at |-> 0] \in [list : {0}, at : Nat]
    BY <1>2
  <2>. QED  BY <1>2, <1>4, <1>5, <1>6, <1>7, <2>1, <2>2 DEF Machines
<1>9. InStep(d) /\ AfterRead(d)
  <2>1. FirstLine(d) = 0 /\ Given(d) = 0
    BY <1>2, <1>3 DEF FirstLine, Given
  <2>. QED  BY <1>2, <1>3, <2>1 DEF InStep, AfterRead
<1>. QED  BY <1>1, <1>2, <1>3, <1>8, <1>9 DEF RowsInv

(* What the invariant says of the next state, in terms of this one: the      *)
(* picture stays.                                                            *)
LEMMA SamePicture ==
  ASSUME Plain, UNCHANGED shape, NEW t \in Machines, d' = t, t.scan <= Height,
         t.scan < Height => /\ InStep(t) /\ t.toGo = Height - t.scan
                            /\ client'.op # "skip" => AfterRead(t)
  PROVE  RowsInv'
<1>1. Plain'
  BY DEF Plain
<1>2. Height' = Height /\ M' = M /\ LinesPerRow' = LinesPerRow
  BY DEF Height, M, LinesPerRow
<1>3. Machines' = Machines
  <2>1. Pointers' = Pointers
    BY DEF Pointers, FunnyPointers, RGroup, M, Offsets, Workspace
  <2>. QED  BY <1>2, <2>1 DEF Machines
<1>4. /\ InStep(t) => InStep(d)'
      /\ AfterRead(t) => AfterRead(d)'
  BY <1>2 DEF InStep, AfterRead, FirstLine, Given
<1>. QED  BY <1>1, <1>2, <1>3, <1>4 DEF RowsInv

(* The rows given are lines of the picture.                                  *)
LEMMA LinesGiven ==
  ASSUME Plain, UNCHANGED shape, NEW s \in Nat, NEW n \in Nat, s + n <= Height,
         d'.out = [k \in 1..n |-> Expected(s + k - 1)]
  PROVE  ([k \in 1 .. Len(d.out) |-> LineOf(d.out[k])])' = [k \in 1..n |-> s + k - 1]
<1>1. Len(d'.out) = n
  OBVIOUS
<1>2. shape.context = FALSE /\ Height \in Nat /\ Height' = Height
  BY ShapesAssumption, PlainFacts DEF Plain, Height
<1>3. \A x : Expected(x) = [y |-> x, c |-> <<>>]
  BY <1>2 DEF Expected
<1>4. \A x : Expected(x)' = [y |-> x, c |-> <<>>]
  BY <1>2 DEF Expected
<1>5. ASSUME NEW k \in 1..n
      PROVE  LineOf(d.out[k])' = s + k - 1
  <2>1. s + k - 1 \in 0 .. Height - 1
    BY <1>2
  <2>2. d'.out[k] = [y |-> s + k - 1, c |-> <<>>]
    BY <1>3
  <2>3. \A x : Expected(x)' = d'.out[k] <=> x = s + k - 1
    <3>1. \A x : Expected(x)'.y = x
      BY <1>4
    <3>2. d'.out[k].y = s + k - 1
      BY <2>2
    <3>. QED  BY <1>4, <2>2, <3>1, <3>2
  <2>. QED  BY <1>2, <2>1, <2>3 DEF LineOf
<1>. QED  BY <1>1, <1>5

(* A read keeps the invariant and gives the next lines.                      *)
LEMMA ReadStep ==
  ASSUME RowsInv, Read
  PROVE  RowsInv' /\ Reader!ReadRows
<1>1. PICK lines \in 1..MaxLines :
        /\ d.scan < Height /\ d' = ReadScanlines(d, lines) /\ UNCHANGED shape
        /\ client' = [op |-> "read", lines |-> lines, from |-> d.scan]
  BY DEF Read
<1>2. /\ Plain /\ d \in Machines /\ InStep(d) /\ d.toGo = Height - d.scan /\ lines \in Nat \ {0}
  BY <1>1, ShapesAssumption DEF RowsInv
<1>3. Height \in Nat /\ d.scan \in Nat /\ d.toGo > 0
  BY <1>1, <1>2, PlainFacts DEF Machines
<1>4. PICK n \in 1 .. lines :
        /\ d.scan + n <= Height
        /\ d' \in Machines /\ InStep(d') /\ AfterRead(d')
        /\ d'.scan = d.scan + n /\ d'.toGo = d.toGo - n
        /\ d'.out = [k \in 1..n |-> Expected(d.scan + k - 1)]
  BY <1>1, <1>2, <1>3, Reads
<1>5. RowsInv'
  <2>1. PICK t \in Machines : d' = t
    BY <1>4
  <2>2. t.scan <= Height /\ InStep(t) /\ AfterRead(t) /\ t.toGo = Height - t.scan
    BY <1>2, <1>3, <1>4, <2>1
  <2>. QED  BY <1>1, <1>2, <2>1, <2>2, SamePicture
<1>6. Reader!ReadRows
  <2>1. n \in 1 .. Height - d.scan /\ n \in Nat
    BY <1>3, <1>4
  <2>2. client'.lines = lines
    BY <1>1
  <2>3. ([k \in 1 .. Len(d.out) |-> LineOf(d.out[k])])' = [k \in 1..n |-> d.scan + k - 1]
    <3>1. PICK s \in Nat : s = d.scan
      BY <1>3
    <3>. QED  BY <1>1, <1>2, <1>4, <2>1, <3>1, LinesGiven
  <2>4. Height' = Height
    BY <1>1 DEF Height
  <2>. QED  BY <1>2, <1>4, <2>1, <2>2, <2>3, <2>4 DEF Reader!ReadRows
<1>. QED  BY <1>5, <1>6

(* A skip that leaves the iMCU row keeps the invariant and moves down by     *)
(* the lines asked for.                                                      *)
LEMMA SkipStep ==
  ASSUME RowsInv, Skip, ~SkipsAnyhow
  PROVE  RowsInv' /\ Reader!SkipRows
<1>1. PICK lines \in 0..Height :
        /\ d.scan < Height /\ d' = SkipScanlines(d, lines) /\ UNCHANGED shape
        /\ shape.context \/ SkipsAnyhow \/ (client.op # "skip" /\ lines >= LinesLeft(d))
        /\ client' = [op |-> "skip", lines |-> lines, from |-> d.scan]
  BY DEF Skip
<1>2. /\ Plain /\ d \in Machines /\ InStep(d) /\ AfterRead(d) /\ d.toGo = Height - d.scan
      /\ shape.context = FALSE /\ lines >= LinesLeft(d)
  BY <1>1, ShapesAssumption DEF RowsInv, Plain
<1>3. Height \in Nat /\ d.scan \in Nat /\ lines \in Nat
  BY <1>1, <1>2, PlainFacts DEF Machines
<1>4. <<>> \in Seq(Sample)
  OBVIOUS
<1>5. /\ d' \in Machines /\ d'.out = <<>> /\ d'.scan <= Height
      /\ d'.scan = IF d.scan + lines < Height THEN d.scan + lines ELSE Height
      /\ d'.scan < Height => InStep(d') /\ d'.toGo = Height - d'.scan
  <2>1. CASE d.scan + lines >= Height
    <3>0. lines # 0
      BY <1>1, <1>3, <2>1
    <3>1. d' = [d EXCEPT !.scan = Height, !.out = <<>>]
      BY <1>1, <1>3, <2>1, <3>0 DEF SkipScanlines
    <3>2. d' \in Machines /\ d'.scan = Height /\ d'.out = <<>>
      BY <1>2, <1>3, <1>4, <3>1 DEF Machines
    <3>. QED  BY <1>3, <2>1, <3>2
  <2>2. CASE d.scan + lines < Height /\ lines = 0
    <3>1. d' = [d EXCEPT !.out = <<>>]
      BY <1>1, <1>3, <2>2 DEF SkipScanlines
    <3>2. PICK togo \in Nat : togo = d.toGo
      BY <1>2 DEF Machines
    <3>3. d' = [d EXCEPT !.out = <<>>, !.toGo = togo]
      BY <1>2, <3>1, <3>2 DEF Machines
    <3>4. d' \in Machines /\ InStep(d') /\ d'.scan = d.scan /\ d'.out = <<>> /\ d'.toGo = togo
      BY <1>2, <3>3, Regardless
    <3>. QED  BY <1>2, <1>3, <2>2, <3>2, <3>4
  <2>3. CASE d.scan + lines < Height /\ lines # 0
    <3>1. d' = [SkipSimple(d, lines) EXCEPT !.out = <<>>]
      BY <1>1, <1>2, <1>3, <2>3 DEF SkipScanlines
    <3>2. /\ d' \in Machines /\ InStep(d') /\ d'.scan = d.scan + lines
          /\ d'.toGo = Height - d'.scan /\ d'.out = <<>>
      BY <1>2, <1>3, <2>3, <3>1, Skips
    <3>. QED  BY <1>3, <2>3, <3>2
  <2>. QED  BY <1>3, <2>1, <2>2, <2>3
<1>6. RowsInv'
  <2>1. PICK t \in Machines : d' = t
    BY <1>5
  <2>2. client'.op = "skip"
    BY <1>1
  <2>. QED  BY <1>1, <1>2, <1>5, <2>1, <2>2, SamePicture
<1>7. Reader!SkipRows
  <2>1. client'.lines = lines /\ Height' = Height
    BY <1>1 DEF Height
  <2>2. ([k \in 1 .. Len(d.out) |-> LineOf(d.out[k])])' = <<>>
    <3>1. Len(d'.out) = 0
      BY <1>5
    <3>. QED  BY <3>1
  <2>. QED  BY <1>1, <1>3, <1>5, <2>1, <2>2 DEF Reader!SkipRows
<1>. QED  BY <1>6, <1>7

-----------------------------------------------------------------------------
(* The decompressor with context rows: two lists of pointers into one        *)
(* workspace, a row group of an iMCU row waiting for the rows below it, and  *)
(* a conversion buffer filled from a row group and both its neighbours.      *)

(* A picture with context rows. *)
Mixed == shape \in Shapes /\ shape.context

(* The rows of chrominance, and those above the iMCU row in the buffer.      *)
ChromaRows == (Height + 1) \div 2
Top(t) == (t.imcu - 1) * M

(* The lists as they are made, and when they wrap around.                    *)
StartLists == [list \in {0, 1} |-> [c \in {"Y", "C"} |-> FunnyPointers(list, c)]]
WrapList(x, c) ==
  LET r == RGroup(c) IN
    [i \in Offsets(c) |->
       IF i < 0 THEN x[i + r * (M + 2)] ELSE IF i >= r * (M + 2) THEN x[i - r * (M + 2)] ELSE x[i]]
WrapLists == [list \in {0, 1} |-> [c \in {"Y", "C"} |-> WrapList(FunnyPointers(list, c), c)]]

(* What an EXCEPT of a decompressor needs.                                   *)
Machine(t) ==
  t \in [full : BOOLEAN, rowgroup : Nat, which : {0, 1}, ctx : {"prepare", "process", "postponed"},
         avail : Nat, iMCUctr : {t.imcu}, imcu : Nat, scan : Nat, out : {t.out},
         xbuffer : {t.xbuffer}, work : {t.work}, next : 1 .. V, toGo : Nat, luma : {t.luma},
         chroma : {t.chroma}]

(* The rows behind the pointers in use.                                      *)
Luma(t, i) == RowAt(t, t.which, "Y", i)
Chroma(t, g) == RowAt(t, t.which, "C", g)

(* The iMCU row in the buffer is that of the picture, as far as it goes.     *)
Body(t) ==
  /\ \A i \in 0 .. 2 * M - 1 : 2 * Top(t) + i < Height => Luma(t, i) = 2 * Top(t) + i
  /\ \A g \in 0 .. M - 1 : Top(t) + g < ChromaRows => Chroma(t, g) = Top(t) + g

(* The row group above it.                                                   *)
Above(t) == Chroma(t, -1) = Clamped(Top(t) - 1)

(* The row groups to be used have the right rows and the right neighbours,   *)
(* below the last one too.                                                   *)
Clear(t) ==
  /\ \A i \in 0 .. 2 * t.avail - 1 : 2 * Top(t) + i < Height => Luma(t, i) = 2 * Top(t) + i
  /\ \A g \in 0 .. t.avail : Chroma(t, g) = Clamped(Top(t) + g)

(* The last two row groups of the iMCU row before.                           *)
Previous(t, n) ==
  /\ \A j \in 0 .. 3 : Luma(t, 2 * M + j) = 2 * n - 4 + j
  /\ \A j \in 0 .. 1 : Chroma(t, M + j) = n - 2 + j

(* The second row of the conversion buffer is the next one.                  *)
SecondRight(t, p) == t.next = 1 /\ p < Height => Pixels(t, 1) = Expected(p)

IsLast(t) == t.imcu = TotalRows
Ongoing(t) ==
  IF IsLast(t) THEN t.avail = ChromaRows - Top(t)
  ELSE /\ t.avail = M - 1 /\ Body(t)
       /\ t.xbuffer \in {StartLists, WrapLists} /\ (t.imcu > 1 => t.xbuffer = WrapLists)

(* Where the decompressor can be when p lines of the picture were given.     *)
Fresh(t, p) ==
  /\ t.ctx = "prepare" /\ ~t.full /\ t.next = V
  /\ p = 0 /\ t.imcu = 0 /\ t.which = 0 /\ t.xbuffer = StartLists
Ready(t, p) ==
  /\ t.ctx = "prepare" /\ t.full /\ t.next = V
  /\ t.imcu > 1 /\ p = 2 * Top(t) /\ t.xbuffer = WrapLists /\ Body(t) /\ Above(t)
Working(t, p) ==
  /\ t.ctx = "process" /\ t.full
  /\ t.imcu > 0 /\ t.rowgroup < t.avail /\ p = 2 * Top(t) + 2 * t.rowgroup + Given(t)
  /\ t.rowgroup > 0 \/ t.next = 1
  /\ Clear(t) /\ Ongoing(t) /\ SecondRight(t, p)
Switched(t, p) ==
  /\ t.ctx = "postponed" /\ ~t.full /\ t.next = V /\ t.rowgroup = M + 1 /\ t.avail = M + 2
  /\ t.imcu > 0 /\ p = 2 * (t.imcu * M) - 2 /\ 2 * (t.imcu * M) < Height
  /\ t.xbuffer = WrapLists /\ Previous(t, t.imcu * M)
Postponing(t, p) ==
  /\ t.ctx = "postponed" /\ t.full /\ t.next = 1 /\ t.rowgroup = M + 1 /\ t.avail = M + 2
  /\ t.imcu > 1 /\ p = 2 * Top(t) - 1 /\ 2 * Top(t) < Height /\ t.xbuffer = WrapLists
  /\ Body(t) /\ Above(t) /\ SecondRight(t, p)

AtLine(t, p) ==
  Fresh(t, p) \/ Ready(t, p) \/ Working(t, p) \/ Switched(t, p) \/ Postponing(t, p)

MixedInv ==
  /\ Mixed
  /\ Machine(d) /\ d.scan <= Height
  /\ d.scan < Height => AtLine(d, d.scan) /\ d.toGo = Height - d.scan
(* What a picture with context rows has. *)
LEMMA MixedFacts ==
  ASSUME Mixed
  PROVE  /\ M \in Nat /\ M >= 2 /\ Height \in Nat \ {0} /\ shape.context = TRUE
         /\ Components = {"Y", "C"} /\ V = 2 /\ LinesPerRow = 2 * M
         /\ Samples("Y") = Height /\ Samples("C") = ChromaRows
         /\ ChromaRows \in Nat \ {0} /\ Height <= 2 * ChromaRows /\ 2 * ChromaRows <= Height + 1
<1>1. /\ M \in Nat /\ M >= 2 /\ Height \in Nat \ {0} /\ shape.context = TRUE
  BY ShapesAssumption DEF Mixed, M, Height
<1>2. Components = {"Y", "C"} /\ V = 2 /\ LinesPerRow = 2 * M
  BY <1>1 DEF Components, V, LinesPerRow
<1>3. Samples("Y") = Height /\ Samples("C") = ChromaRows
  BY DEF Samples, ChromaRows
<1>4. /\ Height + 1 \in Nat
      /\ Height + 1 = 2 * ((Height + 1) \div 2) + ((Height + 1) % 2)
      /\ (Height + 1) % 2 \in 0..1 /\ (Height + 1) \div 2 \in Nat
  BY <1>1, Halved
<1>. QED  BY <1>1, <1>2, <1>3, <1>4 DEF ChromaRows

(* The rows of a component in an iMCU row. *)
Depth(c) == RGroup(c) * M

(* The sizes of the lists and of the workspace, without products.            *)
LEMMA Sizes ==
  ASSUME Mixed, NEW c \in {"Y", "C"}
  PROVE  /\ RGroup(c) \in 1..2 /\ Depth(c) \in Nat /\ 2 * RGroup(c) <= Depth(c)
         /\ Offsets(c) = -RGroup(c) .. Depth(c) + 3 * RGroup(c) - 1
         /\ Workspace(c) = 0 .. Depth(c) + 2 * RGroup(c) - 1
         /\ RGroup(c) * M = Depth(c) /\ RGroup(c) * (M + 2) = Depth(c) + 2 * RGroup(c)
         /\ RGroup(c) * (M - 2) = Depth(c) - 2 * RGroup(c)
         /\ RGroup("Y") = 2 /\ RGroup("C") = 1 /\ Depth("Y") = 2 * M /\ Depth("C") = M
<1>1. M \in Nat /\ M >= 2 /\ shape.context = TRUE /\ RGroup("Y") = 2 /\ RGroup("C") = 1
  BY MixedFacts DEF RGroup, V
<1>2. Depth("Y") = 2 * M /\ Depth("C") = M
  BY <1>1 DEF Depth
<1>3. CASE c = "Y"
  BY <1>1, <1>2, <1>3 DEF Offsets, Workspace
<1>4. CASE c = "C"
  BY <1>1, <1>2, <1>4 DEF Offsets, Workspace
<1>. QED  BY <1>3, <1>4

(* Where a list leads: in the second one the last two pairs of row groups    *)
(* are swapped.                                                              *)
Place(l, r, h, i) ==
  IF l = 1 /\ i >= h - 2 * r THEN (IF i < h THEN i + 2 * r ELSE i - 2 * r) ELSE i

(* The second list is the first one, with the two pairs of groups swapped.   *)
LEMMA PlaceFacts ==
  ASSUME NEW r \in 1..2, NEW h \in Nat, 2 * r <= h, NEW l \in {0, 1}, NEW i \in 0 .. h + 2 * r - 1
  PROVE  /\ Place(l, r, h, i) \in 0 .. h + 2 * r - 1
         /\ i >= h => Place(1 - l, r, h, i) = Place(l, r, h, i - 2 * r)
BY DEF Place

(* Each place has one pointer. *)
LEMMA OnePlace ==
  ASSUME NEW r \in 1..2, NEW h \in Nat, 2 * r <= h, NEW l \in {0, 1},
         NEW i \in 0 .. h + 2 * r - 1, NEW j \in 0 .. h + 2 * r - 1,
         Place(l, r, h, i) = Place(l, r, h, j)
  PROVE  i = j
BY DEF Place

(* The lists, wrapped around or not, lead there. *)
LEMMA ListFacts ==
  ASSUME Mixed, NEW c \in {"Y", "C"}, NEW l \in {0, 1}, NEW x \in {StartLists, WrapLists},
         NEW i \in 0 .. Depth(c) + 2 * RGroup(c) - 1
  PROVE  x[l][c][i] = Place(l, RGroup(c), Depth(c), i)
<1>. DEFINE r == RGroup(c)
            h == Depth(c)
<1>1. /\ r \in 1..2 /\ h \in Nat /\ 2 * r <= h /\ Offsets(c) = -r .. h + 3 * r - 1
      /\ Workspace(c) = 0 .. h + 2 * r - 1 /\ r * M = h /\ r * (M + 2) = h + 2 * r
      /\ r * (M - 2) = h - 2 * r
  BY Sizes
<1>2. FunnyPointers(l, c) =
        [j \in Offsets(c) |->
           CASE j < 0 -> IF l = 0 THEN 0 ELSE Unset
             [] j \in Workspace(c) -> IF l = 1 /\ j >= r * (M - 2)
                                     THEN IF j < r * M THEN j + 2 * r ELSE j - 2 * r
                                     ELSE j
             [] OTHER -> Unset]
  BY DEF FunnyPointers
<1>. HIDE DEF r, h
<1>3. i \in Offsets(c) /\ i \in Int /\ i >= 0 /\ i < h + 2 * r /\ i \in Workspace(c)
  BY <1>1 DEF r, h
<1>4. FunnyPointers(l, c)[i] = Place(l, r, h, i)
  BY <1>1, <1>2, <1>3 DEF Place
<1>5. WrapList(FunnyPointers(l, c), c)[i] = FunnyPointers(l, c)[i]
  BY <1>1, <1>3 DEF WrapList, r, h
<1>6. StartLists[l][c] = FunnyPointers(l, c) /\ WrapLists[l][c] = WrapList(FunnyPointers(l, c), c)
  BY DEF StartLists, WrapLists
<1>. QED  BY <1>4, <1>5, <1>6 DEF r, h

(* The first row group is below the last, the last above the first.          *)
LEMMA WrapFacts ==
  ASSUME Mixed, NEW c \in {"Y", "C"}, NEW l \in {0, 1}, NEW k \in 0 .. RGroup(c) - 1
  PROVE  /\ WrapLists[l][c][-1 - k] = Place(l, RGroup(c), Depth(c), Depth(c) + 2 * RGroup(c) - 1 - k)
         /\ WrapLists[l][c][Depth(c) + 2 * RGroup(c) + k] = Place(l, RGroup(c), Depth(c), k)
<1>. DEFINE r == RGroup(c)
            h == Depth(c)
            f == FunnyPointers(l, c)
<1>1. /\ r \in 1..2 /\ h \in Nat /\ 2 * r <= h /\ Offsets(c) = -r .. h + 3 * r - 1
      /\ r * (M + 2) = h + 2 * r
  BY Sizes
<1>2. WrapLists[l][c] = WrapList(f, c) /\ StartLists[l][c] = f
  BY DEF WrapLists, StartLists
<1>3. ASSUME NEW i \in 0 .. h + 2 * r - 1
      PROVE  f[i] = Place(l, r, h, i)
  BY <1>2, <1>3, ListFacts
<1>4. WrapList(f, c) =
        [i \in Offsets(c) |-> IF i < 0 THEN f[i + (h + 2 * r)]
                              ELSE IF i >= h + 2 * r THEN f[i - (h + 2 * r)] ELSE f[i]]
  BY <1>1 DEF WrapList
<1>. HIDE DEF r, h, f
<1>5. k \in Int /\ 0 <= k /\ k < r
  BY <1>1 DEF r
<1>6. WrapList(f, c)[-1 - k] = f[h + 2 * r - 1 - k]
  <2>1. -1 - k \in Offsets(c) /\ -1 - k < 0 /\ -1 - k + (h + 2 * r) = h + 2 * r - 1 - k
    BY <1>1, <1>5
  <2>. QED  BY <1>4, <2>1
<1>7. WrapList(f, c)[h + 2 * r + k] = f[k]
  <2>1. PICK j \in Offsets(c) : j = h + 2 * r + k
    BY <1>1, <1>5
  <2>2. ~(j < 0) /\ j >= h + 2 * r /\ j - (h + 2 * r) = k
    BY <1>1, <1>5, <2>1
  <2>3. WrapList(f, c)[j] = f[j - (h + 2 * r)]
    BY <1>4, <2>2
  <2>. QED  BY <2>1, <2>2, <2>3
<1>8. h + 2 * r - 1 - k \in 0 .. h + 2 * r - 1 /\ k \in 0 .. h + 2 * r - 1
  BY <1>1, <1>5
<1>. QED  BY <1>2, <1>3, <1>6, <1>7, <1>8 DEF r, h

(* The row behind a pointer to the workspace. *)
LEMMA RowBehind ==
  ASSUME Mixed, NEW t, t.xbuffer \in {StartLists, WrapLists}, NEW c \in {"Y", "C"}, NEW l \in {0, 1},
         NEW i \in 0 .. Depth(c) + 2 * RGroup(c) - 1
  PROVE  RowAt(t, l, c, i) = t.work[c][Place(l, RGroup(c), Depth(c), i)]
<1>. DEFINE r == RGroup(c)
            h == Depth(c)
            w == Place(l, r, h, i)
<1>1. r \in 1..2 /\ h \in Nat /\ 2 * r <= h /\ Offsets(c) = -r .. h + 3 * r - 1
  BY Sizes
<1>2. t.xbuffer[l][c][i] = w
  BY ListFacts
<1>. HIDE DEF r, h, w
<1>3. i \in 0 .. h + 2 * r - 1
  BY DEF r, h
<1>4. w \in 0 .. h + 2 * r - 1
  BY <1>1, <1>3, PlaceFacts DEF w
<1>5. w # Unset /\ i \in Offsets(c)
  BY <1>1, <1>3, <1>4 DEF Unset
<1>. QED  BY <1>2, <1>5 DEF RowAt, w, r, h

(* The row above the first pointer and the one below the last. *)
LEMMA RowAround ==
  ASSUME Mixed, NEW t, t.xbuffer = WrapLists, NEW c \in {"Y", "C"}, NEW l \in {0, 1},
         NEW k \in 0 .. RGroup(c) - 1
  PROVE  /\ RowAt(t, l, c, -1 - k) = RowAt(t, l, c, Depth(c) + 2 * RGroup(c) - 1 - k)
         /\ RowAt(t, l, c, Depth(c) + 2 * RGroup(c) + k) = RowAt(t, l, c, k)
<1>. DEFINE r == RGroup(c)
            h == Depth(c)
<1>1. r \in 1..2 /\ h \in Nat /\ 2 * r <= h /\ Offsets(c) = -r .. h + 3 * r - 1
  BY Sizes
<1>2. /\ WrapLists[l][c][-1 - k] = Place(l, r, h, h + 2 * r - 1 - k)
      /\ WrapLists[l][c][h + 2 * r + k] = Place(l, r, h, k)
  BY WrapFacts
<1>3. ASSUME NEW i \in 0 .. h + 2 * r - 1
      PROVE  WrapLists[l][c][i] = Place(l, r, h, i)
  BY <1>3, ListFacts
<1>4. k \in Int /\ 0 <= k /\ k < r
  BY <1>1
<1>. HIDE DEF r, h
<1>5. /\ h + 2 * r - 1 - k \in 0 .. h + 2 * r - 1 /\ k \in 0 .. h + 2 * r - 1
      /\ h + 2 * r - 1 - k \in Offsets(c) /\ k \in Offsets(c)
      /\ -1 - k \in Offsets(c) /\ h + 2 * r + k \in Offsets(c)
  BY <1>1, <1>4
<1>6. /\ WrapLists[l][c][-1 - k] = WrapLists[l][c][h + 2 * r - 1 - k]
      /\ WrapLists[l][c][h + 2 * r + k] = WrapLists[l][c][k]
  BY <1>2, <1>3, <1>5
<1>7. ASSUME NEW i \in Offsets(c), NEW j \in Offsets(c), WrapLists[l][c][i] = WrapLists[l][c][j]
      PROVE  RowAt(t, l, c, i) = RowAt(t, l, c, j)
  BY <1>7 DEF RowAt
<1>8. RowAt(t, l, c, -1 - k) = RowAt(t, l, c, h + 2 * r - 1 - k)
  BY <1>5, <1>6, <1>7
<1>9. RowAt(t, l, c, h + 2 * r + k) = RowAt(t, l, c, k)
  BY <1>5, <1>6, <1>7
<1>. QED  BY <1>8, <1>9 DEF r, h

(* Lists whose workspace pointers are the same lead to the same rows.         *)
LEMMA SameRows ==
  ASSUME Mixed, NEW t, NEW u, t.xbuffer \in {StartLists, WrapLists},
         u.xbuffer \in {StartLists, WrapLists}, u.work = t.work,
         NEW c \in {"Y", "C"}, NEW l \in {0, 1}, NEW i \in 0 .. Depth(c) + 2 * RGroup(c) - 1
  PROVE  RowAt(u, l, c, i) = RowAt(t, l, c, i)
BY RowBehind

(* What Load puts behind the pointers of a component. *)
LEMMA LoadsRow ==
  ASSUME Mixed, NEW t, Machine(t), ~t.full, t.xbuffer \in {StartLists, WrapLists},
         NEW c \in {"Y", "C"}, NEW i \in 0 .. Depth(c) + 2 * RGroup(c) - 1
  PROVE  RowAt(Load(t), t.which, c, i) =
           IF i < Depth(c) THEN Decoded(t, c, i, RowAt(t, t.which, c, i)) ELSE RowAt(t, t.which, c, i)
<1>. DEFINE r == RGroup(c)
            h == Depth(c)
            l == t.which
            w == Place(l, r, h, i)
            at == {j \in 0 .. RGroup(c) * M - 1 : t.xbuffer[t.which][c][j] = w}
            Loaded(b) == [v \in Workspace(b) |->
              LET a == {j \in 0 .. RGroup(b) * M - 1 : t.xbuffer[t.which][b][j] = v} IN
                IF a = {} THEN t.work[b][v] ELSE Decoded(t, b, CHOOSE j \in a : TRUE, t.work[b][v])]
            u == Load(t)
<1>1. /\ r \in 1..2 /\ h \in Nat /\ 2 * r <= h /\ Workspace(c) = 0 .. h + 2 * r - 1
      /\ RGroup(c) * M = h /\ l \in {0, 1} /\ i \in 0 .. h + 2 * r - 1
  BY Sizes DEF Machine
<1>2. u = [t EXCEPT !.full = TRUE, !.imcu = @ + 1, !.iMCUctr = @ + 1,
                    !.work = [b \in {"Y", "C"} |-> Loaded(b)]]
  BY MixedFacts DEF Load
<1>. HIDE DEF Loaded
<1>3. u.xbuffer = t.xbuffer /\ u.work = [b \in {"Y", "C"} |-> Loaded(b)]
  <2>. HIDE DEF u
  <2>. QED  BY <1>2 DEF Machine
<1>4. RowAt(u, l, c, i) = Loaded(c)[w] /\ RowAt(t, l, c, i) = t.work[c][w]
  <2>1. u.xbuffer \in {StartLists, WrapLists}
    BY <1>3
  <2>2. u.work[c] = Loaded(c)
    <3>. HIDE DEF u
    <3>. QED  BY <1>3
  <2>. HIDE DEF u, l
  <2>3. RowAt(u, l, c, i) = u.work[c][w]
    BY <1>1, <2>1, RowBehind
  <2>4. RowAt(t, l, c, i) = t.work[c][w]
    BY <1>1, RowBehind
  <2>. QED  BY <2>2, <2>3, <2>4
<1>5. w \in Workspace(c)
  <2>. HIDE DEF r, h, l
  <2>. QED  BY <1>1, PlaceFacts
<1>6. Loaded(c)[w] = IF at = {} THEN t.work[c][w]
                     ELSE Decoded(t, c, CHOOSE j \in at : TRUE, t.work[c][w])
  <2>. HIDE DEF w
  <2>. QED  BY <1>5 DEF Loaded
<1>7. at = {j \in 0 .. h - 1 : j = i}
  <2>1. ASSUME NEW j \in 0 .. h - 1
        PROVE  t.xbuffer[t.which][c][j] = w <=> j = i
    <3>1. j \in 0 .. h + 2 * r - 1
      <4>. HIDE DEF r, h
      <4>. QED  BY <1>1
    <3>2. t.xbuffer[l][c][j] = Place(l, r, h, j)
      BY <1>1, <3>1, ListFacts
    <3>. HIDE DEF r, h
    <3>3. Place(l, r, h, j) = Place(l, r, h, i) => j = i
      <4>. HIDE DEF l
      <4>1. r \in 1..2 /\ h \in Nat /\ 2 * r <= h /\ l \in {0, 1} /\ i \in 0 .. h + 2 * r - 1
        BY <1>1
      <4>. QED  BY <3>1, <4>1, OnePlace
    <3>. QED  BY <3>2, <3>3
  <2>. HIDE DEF w
  <2>. QED  BY <1>1, <2>1
<1>. HIDE DEF at, w, r, u, l
<1>8. CASE i < h
  <2>1. at = {i}
    <3>. HIDE DEF h
    <3>. QED  BY <1>1, <1>7, <1>8
  <2>2. (CHOOSE j \in at : TRUE) = i
    BY <2>1
  <2>. QED  BY <1>4, <1>6, <1>8, <2>1, <2>2 DEF h, u, l
<1>9. CASE ~(i < h)
  <2>1. at = {}
    <3>. HIDE DEF h
    <3>. QED  BY <1>1, <1>7, <1>9
  <2>. QED  BY <1>4, <1>6, <1>9, <2>1 DEF h, u, l
<1>. QED  BY <1>8, <1>9

(* The next iMCU row is in the buffer, and what was behind it still is. *)
LEMMA LoadsMixed ==
  ASSUME Mixed, NEW t, Machine(t), ~t.full, t.xbuffer \in {StartLists, WrapLists}
  PROVE  LET u == Load(t)
         IN /\ Machine(u) /\ Body(u) /\ u.full = TRUE /\ u.imcu = t.imcu + 1
            /\ u.rowgroup = t.rowgroup /\ u.which = t.which /\ u.ctx = t.ctx /\ u.avail = t.avail
            /\ u.scan = t.scan /\ u.out = t.out /\ u.xbuffer = t.xbuffer /\ u.next = t.next
            /\ u.toGo = t.toGo /\ u.luma = t.luma /\ u.chroma = t.chroma
            /\ \A j \in 0..3 : Luma(u, 2 * M + j) = Luma(t, 2 * M + j)
            /\ \A j \in 0..1 : Chroma(u, M + j) = Chroma(t, M + j)
<1>. DEFINE u == Load(t)
            n == t.imcu
<1>1. /\ Machine(u) /\ u.full = TRUE /\ u.imcu = t.imcu + 1
      /\ u.rowgroup = t.rowgroup /\ u.which = t.which /\ u.ctx = t.ctx /\ u.avail = t.avail
      /\ u.scan = t.scan /\ u.out = t.out /\ u.xbuffer = t.xbuffer /\ u.next = t.next
      /\ u.toGo = t.toGo /\ u.luma = t.luma /\ u.chroma = t.chroma
  <2>1. PICK work : u = [t EXCEPT !.full = TRUE, !.imcu = @ + 1, !.iMCUctr = @ + 1, !.work = work]
    BY DEF Load
  <2>2. t.imcu + 1 \in Nat /\ t.iMCUctr = t.imcu
    BY DEF Machine
  <2>. HIDE DEF u
  <2>. QED  BY <2>1, <2>2 DEF Machine
<1>2. /\ n \in Nat /\ n * M \in Nat /\ M \in Nat /\ M >= 2 /\ Height \in Nat /\ ChromaRows \in Nat
      /\ Samples("Y") = Height /\ Samples("C") = ChromaRows
      /\ RGroup("Y") = 2 /\ RGroup("C") = 1 /\ Depth("Y") = 2 * M /\ Depth("C") = M
  <2>1. n \in Nat /\ M \in Nat
    BY MixedFacts DEF Machine
  <2>. HIDE DEF n
  <2>. QED  BY <2>1, MixedFacts, Sizes, ProductIsNat
<1>3. n * RGroup("Y") * M = 2 * (n * M) /\ n * RGroup("C") * M = n * M
  <2>. HIDE DEF n
  <2>. QED  BY <1>2
<1>4. Top(u) = n * M
  <2>1. u.imcu - 1 = n
    <3>. HIDE DEF u
    <3>. QED  BY <1>1, <1>2
  <2>. QED  BY <2>1 DEF Top
<1>5. ASSUME NEW c \in {"Y", "C"}, NEW i \in 0 .. Depth(c) + 2 * RGroup(c) - 1
      PROVE  RowAt(u, u.which, c, i) =
               IF i < Depth(c) THEN Decoded(t, c, i, RowAt(t, t.which, c, i)) ELSE RowAt(t, t.which, c, i)
  BY <1>1, LoadsRow
<1>. HIDE DEF u
<1>6. ASSUME NEW i \in 0 .. 2 * M - 1, 2 * (n * M) + i < Height
      PROVE  Luma(u, i) = 2 * (n * M) + i
  <2>1. i \in 0 .. Depth("Y") + 2 * RGroup("Y") - 1 /\ i < Depth("Y")
    BY <1>2
  <2>2. Luma(u, i) = Decoded(t, "Y", i, RowAt(t, t.which, "Y", i))
    BY <1>5, <2>1 DEF Luma
  <2>3. ASSUME NEW old PROVE Decoded(t, "Y", i, old) = 2 * (n * M) + i
    BY <1>2, <1>3, <1>6 DEF Decoded
  <2>. QED  BY <2>2, <2>3
<1>7. ASSUME NEW i \in 0 .. M - 1, n * M + i < ChromaRows
      PROVE  Chroma(u, i) = n * M + i
  <2>1. i \in 0 .. Depth("C") + 2 * RGroup("C") - 1 /\ i < Depth("C")
    BY <1>2
  <2>2. Chroma(u, i) = Decoded(t, "C", i, RowAt(t, t.which, "C", i))
    BY <1>5, <2>1 DEF Chroma
  <2>3. ASSUME NEW old PROVE Decoded(t, "C", i, old) = n * M + i
    BY <1>2, <1>3, <1>7 DEF Decoded
  <2>. QED  BY <2>2, <2>3
<1>8. Body(u)
  BY <1>4, <1>6, <1>7 DEF Body
<1>9. ASSUME NEW j \in 0..3 PROVE Luma(u, 2 * M + j) = Luma(t, 2 * M + j)
  <2>1. 2 * M + j \in 0 .. Depth("Y") + 2 * RGroup("Y") - 1 /\ ~(2 * M + j < Depth("Y"))
    BY <1>2
  <2>. QED  BY <1>5, <2>1 DEF Luma
<1>10. ASSUME NEW j \in 0..1 PROVE Chroma(u, M + j) = Chroma(t, M + j)
  <2>1. M + j \in 0 .. Depth("C") + 2 * RGroup("C") - 1 /\ ~(M + j < Depth("C"))
    BY <1>2
  <2>. QED  BY <1>5, <2>1 DEF Chroma
<1>. QED  BY <1>1, <1>8, <1>9, <1>10 DEF u

-----------------------------------------------------------------------------
(* Giving rows of pixels. *)

(* Rows of the picture are sequences of what Sequences knows. *)
Blend == [y : Int, c : Int \X Int]

(* A row of the picture tells its number.                                    *)
LEMMA ExpectedTyped ==
  ASSUME Mixed, NEW line \in Int
  PROVE  Expected(line) \in Blend /\ Expected(line).y = line
<1>1. shape.context = TRUE /\ Samples("C") \in Nat
  BY MixedFacts
<1>2. line \div 2 \in Int
  OBVIOUS
<1>3. ASSUME NEW i \in Int PROVE Clamped(i) \in Int
  BY <1>1 DEF Clamped, Least
<1>4. Clamped(line \div 2 + (IF line % 2 = 0 THEN -1 ELSE 1)) \in Int
  BY <1>2, <1>3
<1>. QED  BY <1>1, <1>2, <1>4 DEF Expected, Blend

(* The rows of the picture from one line up to another. *)
RowsOf(s, p) == [k \in 1 .. p - s |-> Expected(s + k - 1)]

(* Rows joined to the rows above them.                                       *)
LEMMA RowsJoined ==
  ASSUME Mixed, NEW s \in Nat, NEW p \in Nat, s <= p, NEW n \in Nat
  PROVE  /\ RowsOf(s, p) \o [k \in 1..n |-> Expected(p + k - 1)] = RowsOf(s, p + n)
         /\ Len(RowsOf(s, p)) = p - s
<1>. DEFINE a == RowsOf(s, p)
            b == [k \in 1..n |-> Expected(p + k - 1)]
            c == RowsOf(s, p + n)
            m == p - s
<1>1. m \in Nat /\ p + n - s = m + n /\ p = s + m
  OBVIOUS
<1>2. a \in Seq(Blend) /\ b \in Seq(Blend) /\ c \in Seq(Blend) /\ Len(a) = m /\ Len(b) = n /\ Len(c) = m + n
  <2>1. \A k \in 1..m : Expected(s + k - 1) \in Blend
    BY ExpectedTyped
  <2>2. \A k \in 1..n : Expected(p + k - 1) \in Blend
    BY ExpectedTyped
  <2>3. \A k \in 1 .. m + n : Expected(s + k - 1) \in Blend
    BY ExpectedTyped
  <2>4. a = [k \in 1..m |-> Expected(s + k - 1)] /\ c = [k \in 1 .. m + n |-> Expected(s + k - 1)]
    BY <1>1 DEF RowsOf
  <2>. HIDE DEF m, a, c
  <2>5. a \in Seq(Blend) /\ Len(a) = m
    BY <1>1, <2>1, <2>4
  <2>6. b \in Seq(Blend) /\ Len(b) = n
    BY <2>2
  <2>7. c \in Seq(Blend) /\ Len(c) = m + n
    BY <1>1, <2>3, <2>4
  <2>. QED  BY <2>5, <2>6, <2>7
<1>3. ASSUME NEW i \in 1 .. m + n
      PROVE  (a \o b)[i] = c[i]
  <2>1. c[i] = Expected(s + i - 1)
    BY <1>1 DEF RowsOf
  <2>2. CASE i <= m
    <3>1. (a \o b)[i] = a[i]
      <4>. HIDE DEF a, b, m
      <4>. QED  BY <1>1, <1>2, <2>2
    <3>2. a[i] = Expected(s + i - 1)
      BY <1>1, <2>2 DEF RowsOf
    <3>. QED  BY <2>1, <3>1, <3>2
  <2>3. CASE ~(i <= m)
    <3>1. (a \o b)[i] = b[i - m]
      <4>. HIDE DEF a, b, m
      <4>. QED  BY <1>1, <1>2, <2>3
    <3>2. i - m \in 1..n /\ p + (i - m) - 1 = s + i - 1
      BY <1>1, <2>3
    <3>3. b[i - m] = Expected(p + (i - m) - 1)
      <4>. HIDE DEF m
      <4>. QED  BY <3>2
    <3>. QED  BY <2>1, <3>1, <3>2, <3>3
  <2>. QED  BY <2>2, <2>3
<1>4. a \o b = c
  <2>. HIDE DEF a, b, c, m
  <2>1. a \o b \in Seq(Blend) /\ Len(a \o b) = m + n
    BY <1>1, <1>2
  <2>2. \A i \in 1 .. Len(a \o b) : (a \o b)[i] = c[i]
    BY <1>3, <2>1
  <2>. QED  BY <1>2, <2>1, <2>2, SeqEqual
<1>. QED  BY <1>2, <1>4

(* The conversion buffer that the next rows are taken from, when context is  *)
(* needed.                                                                   *)
Conv(t) == IF t.next >= V THEN Fill(t) ELSE t

(* Of a row group in use one row was given at most.                          *)
LEMMA GivenFacts ==
  ASSUME Mixed, NEW t, Machine(t)
  PROVE  /\ Given(t) \in 0..1 /\ (Given(t) = 0 => t.next = V)
         /\ (Given(t) # 0 => t.next = 1 /\ Conv(t) = t)
<1>1. V = 2 /\ t.next \in 1..2
  BY MixedFacts DEF Machine
<1>. QED  BY <1>1 DEF Given, Conv

(* The conversion buffer is filled when no row of the group was given.       *)
LEMMA Converts ==
  ASSUME Mixed, NEW t, Machine(t)
  PROVE  /\ Conv(t) = [t EXCEPT !.next = Given(t), !.luma = Conv(t).luma, !.chroma = Conv(t).chroma]
         /\ Given(t) = 0 =>
              /\ Conv(t).luma = [list |-> t.which, at |-> t.rowgroup * V]
              /\ Conv(t).chroma = <<<<Chroma(t, t.rowgroup + 0), Chroma(t, t.rowgroup + (-1))>>,
                                    <<Chroma(t, t.rowgroup + 0), Chroma(t, t.rowgroup + 1)>>>>
<1>1. V = 2 /\ t.next \in 1..2 /\ shape.context = TRUE
  BY MixedFacts DEF Machine
<1>2. CASE t.next = 2
  <2>1. Given(t) = 0 /\ Conv(t) = Fill(t)
    BY <1>1, <1>2 DEF Given, Conv
  <2>2. PICK chroma : /\ chroma = <<<<Chroma(t, t.rowgroup + 0), Chroma(t, t.rowgroup + (-1))>>,
                                    <<Chroma(t, t.rowgroup + 0), Chroma(t, t.rowgroup + 1)>>>>
    OBVIOUS
  <2>3. Fill(t) = [t EXCEPT !.next = 0, !.luma = [list |-> t.which, at |-> t.rowgroup * V],
                            !.chroma = chroma]
    BY <1>1, <2>2 DEF Fill, Chroma
  <2>4. Conv(t).luma = [list |-> t.which, at |-> t.rowgroup * V] /\ Conv(t).chroma = chroma
    BY <2>1, <2>3 DEF Machine
  <2>. QED  BY <1>1, <1>2, <2>1, <2>2, <2>3, <2>4
<1>3. CASE t.next = 1
  <2>1. Given(t) = 1 /\ Conv(t) = t
    BY <1>1, <1>3 DEF Given, Conv
  <2>2. t = [t EXCEPT !.next = t.next, !.luma = t.luma, !.chroma = t.chroma]
    BY DEF Machine
  <2>. QED  BY <1>3, <2>1, <2>2
<1>. QED  BY <1>1, <1>2, <1>3

(* What the upsampler changes. *)
Gave(t, r, n) ==
  /\ Machine(r) /\ n <= t.toGo /\ Given(t) + n \in 1..2 /\ r.next = Given(t) + n /\ r.toGo = t.toGo - n
  /\ r.rowgroup = IF Given(t) + n = 2 THEN t.rowgroup + 1 ELSE t.rowgroup
  /\ r.full = t.full /\ r.which = t.which /\ r.ctx = t.ctx /\ r.avail = t.avail /\ r.imcu = t.imcu
  /\ r.scan = t.scan /\ r.xbuffer = t.xbuffer /\ r.work = t.work

(* What the upsampler gives, and what it leaves.                             *)
LEMMA UpsampleGives ==
  ASSUME Mixed, NEW t, Machine(t), NEW S, t.out \in Seq(S), NEW room \in Nat, Len(t.out) < room,
         t.toGo > 0
  PROVE  LET r == Upsample(t, room)
         IN \E n \in 1..2 :
              /\ Gave(t, r, n) /\ n <= room - Len(t.out)
              /\ r.out = t.out \o [k \in 1..n |-> Pixels(Conv(t), Given(t) + k - 1)]
              /\ r.luma = Conv(t).luma /\ r.chroma = Conv(t).chroma
<1>. DEFINE u == Conv(t)
            g == Given(t)
            x == room - Len(t.out)
            n == Least(Least(V - g, t.toGo), x)
            r == Upsample(t, room)
            b == [k \in 1..n |-> Pixels(u, g + k - 1)]
<1>1. /\ g \in 0..1 /\ V = 2 /\ t.toGo \in Nat /\ Len(t.out) \in Nat /\ x \in Nat \ {0}
      /\ u = [t EXCEPT !.next = g, !.luma = u.luma, !.chroma = u.chroma]
  <2>1. Len(t.out) \in Nat
    BY LenProperties
  <2>2. V = 2 /\ t.toGo \in Nat
    BY MixedFacts DEF Machine
  <2>3. g \in 0..1 /\ u = [t EXCEPT !.next = g, !.luma = u.luma, !.chroma = u.chroma]
    BY Converts, GivenFacts
  <2>. HIDE DEF u, g
  <2>. QED  BY <2>1, <2>2, <2>3
<1>2. /\ u.next = g /\ u.out = t.out /\ u.toGo = t.toGo /\ u.rowgroup = t.rowgroup
  <2>. HIDE DEF u, g
  <2>. QED  BY <1>1 DEF Machine
<1>3. n \in 1..2 /\ n <= x /\ n <= t.toGo /\ g + n \in 1..2
  <2>1. V - g \in 1..2
    BY <1>1
  <2>. DEFINE y == V - g
  <2>. HIDE DEF g, x, y
  <2>2. y \in 1..2 /\ t.toGo \in Nat \ {0} /\ x \in Nat \ {0}
    BY <1>1, <2>1 DEF y
  <2>3. Least(y, t.toGo) \in 1..2 /\ Least(y, t.toGo) <= y /\ Least(y, t.toGo) <= t.toGo
    BY <2>2 DEF Least
  <2>4. n = Least(Least(y, t.toGo), x)
    BY DEF y
  <2>. HIDE DEF n
  <2>5. n \in 1..2 /\ n <= x /\ n <= t.toGo /\ n <= y
    BY <2>2, <2>3, <2>4 DEF Least
  <2>. QED  BY <1>1, <2>5 DEF y
<1>4. r = Deliver(u, n)
  <2>1. r = DeliverUpTo(u, room)
    BY DEF Upsample, Conv
  <2>. HIDE DEF u, r
  <2>. QED  BY <1>2, <2>1 DEF DeliverUpTo
<1>5. b = [k \in 1..n |-> Pixels(u, u.next + k - 1)]
  BY <1>2
<1>. HIDE DEF u, g, n, b, r
<1>6. r = [t EXCEPT !.out = t.out \o b, !.toGo = t.toGo - n, !.next = g + n, !.luma = u.luma,
                    !.chroma = u.chroma,
                    !.rowgroup = IF g + n >= V THEN t.rowgroup + 1 ELSE t.rowgroup]
  <2>1. r = [u EXCEPT !.out = u.out \o b, !.toGo = @ - n, !.next = @ + n,
                      !.rowgroup = IF g + n >= V THEN @ + 1 ELSE @]
    BY <1>2, <1>4, <1>5 DEF Deliver
  <2>2. PICK lu, ch : lu = u.luma /\ ch = u.chroma
    OBVIOUS
  <2>3. u = [t EXCEPT !.next = g, !.luma = lu, !.chroma = ch]
    BY <1>1, <2>2
  <2>4. r = [t EXCEPT !.out = t.out \o b, !.toGo = t.toGo - n, !.next = g + n, !.luma = lu,
                      !.chroma = ch,
                      !.rowgroup = IF g + n >= V THEN t.rowgroup + 1 ELSE t.rowgroup]
    BY <1>2, <2>1, <2>3 DEF Machine
  <2>. QED  BY <2>2, <2>4
<1>7. t.toGo - n \in Nat /\ t.rowgroup + 1 \in Nat /\ t.rowgroup \in Nat
  BY <1>1, <1>3 DEF Machine
<1>8. PICK rg \in Nat : /\ rg = IF g + n >= V THEN t.rowgroup + 1 ELSE t.rowgroup
                        /\ rg = IF g + n = 2 THEN t.rowgroup + 1 ELSE t.rowgroup
  BY <1>1, <1>3, <1>7
<1>9. Machine(r) /\ r.out = t.out \o b /\ r.luma = u.luma /\ r.chroma = u.chroma
      /\ r.toGo = t.toGo - n /\ r.next = g + n /\ r.rowgroup = rg
      /\ r.full = t.full /\ r.which = t.which /\ r.ctx = t.ctx /\ r.avail = t.avail /\ r.imcu = t.imcu
      /\ r.scan = t.scan /\ r.xbuffer = t.xbuffer /\ r.work = t.work
  <2>0. PICK lu, ch : lu = u.luma /\ ch = u.chroma
    OBVIOUS
  <2>1. PICK a \in Nat : a = t.toGo - n
    BY <1>7
  <2>2. PICK y \in 1..2 : y = g + n
    BY <1>1, <1>3
  <2>3. r = [t EXCEPT !.out = t.out \o b, !.toGo = a, !.next = y, !.luma = lu, !.chroma = ch,
                      !.rowgroup = rg]
    BY <1>6, <1>8, <2>1, <2>2, <2>0
  <2>. HIDE DEF x
  <2>4. /\ r.out = t.out \o b /\ r.luma = lu /\ r.chroma = ch /\ r.toGo = a /\ r.next = y
        /\ r.rowgroup = rg
        /\ r.full = t.full /\ r.which = t.which /\ r.ctx = t.ctx /\ r.avail = t.avail
        /\ r.imcu = t.imcu /\ r.scan = t.scan /\ r.xbuffer = t.xbuffer /\ r.work = t.work
    <3>1. DOMAIN t = {"full", "rowgroup", "which", "ctx", "avail", "iMCUctr", "imcu", "scan", "out",
                      "xbuffer", "work", "next", "toGo", "luma", "chroma"}
      BY DEF Machine
    <3>. QED  BY <2>3, <3>1
  <2>5. Machine(r)
    <3>1. PICK ob : ob = t.out \o b
      OBVIOUS
    <3>2. PICK next : next = y /\ next \in 1 .. V
      BY <1>1
    <3>3. r = [t EXCEPT !.out = ob, !.toGo = a, !.next = next, !.luma = lu, !.chroma = ch,
                        !.rowgroup = rg]
      BY <2>3, <3>1, <3>2
    <3>4. r \in [full : BOOLEAN, rowgroup : Nat, which : {0, 1},
                 ctx : {"prepare", "process", "postponed"}, avail : Nat, iMCUctr : {t.imcu},
                 imcu : Nat, scan : Nat, out : {ob}, xbuffer : {t.xbuffer}, work : {t.work},
                 next : 1 .. V, toGo : Nat, luma : {lu}, chroma : {ch}]
      BY <3>2, <3>3 DEF Machine
    <3>. QED  BY <2>4, <3>1, <3>4 DEF Machine
  <2>. QED  BY <2>0, <2>1, <2>2, <2>4, <2>5
<1>10. Gave(t, r, n)
  BY <1>3, <1>8, <1>9 DEF Gave, g
<1>11. b = [k \in 1..n |-> Pixels(Conv(t), Given(t) + k - 1)]
  BY DEF b, u, g
<1>. QED  BY <1>3, <1>9, <1>10, <1>11 DEF u, r, x

(* The row group to be used is that of two lines of the picture.             *)
Group(t, e) ==
  /\ \A k \in 0..1 : 2 * e + k < Height => Luma(t, 2 * t.rowgroup + k) = 2 * e + k
  /\ Chroma(t, t.rowgroup) = e
  /\ Chroma(t, t.rowgroup + 1) = Clamped(e + 1)
AboveGroup(t, e) == Chroma(t, t.rowgroup - 1) = Clamped(e - 1)

(* The lines made of a row group. *)
LEMMA TwoLines ==
  ASSUME Mixed, NEW e \in Nat
  PROVE  /\ Expected(2 * e) = [y |-> 2 * e, c |-> <<e, Clamped(e - 1)>>]
         /\ Expected(2 * e + 1) = [y |-> 2 * e + 1, c |-> <<e, Clamped(e + 1)>>]
<1>1. shape.context = TRUE
  BY MixedFacts
<1>2. (2 * e) \div 2 = e /\ (2 * e) % 2 = 0
  <2>1. 2 * e = 2 * ((2 * e) \div 2) + ((2 * e) % 2) /\ (2 * e) % 2 \in 0..1 /\ (2 * e) \div 2 \in Nat
    BY Halved
  <2>. QED  BY <2>1
<1>3. (2 * e + 1) \div 2 = e /\ (2 * e + 1) % 2 = 1
  <2>1. /\ 2 * e + 1 = 2 * ((2 * e + 1) \div 2) + ((2 * e + 1) % 2)
        /\ (2 * e + 1) % 2 \in 0..1 /\ (2 * e + 1) \div 2 \in Nat
    BY Halved
  <2>. QED  BY <2>1
<1>4. e + (-1) = e - 1
  OBVIOUS
<1>. QED  BY <1>1, <1>2, <1>3, <1>4 DEF Expected

(* A filled conversion buffer has the rows of the picture.                   *)
LEMMA ConvRight ==
  ASSUME Mixed, NEW t, Machine(t), NEW e \in Nat, Given(t) = 0 => Group(t, e),
         SecondRight(t, 2 * e + 1), NEW k \in 0..1, k >= Given(t), 2 * e + k < Height, k = 0 => AboveGroup(t, e)
  PROVE  Pixels(Conv(t), k) = Expected(2 * e + k)
<1>0. Given(t) \in 0..1 /\ V = 2 /\ shape.context = TRUE /\ t.rowgroup \in Nat
  BY GivenFacts, MixedFacts DEF Machine
<1>1. CASE Given(t) # 0
  <2>1. t.next = 1 /\ k = 1 /\ Conv(t) = t
    BY <1>0, <1>1, GivenFacts
  <2>. QED  BY <2>1 DEF SecondRight
<1>2. CASE Given(t) = 0
  <2>. DEFINE u == Conv(t)
              rg == t.rowgroup
  <2>1. /\ u = [t EXCEPT !.next = 0, !.luma = u.luma, !.chroma = u.chroma]
        /\ u.luma = [list |-> t.which, at |-> rg * V]
        /\ u.chroma = <<<<Chroma(t, rg + 0), Chroma(t, rg + (-1))>>,
                        <<Chroma(t, rg + 0), Chroma(t, rg + 1)>>>>
    BY <1>2, Converts
  <2>. HIDE DEF u
  <2>2. u.xbuffer = t.xbuffer /\ u.work = t.work
    BY <2>1 DEF Machine
  <2>3. u.luma.list = t.which /\ u.luma.at + k = 2 * rg + k /\ rg + 0 = rg /\ rg + (-1) = rg - 1
    BY <1>0, <2>1
  <2>4. RowAt(u, t.which, "Y", 2 * rg + k) = Luma(t, 2 * rg + k)
    BY <2>2 DEF RowAt, Luma
  <2>5. Luma(t, 2 * rg + k) = 2 * e + k
    BY <1>2 DEF Group
  <2>6. Pixels(u, k) = [y |-> RowAt(u, u.luma.list, "Y", u.luma.at + k), c |-> u.chroma[k + 1]]
    BY <1>0 DEF Pixels
  <2>7. Pixels(u, k) = [y |-> 2 * e + k, c |-> u.chroma[k + 1]]
    BY <2>3, <2>4, <2>5, <2>6
  <2>8. CASE k = 0
    <3>1. u.chroma[k + 1] = <<Chroma(t, rg), Chroma(t, rg - 1)>>
      <4>1. k + 1 = 1
        BY <2>8
      <4>. QED  BY <2>1, <2>3, <4>1
    <3>2. Chroma(t, rg) = e /\ Chroma(t, rg - 1) = Clamped(e - 1) /\ 2 * e + k = 2 * e
      BY <1>2, <2>8 DEF Group, AboveGroup
    <3>. QED  BY <2>7, <3>1, <3>2, TwoLines DEF u
  <2>9. CASE k = 1
    <3>1. u.chroma[k + 1] = <<Chroma(t, rg), Chroma(t, rg + 1)>>
      <4>1. k + 1 = 2
        BY <2>9
      <4>. QED  BY <2>1, <2>3, <4>1
    <3>2. Chroma(t, rg) = e /\ Chroma(t, rg + 1) = Clamped(e + 1)
      BY <1>2 DEF Group
    <3>. QED  BY <2>7, <2>9, <3>1, <3>2, TwoLines DEF u
  <2>. QED  BY <2>8, <2>9
<1>. QED  BY <1>1, <1>2

(* The pixels of a row depend on the lists, the workspace and the buffer.    *)
LEMMA SamePixels ==
  ASSUME NEW t, NEW u, NEW k, u.xbuffer = t.xbuffer, u.work = t.work, u.luma = t.luma,
         u.chroma = t.chroma
  PROVE  Pixels(u, k) = Pixels(t, k)
BY DEF Pixels, RowAt

(* Rows of the picture are a sequence.                                       *)
LEMMA RowsTyped ==
  ASSUME Mixed, NEW s \in Nat, NEW m \in Nat
  PROVE  /\ [k \in 1..m |-> Expected(s + k - 1)] \in Seq(Blend)
         /\ Len([k \in 1..m |-> Expected(s + k - 1)]) = m
<1>1. \A k \in 1..m : Expected(s + k - 1) \in Blend
  BY ExpectedTyped
<1>. QED  BY <1>1

(* There are as many as there are lines.                                     *)
LEMMA RowsLength ==
  ASSUME Mixed, NEW s \in Nat, NEW p \in Nat, s <= p
  PROVE  Len(RowsOf(s, p)) = p - s
<1>1. PICK m \in Nat : m = p - s
  OBVIOUS
<1>. QED  BY <1>1, RowsTyped DEF RowsOf

(* What the upsampler gives are the next rows of the picture, and the rest   *)
(* of the row group is the row after them.                                   *)
LEMMA UpsamplesMixed ==
  ASSUME Mixed, NEW t, Machine(t), NEW e \in Nat, Given(t) = 0 => Group(t, e),
         SecondRight(t, 2 * e + 1),
         NEW s \in Nat, NEW p \in Nat, p = 2 * e + Given(t), s <= p, p < Height,
         t.out = RowsOf(s, p), NEW room \in Nat, p - s < room,
         t.toGo > 0, t.toGo = Height - p \/ room = 1, AboveGroup(t, e) \/ Given(t) = 1
  PROVE  LET r == Upsample(t, room)
         IN \E n \in 1..2 : /\ Gave(t, r, n) /\ p + n <= Height /\ p + n - s <= room
                            /\ r.out = RowsOf(s, p + n) /\ SecondRight(r, 2 * e + 1)
<1>. DEFINE r == Upsample(t, room)
            u == Conv(t)
            g == Given(t)
<1>0. Height \in Nat /\ g \in 0..1 /\ V = 2
  BY MixedFacts, GivenFacts
<1>1. t.out \in Seq(Blend) /\ Len(t.out) = p - s
  <2>1. PICK m \in Nat : m = p - s
    OBVIOUS
  <2>2. t.out = [k \in 1..m |-> Expected(s + k - 1)]
    BY <2>1 DEF RowsOf
  <2>. QED  BY <2>1, <2>2, RowsTyped
<1>2. PICK n \in 1..2 :
        /\ Gave(t, r, n) /\ n <= room - Len(t.out)
        /\ r.out = t.out \o [k \in 1..n |-> Pixels(u, g + k - 1)]
        /\ r.luma = u.luma /\ r.chroma = u.chroma
  BY <1>1, UpsampleGives
<1>. HIDE DEF r
<1>3. n <= t.toGo /\ g + n \in 1..2 /\ r.next = g + n /\ r.xbuffer = t.xbuffer /\ r.work = t.work
  BY <1>2 DEF Gave
<1>4. p + n <= Height /\ p + n - s <= room
  <2>. HIDE DEF g
  <2>1. n <= room - (p - s) /\ n \in 1..2
    BY <1>1, <1>2
  <2>. QED  BY <1>0, <1>3, <2>1
<1>5. ASSUME NEW k \in 0..1, k >= g, 2 * e + k < Height
      PROVE  Pixels(u, k) = Expected(2 * e + k)
  <2>1. k = 0 => AboveGroup(t, e)
    BY <1>0, <1>5
  <2>. QED  BY <1>5, <2>1, ConvRight
<1>6. [k \in 1..n |-> Pixels(u, g + k - 1)] = [k \in 1..n |-> Expected(p + k - 1)]
  <2>. HIDE DEF u, g
  <2>1. ASSUME NEW k \in 1..n
        PROVE  Pixels(u, g + k - 1) = Expected(p + k - 1)
    <3>1. PICK x \in 0..1 : x = g + k - 1
      BY <1>0, <1>2, <1>3
    <3>2. x >= g /\ 2 * e + x = p + k - 1 /\ 2 * e + x < Height
      BY <1>0, <1>4, <3>1 DEF g
    <3>3. Pixels(u, x) = Expected(2 * e + x)
      BY <1>5, <3>2
    <3>. QED  BY <3>1, <3>2, <3>3
  <2>. QED  BY <2>1
<1>7. r.out = RowsOf(s, p + n)
  <2>1. n \in Nat
    BY <1>2
  <2>2. r.out = t.out \o [k \in 1..n |-> Expected(p + k - 1)]
    <3>. HIDE DEF u, g
    <3>. QED  BY <1>2, <1>6
  <2>3. RowsOf(s, p) \o [k \in 1..n |-> Expected(p + k - 1)] = RowsOf(s, p + n)
    BY <2>1, RowsJoined
  <2>. QED  BY <2>2, <2>3
<1>8. SecondRight(r, 2 * e + 1)
  <2>1. ASSUME r.next = 1, 2 * e + 1 < Height
        PROVE  Pixels(r, 1) = Expected(2 * e + 1)
    <3>1. g = 0
      BY <1>0, <1>2, <1>3, <2>1
    <3>2. Pixels(u, 1) = Expected(2 * e + 1)
      BY <1>5, <2>1, <3>1
    <3>3. u.xbuffer = t.xbuffer /\ u.work = t.work
      <4>1. u = [t EXCEPT !.next = g, !.luma = u.luma, !.chroma = u.chroma]
        BY Converts
      <4>. HIDE DEF u
      <4>. QED  BY <4>1 DEF Machine
    <3>4. Pixels(r, 1) = Pixels(u, 1)
      <4>. HIDE DEF u
      <4>1. r.xbuffer = u.xbuffer /\ r.work = u.work /\ r.luma = u.luma /\ r.chroma = u.chroma
        BY <1>2, <1>3, <3>3
      <4>. QED  BY <4>1, SamePixels
    <3>. QED  BY <3>2, <3>4
  <2>. QED  BY <2>1 DEF SecondRight
<1>. QED  BY <1>2, <1>4, <1>7, <1>8 DEF r

(* The row given first after a jump may have the wrong neighbour, but it is  *)
(* given, and the row after it is right.                                     *)
LEMMA UpsamplesJumped ==
  ASSUME Mixed, NEW t, Machine(t), NEW e \in Nat, Group(t, e), t.next = V, t.out = <<>>, t.toGo > 0
  PROVE  LET r == Upsample(t, 1)
         IN Gave(t, r, 1) /\ Len(r.out) = 1 /\ SecondRight(r, 2 * e + 1)
<1>. DEFINE r == Upsample(t, 1)
            u == Conv(t)
            S == {Pixels(u, 0)}
<1>0. V = 2 /\ Given(t) = 0
  BY MixedFacts DEF Given
<1>1. t.out \in Seq(S) /\ Len(t.out) = 0
  OBVIOUS
<1>2. PICK n \in 1..2 :
        /\ Gave(t, r, n) /\ n <= 1 - Len(t.out)
        /\ r.out = t.out \o [k \in 1..n |-> Pixels(u, Given(t) + k - 1)]
        /\ r.luma = u.luma /\ r.chroma = u.chroma
  <2>. HIDE DEF S
  <2>1. PICK room \in Nat : room = 1
    OBVIOUS
  <2>2. Len(t.out) < room
    BY <1>1, <2>1
  <2>3. LET q == Upsample(t, room)
        IN \E n \in 1..2 :
             /\ Gave(t, q, n) /\ n <= room - Len(t.out)
             /\ q.out = t.out \o [k \in 1..n |-> Pixels(Conv(t), Given(t) + k - 1)]
             /\ q.luma = Conv(t).luma /\ q.chroma = Conv(t).chroma
    BY <1>1, <2>2, UpsampleGives
  <2>. QED  BY <2>1, <2>3
<1>. HIDE DEF r
<1>3. n = 1
  BY <1>1, <1>2
<1>4. Len(r.out) = 1
  <2>1. [k \in 1..n |-> Pixels(u, Given(t) + k - 1)] = [k \in 1..1 |-> Pixels(u, 0)]
    BY <1>0, <1>3
  <2>2. [k \in 1..1 |-> Pixels(u, 0)] \in Seq(S) /\ Len([k \in 1..1 |-> Pixels(u, 0)]) = 1
    <3>. HIDE DEF u
    <3>. QED  OBVIOUS
  <2>. HIDE DEF S
  <2>3. Len(t.out \o [k \in 1..1 |-> Pixels(u, 0)]) = 0 + 1
    BY <1>1, <2>2, ConcatProperties
  <2>. QED  BY <1>2, <2>1, <2>3
<1>5. SecondRight(r, 2 * e + 1)
  <2>1. ASSUME 2 * e + 1 < Height
        PROVE  Pixels(r, 1) = Expected(2 * e + 1)
    <3>1. Pixels(u, 1) = Expected(2 * e + 1)
      <4>1. SecondRight(t, 2 * e + 1)
        BY <1>0 DEF SecondRight
      <4>2. PICK k \in 0..1 : k = 1
        OBVIOUS
      <4>3. 2 * e + k < Height /\ k >= Given(t) /\ (k = 0 => AboveGroup(t, e))
        BY <1>0, <2>1, <4>2
      <4>4. Pixels(Conv(t), k) = Expected(2 * e + k)
        BY <4>1, <4>3, ConvRight
      <4>. QED  BY <4>2, <4>4
    <3>2. u.xbuffer = t.xbuffer /\ u.work = t.work
      <4>1. u = [t EXCEPT !.next = Given(t), !.luma = u.luma, !.chroma = u.chroma]
        BY Converts
      <4>. HIDE DEF u
      <4>. QED  BY <4>1 DEF Machine
    <3>3. Pixels(r, 1) = Pixels(u, 1)
      <4>. HIDE DEF u
      <4>1. r.xbuffer = u.xbuffer /\ r.work = u.work /\ r.luma = u.luma /\ r.chroma = u.chroma
        BY <1>2, <3>2 DEF Gave
      <4>. QED  BY <4>1, SamePixels
    <3>. QED  BY <3>1, <3>3
  <2>. QED  BY <2>1 DEF SecondRight
<1>. QED  BY <1>2, <1>3, <1>4, <1>5 DEF r

-----------------------------------------------------------------------------
(* The last iMCU row, and the pointers that are changed on the way.          *)

(* The last iMCU row is the one that the picture ends in. *)
LEMMA LastRow ==
  ASSUME Mixed, NEW n \in Nat, 2 * (n * M) < Height
  PROVE  n + 1 = TotalRows <=> Height <= 2 * (n * M) + 2 * M
<1>. DEFINE L == 2 * M
            a == Height + L - 1
            q == a \div L
            b == n * L
<1>1. M \in Nat /\ M >= 2 /\ Height \in Nat /\ LinesPerRow = L /\ L \in Nat \ {0} /\ a \in Nat
  BY MixedFacts
<1>2. TotalRows = q
  BY <1>1 DEF TotalRows
<1>3. b = 2 * (n * M) /\ b \in Nat
  BY <1>1, ProductIsNat
<1>. HIDE DEF L, q, b
<1>4. q \in Nat /\ q * L <= a /\ a < q * L + L
  BY <1>1, Quotient DEF q
<1>5. q * L \in Nat /\ (q + 1) * L = q * L + L /\ (n + 1) * L = b + L /\ (n + 2) * L = b + L + L
  <2>1. q * L \in Nat
    BY <1>1, <1>4, ProductIsNat
  <2>2. (q + 1) * L = q * L + 1 * L
    BY <1>1, <1>4, SumTimes
  <2>3. (n + 1) * L = n * L + 1 * L
    BY <1>1, SumTimes
  <2>4. (n + 2) * L = n * L + 2 * L
    BY <1>1, SumTimes
  <2>5. 1 * L = L /\ 2 * L = L + L
    BY <1>1
  <2>6. n * L = b
    BY DEF b
  <2>7. (n + 2) * L = b + L + L
    <3>1. (n + 2) * L = b + (L + L)
      BY <2>4, <2>5, <2>6
    <3>. QED  BY <1>1, <1>3, <3>1
  <2>. QED  BY <2>1, <2>2, <2>3, <2>5, <2>6, <2>7
<1>6. ASSUME n + 1 = q
      PROVE  Height <= b + L
  BY <1>1, <1>3, <1>4, <1>5, <1>6
<1>7. ASSUME Height <= b + L
      PROVE  n + 1 = q
  <2>1. q * L < (n + 2) * L /\ (n + 1) * L < (q + 1) * L
    BY <1>1, <1>3, <1>4, <1>5, <1>7
  <2>2. q < n + 2 /\ n + 1 < q + 1
    BY <1>1, <1>4, <2>1, CancelFactor
  <2>. QED  BY <1>4, <2>2
<1>. QED  BY <1>2, <1>3, <1>6, <1>7 DEF L

(* Pointers wrapped around stay as they are when they are again. *)
LEMMA WrapTwice ==
  ASSUME Mixed, NEW c \in {"Y", "C"}, NEW f
  PROVE  WrapList(WrapList(f, c), c) = WrapList(f, c)
<1>. DEFINE r == RGroup(c)
            h == Depth(c)
            x == WrapList(f, c)
<1>1. /\ r \in 1..2 /\ h \in Nat /\ 2 * r <= h /\ Offsets(c) = -r .. h + 3 * r - 1
      /\ r * (M + 2) = h + 2 * r
  BY Sizes
<1>2. ASSUME NEW g
      PROVE  WrapList(g, c) =
        [i \in Offsets(c) |-> IF i < 0 THEN g[i + (h + 2 * r)]
                              ELSE IF i >= h + 2 * r THEN g[i - (h + 2 * r)] ELSE g[i]]
  BY <1>1 DEF WrapList
<1>. HIDE DEF r, h, x
<1>3. ASSUME NEW i \in Offsets(c)
      PROVE  (IF i < 0 THEN x[i + (h + 2 * r)]
              ELSE IF i >= h + 2 * r THEN x[i - (h + 2 * r)] ELSE x[i]) = x[i]
  <2>1. CASE i < 0
    <3>1. PICK j \in Offsets(c) : j = i + (h + 2 * r)
      BY <1>1, <2>1
    <3>2. ~(j < 0) /\ ~(j >= h + 2 * r)
      BY <1>1, <2>1, <3>1
    <3>3. x[j] = f[j]
      BY <1>2, <3>2 DEF x
    <3>4. x[i] = f[j]
      BY <1>2, <2>1, <3>1 DEF x
    <3>. QED  BY <2>1, <3>1, <3>3, <3>4
  <2>2. CASE ~(i < 0) /\ i >= h + 2 * r
    <3>1. PICK j \in Offsets(c) : j = i - (h + 2 * r)
      BY <1>1, <2>2
    <3>2. ~(j < 0) /\ ~(j >= h + 2 * r)
      BY <1>1, <2>2, <3>1
    <3>3. x[j] = f[j]
      BY <1>2, <3>2 DEF x
    <3>4. x[i] = f[j]
      BY <1>2, <2>2, <3>1 DEF x
    <3>. QED  BY <2>2, <3>1, <3>3, <3>4
  <2>. QED  BY <2>1, <2>2
<1>4. WrapList(x, c) = [i \in Offsets(c) |-> x[i]]
  BY <1>2, <1>3
<1>5. x = [i \in Offsets(c) |-> x[i]]
  BY DEF x, WrapList
<1>. QED  BY <1>4, <1>5 DEF x

(* Wrapping around, the first time and again, makes the same lists.          *)
LEMMA Wraps ==
  ASSUME Mixed, NEW t, t.xbuffer \in {StartLists, WrapLists}
  PROVE  SetWraparound(t) = [t EXCEPT !.xbuffer = WrapLists]
<1>. DEFINE y == [list \in {0, 1} |-> [c \in {"Y", "C"} |-> WrapList(t.xbuffer[list][c], c)]]
<1>1. SetWraparound(t) = [t EXCEPT !.xbuffer = y]
  BY MixedFacts DEF SetWraparound, WrapList
<1>2. ASSUME NEW list \in {0, 1}, NEW c \in {"Y", "C"}
      PROVE  WrapList(t.xbuffer[list][c], c) = WrapList(FunnyPointers(list, c), c)
  <2>1. CASE t.xbuffer = StartLists
    BY <2>1 DEF StartLists
  <2>2. CASE t.xbuffer = WrapLists
    <3>1. t.xbuffer[list][c] = WrapList(FunnyPointers(list, c), c)
      BY <2>2 DEF WrapLists
    <3>. QED  BY <3>1, WrapTwice
  <2>. QED  BY <2>1, <2>2
<1>3. y = WrapLists
  BY <1>2 DEF WrapLists
<1>. QED  BY <1>1, <1>3

(* The rows of the last iMCU row. *)
LEMMA RestInRow ==
  ASSUME NEW n \in Nat, NEW h \in Nat \ {0}, NEW x \in 1..h, NEW S, S = n * h + x
  PROVE  (IF S % h = 0 THEN h ELSE S % h) = x
<1>1. CASE x < h
  <2>1. x \in 0 .. h - 1
    BY <1>1
  <2>2. S % h = x
    BY <2>1, PlaceInRow
  <2>. QED  BY <2>2
<1>2. CASE x = h
  <2>1. (n + 1) * h = n * h + 1 * h /\ n * h \in Nat
    BY SumTimes, ProductIsNat
  <2>2. S = (n + 1) * h + 0
    BY <1>2, <2>1
  <2>3. n + 1 \in Nat /\ 0 \in 0 .. h - 1
    OBVIOUS
  <2>4. ((n + 1) * h + 0) % h = 0
    BY <2>3, PlaceInRow
  <2>. QED  BY <1>2, <2>2, <2>4
<1>. QED  BY <1>1, <1>2

(* The rows of the last iMCU row, of both kinds.                             *)
LEMMA RowsLeftIs ==
  ASSUME Mixed, NEW n \in Nat, 2 * (n * M) < Height, Height <= 2 * (n * M) + 2 * M
  PROVE  /\ RowsLeft("Y") = Height - 2 * (n * M) /\ RowsLeft("Y") \in 1 .. 2 * M
         /\ RowsLeft("C") = ChromaRows - n * M /\ RowsLeft("C") \in 1 .. M
         /\ (RowsLeft("Y") - 1) \div RGroup("Y") + 1 = ChromaRows - n * M
<1>1. /\ M \in Nat \ {0} /\ Height \in Nat /\ ChromaRows \in Nat /\ n * M \in Nat
      /\ RGroup("Y") = 2 /\ RGroup("C") = 1 /\ Samples("Y") = Height /\ Samples("C") = ChromaRows
      /\ Height <= 2 * ChromaRows /\ 2 * ChromaRows <= Height + 1
  <2>1. M \in Nat \ {0}
    BY MixedFacts
  <2>. QED  BY <2>1, MixedFacts, Sizes, ProductIsNat
<1>. DEFINE y == Height - 2 * (n * M)
            c == ChromaRows - n * M
<1>2. y \in 1 .. 2 * M /\ c \in 1 .. M /\ y <= 2 * c /\ 2 * c <= y + 1
  BY <1>1
<1>3. RowsLeft("Y") = y
  <2>1. n * (2 * M) = 2 * (n * M)
    BY <1>1
  <2>2. Height = n * (2 * M) + y /\ 2 * M \in Nat \ {0}
    BY <1>1, <2>1
  <2>3. (IF Height % (2 * M) = 0 THEN 2 * M ELSE Height % (2 * M)) = y
    <3>. HIDE DEF y
    <3>1. PICK h \in Nat \ {0} : h = 2 * M
      BY <2>2
    <3>2. Height = n * h + y /\ y \in 1..h
      BY <1>2, <2>2, <3>1
    <3>3. (IF Height % h = 0 THEN h ELSE Height % h) = y
      BY <3>2, RestInRow
    <3>. QED  BY <3>1, <3>3
  <2>. QED  BY <1>1, <2>3 DEF RowsLeft
<1>4. RowsLeft("C") = c
  <2>1. ChromaRows = n * M + c
    BY <1>1
  <2>2. (IF ChromaRows % M = 0 THEN M ELSE ChromaRows % M) = c
    <3>. HIDE DEF c
    <3>. QED  BY <1>1, <1>2, <2>1, RestInRow
  <2>3. 1 * M = M
    BY <1>1
  <2>. QED  BY <1>1, <2>2, <2>3 DEF RowsLeft
<1>5. (y - 1) \div 2 + 1 = c
  <2>. HIDE DEF y, c
  <2>1. PICK z \in Nat : z = y - 1
    BY <1>2
  <2>2. z = 2 * (z \div 2) + (z % 2) /\ z % 2 \in 0..1 /\ z \div 2 \in Nat
    BY Halved
  <2>. QED  BY <1>1, <1>2, <2>1, <2>2
<1>. QED  BY <1>1, <1>2, <1>3, <1>4, <1>5

(* The last row is repeated below itself. *)
LEMMA Bottom ==
  ASSUME Mixed, NEW t, Machine(t), t.imcu > 0, 2 * Top(t) < Height, Height <= 2 * Top(t) + 2 * M,
         t.xbuffer \in {StartLists, WrapLists}
  PROVE  LET u == SetBottom(t)
             rest == ChromaRows - Top(t)
         IN /\ Machine(u) /\ u.avail = rest /\ rest \in 1..M
            /\ u.full = t.full /\ u.rowgroup = t.rowgroup /\ u.which = t.which /\ u.ctx = t.ctx
            /\ u.imcu = t.imcu /\ u.scan = t.scan /\ u.out = t.out /\ u.next = t.next
            /\ u.toGo = t.toGo /\ u.work = t.work /\ u.luma = t.luma /\ u.chroma = t.chroma
            /\ \A i \in 0 .. 2 * M - 1 : 2 * Top(t) + i < Height => Luma(u, i) = Luma(t, i)
            /\ \A g \in -1 .. rest - 1 : Chroma(u, g) = Chroma(t, g)
            /\ Chroma(u, rest) = Chroma(t, rest - 1)
<1>. DEFINE u == SetBottom(t)
            rest == ChromaRows - Top(t)
            y == RowsLeft("Y")
            l == t.which
            Low(c) == [i \in Offsets(c) |->
                        IF i \in RowsLeft(c) .. RowsLeft(c) + 2 * RGroup(c) - 1
                        THEN t.xbuffer[l][c][RowsLeft(c) - 1] ELSE t.xbuffer[l][c][i]]
            x == [t.xbuffer EXCEPT ![l] = [c \in {"Y", "C"} |-> Low(c)]]
<1>1. /\ y = Height - 2 * Top(t) /\ y \in 1 .. 2 * M /\ RowsLeft("C") = rest /\ rest \in 1..M
      /\ (y - 1) \div RGroup("Y") + 1 = rest
  <2>1. t.imcu - 1 \in Nat
    BY DEF Machine
  <2>. QED  BY <2>1, RowsLeftIs DEF Top
<1>2. /\ M \in Nat /\ M >= 2 /\ Height \in Nat /\ l \in {0, 1} /\ Top(t) \in Nat
      /\ RGroup("Y") = 2 /\ RGroup("C") = 1
      /\ Offsets("Y") = -2 .. 2 * M + 5 /\ Offsets("C") = -1 .. M + 2
  <2>1. t.imcu - 1 \in Nat
    BY DEF Machine
  <2>2. M \in Nat /\ M >= 2 /\ Height \in Nat
    BY MixedFacts
  <2>3. Top(t) \in Nat
    BY <2>1, <2>2, ProductIsNat DEF Top
  <2>. QED  BY <2>2, <2>3, Sizes DEF Machine
<1>3. u = [t EXCEPT !.avail = rest, !.xbuffer = x]
  <2>1. u = [t EXCEPT !.avail = (y - 1) \div RGroup("Y") + 1,
                      !.xbuffer[l] = [c \in {"Y", "C"} |-> Low(c)]]
    BY MixedFacts DEF SetBottom
  <2>. HIDE DEF u, Low, rest, y
  <2>. QED  BY <1>1, <2>1 DEF Machine
<1>4. DOMAIN t.xbuffer = {0, 1}
  BY DEF StartLists, WrapLists
<1>. HIDE DEF u
<1>5. x[l]["Y"] = Low("Y") /\ x[l]["C"] = Low("C")
  <2>. HIDE DEF Low
  <2>. QED  BY <1>2, <1>4
<1>. HIDE DEF x, rest
<1>6. /\ Machine(u) /\ u.avail = rest /\ u.xbuffer = x
      /\ u.full = t.full /\ u.rowgroup = t.rowgroup /\ u.which = t.which /\ u.ctx = t.ctx
      /\ u.imcu = t.imcu /\ u.scan = t.scan /\ u.out = t.out /\ u.next = t.next
      /\ u.toGo = t.toGo /\ u.work = t.work /\ u.luma = t.luma /\ u.chroma = t.chroma
  <2>1. rest \in Nat
    BY <1>1, <1>2
  <2>. QED  BY <1>3, <2>1 DEF Machine
<1>7. ASSUME NEW c \in {"Y", "C"}, NEW i \in Offsets(c), NEW j \in Offsets(c),
             x[l][c][i] = t.xbuffer[l][c][j]
      PROVE  RowAt(u, l, c, i) = RowAt(t, l, c, j)
  BY <1>6, <1>7 DEF RowAt
<1>8. ASSUME NEW i \in 0 .. 2 * M - 1, 2 * Top(t) + i < Height
      PROVE  Luma(u, i) = Luma(t, i)
  <2>1. i < y /\ i \in Offsets("Y")
    <3>1. y = Height - 2 * Top(t)
      BY <1>1
    <3>2. Top(t) \in Nat /\ Height \in Nat /\ i \in 0 .. 2 * M - 1
      BY <1>2
    <3>. HIDE DEF y
    <3>3. i < y
      BY <1>8, <3>1, <3>2
    <3>4. i \in Offsets("Y")
      BY <1>2
    <3>. QED  BY <3>3, <3>4
  <2>2. x[l]["Y"][i] = t.xbuffer[l]["Y"][i]
    <3>. HIDE DEF y
    <3>1. i \notin y .. y + 2 * RGroup("Y") - 1
      BY <1>1, <1>2, <2>1
    <3>. QED  BY <1>5, <2>1, <3>1 DEF y
  <2>3. RowAt(u, l, "Y", i) = RowAt(t, l, "Y", i)
    BY <1>7, <2>1, <2>2
  <2>. QED  BY <1>6, <2>3 DEF Luma
<1>9. ASSUME NEW g \in -1 .. rest - 1
      PROVE  Chroma(u, g) = Chroma(t, g)
  <2>1. g < rest /\ g \in Offsets("C")
    BY <1>1, <1>2, <1>9
  <2>2. x[l]["C"][g] = t.xbuffer[l]["C"][g]
    <3>1. g \notin rest .. rest + 2 * RGroup("C") - 1
      BY <1>1, <1>2, <2>1
    <3>. QED  BY <1>1, <1>5, <2>1, <3>1
  <2>3. RowAt(u, l, "C", g) = RowAt(t, l, "C", g)
    BY <1>7, <2>1, <2>2
  <2>. QED  BY <1>6, <2>3 DEF Chroma
<1>10. Chroma(u, rest) = Chroma(t, rest - 1)
  <2>1. rest \in Offsets("C") /\ rest - 1 \in Offsets("C")
    <3>1. rest \in 1..M
      BY <1>1
    <3>2. M \in Nat /\ Offsets("C") = -1 .. M + 2
      BY <1>2
    <3>. QED  BY <3>1, <3>2
  <2>2. x[l]["C"][rest] = t.xbuffer[l]["C"][rest - 1]
    <3>1. rest \in rest .. rest + 2 * RGroup("C") - 1
      BY <1>1, <1>2
    <3>. QED  BY <1>1, <1>5, <2>1, <3>1
  <2>3. RowAt(u, l, "C", rest) = RowAt(t, l, "C", rest - 1)
    BY <1>7, <2>1, <2>2
  <2>. QED  BY <1>6, <2>3 DEF Chroma
<1>. QED  BY <1>1, <1>6, <1>8, <1>9, <1>10 DEF u, rest

-----------------------------------------------------------------------------
(* A call within an iMCU row. *)

(* Rows within the picture are where they belong. *)
LEMMA ClampedRows ==
  ASSUME Mixed
  PROVE  /\ \A i \in 0 .. ChromaRows - 1 : Clamped(i) = i
         /\ \A i \in Nat : i >= ChromaRows => Clamped(i) = ChromaRows - 1
         /\ Clamped(-1) = 0
BY MixedFacts DEF Clamped, Least

(* The number of rows above an iMCU row, and the lists that lead to them.    *)
LEMMA TopFacts ==
  ASSUME Mixed, NEW t, Machine(t), t.imcu > 0
  PROVE  /\ t.imcu - 1 \in Nat /\ t.imcu \in Nat \ {0} /\ Top(t) \in Nat /\ Top(t) = (t.imcu - 1) * M
         /\ t.imcu * M = Top(t) + M /\ t.imcu * M \in Nat
<1>1. t.imcu - 1 \in Nat /\ t.imcu \in Nat \ {0} /\ M \in Nat /\ t.imcu - 1 + 1 = t.imcu
  BY MixedFacts DEF Machine
<1>2. Top(t) = (t.imcu - 1) * M /\ Top(t) \in Nat
  BY <1>1, ProductIsNat DEF Top
<1>3. (t.imcu - 1 + 1) * M = (t.imcu - 1) * M + 1 * M
  BY <1>1, SumTimes
<1>4. t.imcu * M = Top(t) + M
  BY <1>1, <1>2, <1>3
<1>. QED  BY <1>1, <1>2, <1>4

(* Which iMCU row is the last.                                               *)
LEMMA LastFacts ==
  ASSUME Mixed, NEW t, Machine(t), t.imcu > 0, 2 * Top(t) < Height
  PROVE  IsLast(t) <=> Height <= 2 * Top(t) + 2 * M
<1>1. t.imcu - 1 \in Nat /\ t.imcu \in Nat \ {0} /\ Top(t) = (t.imcu - 1) * M
  BY TopFacts
<1>2. t.imcu - 1 + 1 = t.imcu
  BY <1>1
<1>3. t.imcu - 1 + 1 = TotalRows <=> Height <= 2 * ((t.imcu - 1) * M) + 2 * M
  BY <1>1, LastRow
<1>. QED  BY <1>1, <1>2, <1>3 DEF IsLast

(* What the pointers show depends on the lists and the workspace.            *)
LEMMA SameView ==
  ASSUME NEW t, NEW u, u.which = t.which, u.xbuffer = t.xbuffer, u.work = t.work, NEW i
  PROVE  Luma(u, i) = Luma(t, i) /\ Chroma(u, i) = Chroma(t, i)
BY DEF Luma, Chroma, RowAt

(* Row groups are used one by one. *)
InGroups(t, p) ==
  /\ t.ctx = "process" /\ t.full
  /\ t.imcu > 0 /\ t.rowgroup < t.avail /\ p = 2 * Top(t) + 2 * t.rowgroup + Given(t)
  /\ Clear(t) /\ Ongoing(t) /\ SecondRight(t, p)

(* The row groups to be used are row groups of the iMCU row. *)
LEMMA GroupsLeft ==
  ASSUME Mixed, NEW t, Machine(t), NEW p \in Nat, InGroups(t, p), p < Height
  PROVE  /\ 2 * Top(t) < Height /\ t.avail \in 1..M /\ t.rowgroup \in 0 .. t.avail - 1
         /\ IsLast(t) => t.avail = ChromaRows - Top(t)
         /\ ~IsLast(t) => /\ t.avail = M - 1 /\ 2 * Top(t) + 2 * M < Height
                          /\ Top(t) + M < ChromaRows
<1>1. /\ Top(t) \in Nat /\ M \in Nat /\ M >= 2 /\ Height \in Nat /\ ChromaRows \in Nat
      /\ t.rowgroup \in Nat /\ t.avail \in Nat /\ Given(t) \in 0..1
      /\ Height <= 2 * ChromaRows /\ 2 * ChromaRows <= Height + 1
  BY MixedFacts, TopFacts, GivenFacts DEF InGroups, Machine
<1>2. t.rowgroup < t.avail /\ p = 2 * Top(t) + 2 * t.rowgroup + Given(t)
  BY DEF InGroups
<1>3. 2 * Top(t) < Height
  BY <1>1, <1>2
<1>4. IsLast(t) <=> Height <= 2 * Top(t) + 2 * M
  BY <1>3, LastFacts DEF InGroups
<1>5. CASE IsLast(t)
  <2>1. t.avail = ChromaRows - Top(t) /\ Height <= 2 * Top(t) + 2 * M
    BY <1>4, <1>5 DEF InGroups, Ongoing
  <2>. QED  BY <1>1, <1>2, <1>3, <1>5, <2>1
<1>6. CASE ~IsLast(t)
  <2>1. t.avail = M - 1 /\ ~(Height <= 2 * Top(t) + 2 * M)
    BY <1>4, <1>6 DEF InGroups, Ongoing
  <2>. QED  BY <1>1, <1>2, <1>3, <1>6, <2>1
<1>. QED  BY <1>5, <1>6

(* The row group to be used next is that of the next line.                   *)
LEMMA GroupToUse ==
  ASSUME Mixed, NEW t, Machine(t), NEW p \in Nat, InGroups(t, p), p < Height
  PROVE  LET e == Top(t) + t.rowgroup
         IN /\ e \in Nat /\ p = 2 * e + Given(t) /\ Group(t, e) /\ SecondRight(t, 2 * e + 1)
            /\ t.rowgroup > 0 \/ Above(t) => AboveGroup(t, e)
<1>. DEFINE e == Top(t) + t.rowgroup
            g == t.rowgroup
<1>1. /\ Top(t) \in Nat /\ M \in Nat /\ Height \in Nat /\ ChromaRows \in Nat /\ Height <= 2 * ChromaRows
      /\ g \in Nat /\ t.avail \in Nat /\ Given(t) \in 0..1 /\ g < t.avail
      /\ p = 2 * Top(t) + 2 * g + Given(t)
  BY MixedFacts, TopFacts, GivenFacts DEF InGroups, Machine
<1>2. e \in Nat /\ p = 2 * e + Given(t) /\ e < ChromaRows /\ 2 * e = 2 * Top(t) + 2 * g
  BY <1>1
<1>3. /\ \A i \in 0 .. 2 * t.avail - 1 : 2 * Top(t) + i < Height => Luma(t, i) = 2 * Top(t) + i
      /\ \A i \in 0 .. t.avail : Chroma(t, i) = Clamped(Top(t) + i)
  BY DEF InGroups, Clear
<1>4. ASSUME NEW k \in 0..1, 2 * e + k < Height
      PROVE  Luma(t, 2 * g + k) = 2 * e + k
  <2>1. PICK i \in 0 .. 2 * t.avail - 1 : i = 2 * g + k
    BY <1>1
  <2>2. 2 * Top(t) + i = 2 * e + k
    BY <1>1, <1>2, <2>1
  <2>. QED  BY <1>3, <1>4, <2>1, <2>2
<1>5. Chroma(t, g) = e /\ Chroma(t, g + 1) = Clamped(e + 1)
  <2>1. g \in 0 .. t.avail /\ g + 1 \in 0 .. t.avail /\ Top(t) + (g + 1) = e + 1
    BY <1>1
  <2>2. Clamped(e) = e
    <3>1. e \in 0 .. ChromaRows - 1
      BY <1>1, <1>2
    <3>. HIDE DEF e
    <3>. QED  BY <3>1, ClampedRows
  <2>3. Chroma(t, g) = Clamped(e) /\ Chroma(t, g + 1) = Clamped(Top(t) + (g + 1))
    BY <1>3, <2>1
  <2>. QED  BY <2>1, <2>2, <2>3
<1>6. g > 0 \/ Above(t) => AboveGroup(t, e)
  <2>1. CASE g > 0
    <3>1. g - 1 \in 0 .. t.avail /\ Top(t) + (g - 1) = e - 1
      BY <1>1, <2>1
    <3>2. Chroma(t, g - 1) = Clamped(Top(t) + (g - 1))
      BY <1>3, <3>1
    <3>. QED  BY <3>1, <3>2 DEF AboveGroup
  <2>2. CASE ~(g > 0)
    <3>1. g - 1 = -1 /\ e - 1 = Top(t) - 1
      BY <1>1, <2>2
    <3>. QED  BY <2>2, <3>1 DEF AboveGroup, Above
  <2>. QED  BY <2>1, <2>2
<1>7. SecondRight(t, 2 * e + 1)
  <2>1. t.next = 1 => Given(t) = 1
    BY MixedFacts DEF Given
  <2>2. t.next = 1 => p = 2 * e + 1
    BY <1>2, <2>1
  <2>. QED  BY <2>2 DEF InGroups, SecondRight
<1>8. Group(t, e)
  BY <1>4, <1>5 DEF Group
<1>. HIDE DEF e
<1>. QED  BY <1>2, <1>6, <1>7, <1>8 DEF e

(* After a row group that is not the last one the next is used. *)
LEMMA NextGroup ==
  ASSUME Mixed, NEW t, Machine(t), NEW p \in Nat, InGroups(t, p), p < Height,
         NEW u, NEW n \in 1..2, Gave(t, u, n), SecondRight(u, 2 * (Top(t) + t.rowgroup) + 1),
         u.rowgroup < u.avail
  PROVE  Working(u, p + n)
<1>. DEFINE e == Top(t) + t.rowgroup
            g == t.rowgroup
<1>1. /\ Top(t) \in Nat /\ g \in Nat /\ t.avail \in Nat /\ Given(t) \in 0..1 /\ V = 2
      /\ p = 2 * Top(t) + 2 * g + Given(t)
  BY MixedFacts, TopFacts, GivenFacts DEF InGroups, Machine
<1>2. /\ Given(t) + n \in 1..2 /\ u.next = Given(t) + n
      /\ u.rowgroup = IF Given(t) + n = 2 THEN g + 1 ELSE g
      /\ u.full = t.full /\ u.which = t.which /\ u.ctx = t.ctx /\ u.avail = t.avail /\ u.imcu = t.imcu
      /\ u.xbuffer = t.xbuffer /\ u.work = t.work
  BY DEF Gave
<1>3. \A i : Luma(u, i) = Luma(t, i) /\ Chroma(u, i) = Chroma(t, i)
  BY <1>2, SameView
<1>4. Top(u) = Top(t) /\ (IsLast(u) <=> IsLast(t))
  BY <1>2 DEF Top, IsLast
<1>5. Clear(u) /\ Ongoing(u)
  <2>1. Clear(t) /\ Ongoing(t)
    BY DEF InGroups
  <2>2. Clear(u)
    BY <1>2, <1>3, <1>4, <2>1 DEF Clear
  <2>3. Body(t) => Body(u)
    BY <1>3, <1>4 DEF Body
  <2>. QED  BY <1>2, <1>4, <2>1, <2>2, <2>3 DEF Ongoing
<1>6. p + n = 2 * Top(t) + 2 * u.rowgroup + Given(u) /\ (u.rowgroup > 0 \/ u.next = 1)
  <2>1. CASE Given(t) + n = 2
    <3>1. Given(u) = 0 /\ u.rowgroup = g + 1
      BY <1>1, <1>2, <2>1 DEF Given
    <3>. QED  BY <1>1, <2>1, <3>1
  <2>2. CASE Given(t) + n = 1
    <3>1. Given(u) = 1 /\ u.rowgroup = g /\ u.next = 1
      BY <1>1, <1>2, <2>2 DEF Given
    <3>. QED  BY <1>1, <2>2, <3>1
  <2>. QED  BY <1>2, <2>1, <2>2
<1>7. SecondRight(u, p + n)
  <2>1. u.next = 1 => p + n = 2 * e + 1
    BY <1>1, <1>2
  <2>. QED  BY <2>1 DEF SecondRight
<1>. QED  BY <1>2, <1>4, <1>5, <1>6, <1>7 DEF InGroups, Working

(* What NextIMCU does. *)
LEMMA NextMachine ==
  ASSUME Mixed, NEW u, Machine(u)
  PROVE  LET r == NextIMCU(u)
         IN /\ Machine(r) /\ r.ctx = "postponed" /\ r.full = FALSE /\ r.rowgroup = M + 1
            /\ r.avail = M + 2 /\ r.which = 1 - u.which /\ r.imcu = u.imcu /\ r.scan = u.scan
            /\ r.out = u.out /\ r.work = u.work /\ r.next = u.next /\ r.toGo = u.toGo
            /\ r.xbuffer = IF u.imcu = 1 THEN SetWraparound(u).xbuffer ELSE u.xbuffer
<1>. DEFINE r == NextIMCU(u)
<1>1. PICK y : SetWraparound(u) = [u EXCEPT !.xbuffer = y]
  BY DEF SetWraparound
<1>2. PICK x : x = IF u.imcu = 1 THEN y ELSE u.xbuffer
  OBVIOUS
<1>3. (IF u.iMCUctr = 1 THEN SetWraparound(u) ELSE u) = [u EXCEPT !.xbuffer = x]
  BY <1>1, <1>2 DEF Machine
<1>4. r = [u EXCEPT !.xbuffer = x, !.which = 1 - @, !.full = FALSE, !.rowgroup = M + 1,
                    !.avail = M + 2, !.ctx = "postponed"]
  <2>1. PICK v : v = [u EXCEPT !.xbuffer = x]
    OBVIOUS
  <2>2. r = [v EXCEPT !.which = 1 - @, !.full = FALSE, !.rowgroup = M + 1,
                      !.avail = M + 2, !.ctx = "postponed"]
    BY <1>3, <2>1 DEF NextIMCU
  <2>. HIDE DEF r
  <2>. QED  BY <2>1, <2>2 DEF Machine
<1>5. M + 1 \in Nat /\ M + 2 \in Nat /\ 1 - u.which \in {0, 1}
  BY MixedFacts DEF Machine
<1>6. SetWraparound(u).xbuffer = y
  BY <1>1 DEF Machine
<1>. HIDE DEF r
<1>7. /\ Machine(r) /\ r.ctx = "postponed" /\ r.full = FALSE /\ r.rowgroup = M + 1
      /\ r.avail = M + 2 /\ r.which = 1 - u.which /\ r.imcu = u.imcu /\ r.scan = u.scan
      /\ r.out = u.out /\ r.work = u.work /\ r.next = u.next /\ r.toGo = u.toGo /\ r.xbuffer = x
  BY <1>4, <1>5 DEF Machine
<1>. QED  BY <1>2, <1>6, <1>7 DEF r

(* In the other list the last two row groups are behind the pointers after   *)
(* those of the iMCU row.                                                    *)
LEMMA OtherList ==
  ASSUME Mixed, NEW t, Machine(t), NEW r, t.xbuffer \in {StartLists, WrapLists},
         r.xbuffer \in {StartLists, WrapLists}, r.work = t.work, r.which = 1 - t.which,
         NEW c \in {"Y", "C"}, NEW j \in 0 .. 2 * RGroup(c) - 1
  PROVE  RowAt(r, r.which, c, Depth(c) + j) = RowAt(t, t.which, c, Depth(c) - 2 * RGroup(c) + j)
<1>. DEFINE g == RGroup(c)
            h == Depth(c)
            l == t.which
<1>1. g \in 1..2 /\ h \in Nat /\ 2 * g <= h /\ l \in {0, 1} /\ 1 - l \in {0, 1} /\ j \in 0 .. 2 * g - 1
  <2>1. l \in {0, 1}
    BY DEF Machine
  <2>2. g \in 1..2 /\ h \in Nat /\ 2 * g <= h
    BY Sizes
  <2>3. 1 - l \in {0, 1}
    BY <2>1
  <2>. QED  BY <2>1, <2>2, <2>3
<1>. HIDE DEF g, h, l
<1>2. PICK i \in 0 .. h + 2 * g - 1 : i = h + j
  BY <1>1
<1>3. PICK k \in 0 .. h + 2 * g - 1 : k = h - 2 * g + j
  BY <1>1
<1>4. i >= h /\ i - 2 * g = k
  BY <1>1, <1>2, <1>3
<1>5. Place(1 - l, g, h, i) = Place(l, g, h, k)
  BY <1>1, <1>4, PlaceFacts
<1>6. RowAt(r, 1 - l, c, i) = r.work[c][Place(1 - l, g, h, i)]
  BY <1>1, RowBehind DEF g, h
<1>7. RowAt(t, l, c, k) = t.work[c][Place(l, g, h, k)]
  BY <1>1, RowBehind DEF g, h
<1>. QED  BY <1>2, <1>3, <1>5, <1>6, <1>7 DEF g, h, l

(* After the last but one row group the lists are switched. *)
LEMMA Switches ==
  ASSUME Mixed, NEW t, Machine(t), NEW p \in Nat, InGroups(t, p), p < Height,
         NEW u, NEW n \in 1..2, Gave(t, u, n), ~(u.rowgroup < u.avail), p + n < Height
  PROVE  Switched(NextIMCU(u), p + n)
<1>. DEFINE r == NextIMCU(u)
            g == t.rowgroup
<1>1. /\ Top(t) \in Nat /\ g \in 0 .. t.avail - 1 /\ t.avail \in 1..M /\ Given(t) \in 0..1 /\ V = 2
      /\ p = 2 * Top(t) + 2 * g + Given(t) /\ M \in Nat /\ M >= 2 /\ Height \in Nat
      /\ ChromaRows \in Nat /\ Height <= 2 * ChromaRows /\ t.imcu \in Nat \ {0}
      /\ t.imcu * M = Top(t) + M
  BY MixedFacts, TopFacts, GivenFacts, GroupsLeft DEF InGroups
<1>2. /\ Machine(u) /\ Given(t) + n \in 1..2 /\ u.next = Given(t) + n
      /\ u.rowgroup = IF Given(t) + n = 2 THEN g + 1 ELSE g
      /\ u.which = t.which /\ u.avail = t.avail /\ u.imcu = t.imcu
      /\ u.xbuffer = t.xbuffer /\ u.work = t.work
  BY DEF Gave
<1>3. Given(t) + n = 2 /\ g = t.avail - 1 /\ p + n = 2 * Top(t) + 2 * t.avail
  <2>1. t.avail \in Nat /\ g \in Nat /\ g <= t.avail - 1
    BY <1>1
  <2>2. ~(u.rowgroup < t.avail)
    BY <1>2
  <2>. HIDE DEF g
  <2>3. Given(t) + n = 2 /\ g = t.avail - 1
    BY <1>2, <2>1, <2>2
  <2>. QED  BY <1>1, <2>1, <2>3
<1>4. ~IsLast(t)
  <2>1. IsLast(t) => t.avail = ChromaRows - Top(t)
    BY GroupsLeft
  <2>. QED  BY <1>1, <1>3, <2>1
<1>5. /\ t.avail = M - 1 /\ 2 * Top(t) + 2 * M < Height /\ Top(t) + M < ChromaRows
  BY <1>4, GroupsLeft
<1>6. Body(t) /\ t.xbuffer \in {StartLists, WrapLists} /\ (t.imcu > 1 => t.xbuffer = WrapLists)
  BY <1>4 DEF InGroups, Ongoing
<1>7. /\ r.ctx = "postponed" /\ r.full = FALSE /\ r.rowgroup = M + 1
      /\ r.avail = M + 2 /\ r.which = 1 - t.which /\ r.imcu = t.imcu
      /\ r.work = t.work /\ r.next = 2
      /\ r.xbuffer = IF t.imcu = 1 THEN SetWraparound(u).xbuffer ELSE t.xbuffer
  BY <1>2, <1>3, NextMachine
<1>. HIDE DEF r
<1>8. r.xbuffer = WrapLists
  <2>1. SetWraparound(u).xbuffer = WrapLists
    <3>1. SetWraparound(u) = [u EXCEPT !.xbuffer = WrapLists]
      BY <1>2, <1>6, Wraps
    <3>. QED  BY <1>2, <3>1 DEF Machine
  <2>. QED  BY <1>1, <1>6, <1>7, <2>1
<1>9. p + n = 2 * (t.imcu * M) - 2 /\ 2 * (t.imcu * M) < Height
  BY <1>1, <1>3, <1>5
<1>10. Previous(r, t.imcu * M)
  <2>1. ASSUME NEW c \in {"Y", "C"}, NEW j \in 0 .. 2 * RGroup(c) - 1
        PROVE  RowAt(r, r.which, c, Depth(c) + j) = RowAt(t, t.which, c, Depth(c) - 2 * RGroup(c) + j)
    BY <1>6, <1>7, <1>8, OtherList
  <2>2. RGroup("Y") = 2 /\ RGroup("C") = 1 /\ Depth("Y") = 2 * M /\ Depth("C") = M
    BY Sizes
  <2>3. ASSUME NEW j \in 0..3
        PROVE  Luma(r, 2 * M + j) = 2 * (t.imcu * M) - 4 + j
    <3>1. PICK i \in 0 .. 2 * M - 1 : i = 2 * M - 4 + j
      BY <1>1
    <3>2. Luma(t, i) = 2 * Top(t) + i
      BY <1>1, <1>5, <1>6, <3>1 DEF Body
    <3>3. RowAt(r, r.which, "Y", 2 * M + j) = RowAt(t, t.which, "Y", 2 * M - 2 * 2 + j)
      BY <2>1, <2>2
    <3>4. 2 * M - 2 * 2 + j = i
      BY <1>1, <3>1
    <3>. QED  BY <1>1, <3>1, <3>2, <3>3, <3>4 DEF Luma
  <2>4. ASSUME NEW j \in 0..1
        PROVE  Chroma(r, M + j) = t.imcu * M - 2 + j
    <3>1. PICK i \in 0 .. M - 1 : i = M - 2 + j
      BY <1>1
    <3>2. Chroma(t, i) = Top(t) + i
      BY <1>1, <1>5, <1>6, <3>1 DEF Body
    <3>3. RowAt(r, r.which, "C", M + j) = RowAt(t, t.which, "C", M - 2 * 1 + j)
      BY <2>1, <2>2
    <3>4. M - 2 * 1 + j = i
      BY <1>1, <3>1
    <3>. QED  BY <1>1, <3>1, <3>2, <3>3, <3>4 DEF Chroma
  <2>. QED  BY <2>3, <2>4 DEF Previous
<1>. QED  BY <1>1, <1>7, <1>8, <1>9, <1>10 DEF Switched, r

(* Either way the decompressor is at the next line. *)
LEMMA GroupDone ==
  ASSUME Mixed, NEW t, Machine(t), NEW p \in Nat, InGroups(t, p), p < Height,
         NEW u, NEW n \in 1..2, Gave(t, u, n), SecondRight(u, 2 * (Top(t) + t.rowgroup) + 1)
  PROVE  LET r == NextIfUsed(u)
         IN /\ Machine(r) /\ r.out = u.out /\ r.toGo = u.toGo /\ r.scan = u.scan
            /\ p + n < Height => AtLine(r, p + n)
<1>1. Machine(u)
  BY DEF Gave
<1>2. CASE u.rowgroup < u.avail
  <2>1. Working(u, p + n)
    BY <1>2, NextGroup
  <2>. QED  BY <1>1, <1>2, <2>1 DEF NextIfUsed, AtLine
<1>3. CASE ~(u.rowgroup < u.avail)
  <2>1. NextIfUsed(u) = NextIMCU(u)
    BY <1>3 DEF NextIfUsed
  <2>2. p + n < Height => Switched(NextIMCU(u), p + n)
    BY <1>3, Switches
  <2>. QED  BY <1>1, <2>1, <2>2, NextMachine DEF AtLine
<1>. QED  BY <1>2, <1>3

(* What a call, or a part of it, does: n rows more are given. *)
Served(t, r, s, p, n, room) ==
  /\ Machine(r) /\ n <= t.toGo /\ p + n <= Height /\ p + n - s <= room
  /\ r.out = RowsOf(s, p + n) /\ r.toGo = t.toGo - n /\ r.scan = t.scan
  /\ p + n < Height => AtLine(r, p + n)

(* CTX_PROCESS_IMCU gives the next lines.                                    *)
LEMMA ProcessesMixed ==
  ASSUME Mixed, NEW t, Machine(t), NEW s \in Nat, NEW p \in Nat, InGroups(t, p), s <= p, p < Height,
         t.rowgroup > 0 \/ t.next = 1 \/ Above(t), t.out = RowsOf(s, p),
         NEW room \in Nat, p - s < room, t.toGo > 0, t.toGo = Height - p \/ room = 1
  PROVE  \E n \in 1..2 : Served(t, ProcessIMCU(t, room), s, p, n, room)
<1>. DEFINE e == Top(t) + t.rowgroup
            u == Upsample(t, room)
<1>1. /\ e \in Nat /\ p = 2 * e + Given(t) /\ Group(t, e) /\ SecondRight(t, 2 * e + 1)
      /\ t.rowgroup > 0 \/ Above(t) => AboveGroup(t, e)
  BY GroupToUse
<1>2. AboveGroup(t, e) \/ Given(t) = 1
  <2>1. t.next = 1 => Given(t) = 1
    BY MixedFacts DEF Given
  <2>. QED  BY <1>1, <2>1
<1>. HIDE DEF e
<1>3. PICK n \in 1..2 : /\ Gave(t, u, n) /\ p + n <= Height /\ p + n - s <= room
                        /\ u.out = RowsOf(s, p + n) /\ SecondRight(u, 2 * e + 1)
  BY <1>1, <1>2, UpsamplesMixed
<1>. HIDE DEF u
<1>. DEFINE r == NextIfUsed(u)
<1>4. /\ Machine(r) /\ r.out = u.out /\ r.toGo = u.toGo /\ r.scan = u.scan
      /\ p + n < Height => AtLine(r, p + n)
  BY <1>3, GroupDone DEF e
<1>5. ProcessIMCU(t, room) = r
  BY DEF ProcessIMCU, u
<1>6. n <= t.toGo /\ u.toGo = t.toGo - n /\ u.scan = t.scan
  BY <1>3 DEF Gave
<1>. HIDE DEF r
<1>. QED  BY <1>3, <1>4, <1>5, <1>6 DEF Served

(* The same of the first row after a jump, except that it may be any.        *)
LEMMA ProcessesJumped ==
  ASSUME Mixed, NEW t, Machine(t), NEW p \in Nat, InGroups(t, p), p < Height,
         t.next = V, t.out = <<>>, t.toGo > 0
  PROVE  LET r == ProcessIMCU(t, 1)
         IN /\ Machine(r) /\ Len(r.out) = 1 /\ r.toGo = t.toGo - 1 /\ r.scan = t.scan
            /\ p + 1 < Height => AtLine(r, p + 1)
<1>. DEFINE e == Top(t) + t.rowgroup
            u == Upsample(t, 1)
<1>1. e \in Nat /\ Group(t, e)
  BY GroupToUse
<1>. HIDE DEF e
<1>2. Gave(t, u, 1) /\ Len(u.out) = 1 /\ SecondRight(u, 2 * e + 1)
  BY <1>1, UpsamplesJumped
<1>. HIDE DEF u
<1>. DEFINE r == NextIfUsed(u)
<1>3. /\ Machine(r) /\ r.out = u.out /\ r.toGo = u.toGo /\ r.scan = u.scan
      /\ p + 1 < Height => AtLine(r, p + 1)
  <2>1. PICK n \in 1..2 : n = 1
    OBVIOUS
  <2>2. Gave(t, u, n) /\ SecondRight(u, 2 * (Top(t) + t.rowgroup) + 1)
    BY <1>2, <2>1 DEF e
  <2>3. /\ Machine(r) /\ r.out = u.out /\ r.toGo = u.toGo /\ r.scan = u.scan
        /\ p + n < Height => AtLine(r, p + n)
    BY <2>2, GroupDone
  <2>. HIDE DEF r
  <2>. QED  BY <2>1, <2>3
<1>4. ProcessIMCU(t, 1) = r
  BY DEF ProcessIMCU, u
<1>5. u.toGo = t.toGo - 1 /\ u.scan = t.scan
  BY <1>2 DEF Gave
<1>. HIDE DEF r
<1>. QED  BY <1>2, <1>3, <1>4, <1>5

-----------------------------------------------------------------------------
(* A call at the start of an iMCU row. *)

(* The iMCU row in the buffer is the next to be used. *)
Prepared(t) ==
  /\ t.full /\ t.imcu > 0 /\ t.next = V /\ 2 * Top(t) < Height /\ Body(t)
  /\ t.xbuffer \in {StartLists, WrapLists} /\ (t.imcu > 1 => t.xbuffer = WrapLists)

Started(t) == IF t.iMCUctr = TotalRows THEN SetBottom(Process(t)) ELSE Process(t)

(* CTX_PREPARE_FOR_IMCU leads to the first row group.                        *)
LEMMA Starts ==
  ASSUME Mixed, NEW t, Machine(t), Prepared(t)
  PROVE  LET u == Started(t)
         IN /\ Machine(u) /\ InGroups(u, 2 * Top(t)) /\ u.next = V /\ u.out = t.out
            /\ u.toGo = t.toGo /\ u.scan = t.scan /\ (Above(t) => Above(u))
<1>. DEFINE v == Process(t)
            u == Started(t)
            T == Top(t)
<1>1. /\ M \in Nat /\ M >= 2 /\ Height \in Nat /\ ChromaRows \in Nat /\ T \in Nat /\ V = 2
      /\ Height <= 2 * ChromaRows /\ t.imcu \in Nat \ {0} /\ 2 * T < Height
  BY MixedFacts, TopFacts DEF Prepared
<1>2. /\ Machine(v) /\ v.ctx = "process" /\ v.rowgroup = 0 /\ v.avail = M - 1 /\ v.full = TRUE
      /\ v.next = 2 /\ v.which = t.which /\ v.imcu = t.imcu /\ v.scan = t.scan /\ v.out = t.out
      /\ v.xbuffer = t.xbuffer /\ v.work = t.work /\ v.toGo = t.toGo
  <2>1. M - 1 \in Nat
    BY <1>1
  <2>. QED  BY <1>1, <2>1 DEF Process, Machine, Prepared
<1>3. u = IF IsLast(t) THEN SetBottom(v) ELSE v
  BY DEF Started, IsLast, Machine
<1>. HIDE DEF v, u
<1>4. \A i : Luma(v, i) = Luma(t, i) /\ Chroma(v, i) = Chroma(t, i)
  BY <1>2, SameView
<1>5. Top(v) = T
  BY <1>2 DEF Top
<1>6. /\ \A i \in 0 .. 2 * M - 1 : 2 * T + i < Height => Luma(t, i) = 2 * T + i
      /\ \A g \in 0 .. M - 1 : T + g < ChromaRows => Chroma(t, g) = T + g
  BY DEF Prepared, Body
<1>7. IsLast(t) <=> Height <= 2 * T + 2 * M
  BY <1>1, LastFacts
<1>8. t.xbuffer \in {StartLists, WrapLists} /\ (t.imcu > 1 => t.xbuffer = WrapLists)
  BY DEF Prepared
<1>. HIDE DEF T
<1>9. CASE IsLast(t)
  <2>. DEFINE rest == ChromaRows - T
  <2>1. u = SetBottom(v) /\ Height <= 2 * T + 2 * M
    BY <1>3, <1>7, <1>9
  <2>2. /\ Machine(u) /\ u.avail = rest /\ rest \in 1..M
        /\ u.full = v.full /\ u.rowgroup = v.rowgroup /\ u.which = v.which /\ u.ctx = v.ctx
        /\ u.imcu = v.imcu /\ u.scan = v.scan /\ u.out = v.out /\ u.next = v.next
        /\ u.toGo = v.toGo
    BY <1>1, <1>2, <1>5, <1>8, <2>1, Bottom
  <2>3. \A i \in 0 .. 2 * M - 1 : 2 * T + i < Height => Luma(u, i) = Luma(v, i)
    BY <1>1, <1>2, <1>5, <1>8, <2>1, Bottom
  <2>4. \A g \in -1 .. rest - 1 : Chroma(u, g) = Chroma(v, g)
    BY <1>1, <1>2, <1>5, <1>8, <2>1, Bottom
  <2>5. Chroma(u, rest) = Chroma(v, rest - 1)
    BY <1>1, <1>2, <1>5, <1>8, <2>1, Bottom
  <2>. HIDE DEF rest
  <2>6. Top(u) = T /\ IsLast(u)
    BY <1>2, <1>9, <2>2 DEF Top, T, IsLast
  <2>7. rest = ChromaRows - T
    BY DEF rest
  <2>8. ASSUME NEW i \in 0 .. 2 * u.avail - 1, 2 * T + i < Height
        PROVE  Luma(u, i) = 2 * T + i
    <3>1. i \in 0 .. 2 * M - 1
      BY <1>1, <2>2
    <3>. QED  BY <1>4, <1>6, <2>3, <2>8, <3>1
  <2>9. ASSUME NEW g \in 0 .. u.avail
        PROVE  Chroma(u, g) = Clamped(T + g)
    <3>1. CASE g < rest
      <4>1. g \in -1 .. rest - 1 /\ g \in 0 .. M - 1 /\ T + g < ChromaRows
        BY <1>1, <2>2, <2>7, <3>1
      <4>2. Chroma(u, g) = T + g
        BY <1>4, <1>6, <2>4, <4>1
      <4>3. T + g \in 0 .. ChromaRows - 1
        BY <1>1, <4>1
      <4>. QED  BY <4>2, <4>3, ClampedRows
    <3>2. CASE g = rest
      <4>1. rest - 1 \in 0 .. M - 1 /\ T + (rest - 1) = ChromaRows - 1
        BY <1>1, <2>2, <2>7
      <4>2. Chroma(v, rest - 1) = ChromaRows - 1
        BY <1>1, <1>4, <1>6, <4>1
      <4>3. T + g = ChromaRows
        BY <1>1, <2>2, <2>7, <3>2
      <4>4. Clamped(ChromaRows) = ChromaRows - 1
        BY <1>1, ClampedRows
      <4>. QED  BY <2>5, <3>2, <4>2, <4>3, <4>4
    <3>. QED  BY <2>2, <3>1, <3>2
  <2>10. Clear(u)
    BY <2>6, <2>8, <2>9 DEF Clear
  <2>11. Ongoing(u)
    BY <2>2, <2>6, <2>7 DEF Ongoing
  <2>12. Given(u) = 0 /\ 2 * T = 2 * T + 2 * u.rowgroup + Given(u) /\ u.rowgroup < u.avail
    <3>1. Given(u) = 0
      BY <1>1, <1>2, <2>2 DEF Given
    <3>. QED  BY <1>1, <1>2, <2>2, <3>1
  <2>13. SecondRight(u, 2 * T)
    BY <1>2, <2>2 DEF SecondRight
  <2>14. Above(t) => Above(u)
    <3>1. -1 \in -1 .. rest - 1
      BY <2>2
    <3>2. Chroma(u, -1) = Chroma(t, -1)
      BY <1>4, <2>4, <3>1
    <3>. QED  BY <2>6, <3>2 DEF Above, T
  <2>15. InGroups(u, 2 * T)
    BY <1>1, <1>2, <2>2, <2>6, <2>10, <2>11, <2>12, <2>13 DEF InGroups
  <2>. QED  BY <1>1, <1>2, <2>2, <2>14, <2>15 DEF T, u
<1>10. CASE ~IsLast(t)
  <2>1. u = v /\ 2 * T + 2 * M < Height
    BY <1>1, <1>3, <1>7, <1>10
  <2>2. Top(u) = T /\ ~IsLast(u)
    BY <1>2, <1>10, <2>1 DEF Top, T, IsLast
  <2>3. ASSUME NEW i \in 0 .. 2 * u.avail - 1, 2 * T + i < Height
        PROVE  Luma(u, i) = 2 * T + i
    <3>1. i \in 0 .. 2 * M - 1
      BY <1>1, <1>2, <2>1
    <3>. QED  BY <1>4, <1>6, <2>1, <2>3, <3>1
  <2>4. ASSUME NEW g \in 0 .. u.avail
        PROVE  Chroma(u, g) = Clamped(T + g)
    <3>1. g \in 0 .. M - 1 /\ T + g < ChromaRows /\ T + g \in 0 .. ChromaRows - 1
      BY <1>1, <1>2, <2>1
    <3>2. Chroma(u, g) = T + g
      BY <1>4, <1>6, <2>1, <3>1
    <3>. QED  BY <3>1, <3>2, ClampedRows
  <2>5. Clear(u)
    BY <2>2, <2>3, <2>4 DEF Clear
  <2>6. Ongoing(u)
    <3>1. Body(u)
      BY <1>4, <1>6, <2>1, <2>2 DEF Body
    <3>. QED  BY <1>2, <1>8, <2>1, <2>2, <3>1 DEF Ongoing
  <2>7. Given(u) = 0 /\ 2 * T = 2 * T + 2 * u.rowgroup + Given(u) /\ u.rowgroup < u.avail
    <3>1. Given(u) = 0
      BY <1>1, <1>2, <2>1 DEF Given
    <3>. QED  BY <1>1, <1>2, <2>1, <3>1
  <2>8. SecondRight(u, 2 * T)
    BY <1>2, <2>1 DEF SecondRight
  <2>9. Above(t) => Above(u)
    BY <1>4, <2>1, <2>2 DEF Above, T
  <2>10. InGroups(u, 2 * T)
    BY <1>1, <1>2, <2>1, <2>2, <2>5, <2>6, <2>7, <2>8 DEF InGroups
  <2>. QED  BY <1>1, <1>2, <2>1, <2>9, <2>10 DEF T, u
<1>. QED  BY <1>9, <1>10

(* CTX_PREPARE_FOR_IMCU gives the next lines.                                *)
LEMMA PreparesMixed ==
  ASSUME Mixed, NEW t, Machine(t), Prepared(t), Above(t), NEW s \in Nat, NEW p \in Nat,
         p = 2 * Top(t), s <= p, t.out = RowsOf(s, p), NEW room \in Nat, p - s < room,
         t.toGo > 0, t.toGo = Height - p \/ room = 1
  PROVE  \E n \in 1..2 : Served(t, Prepare(t, room), s, p, n, room)
<1>. DEFINE u == Started(t)
<1>1. /\ Machine(u) /\ InGroups(u, p) /\ u.out = t.out
      /\ u.toGo = t.toGo /\ u.scan = t.scan /\ Above(u)
  BY Starts
<1>2. Prepare(t, room) = ProcessIMCU(u, room)
  BY DEF Prepare, Started
<1>. HIDE DEF u
<1>3. p < Height
  BY DEF Prepared
<1>4. PICK n \in 1..2 : Served(u, ProcessIMCU(u, room), s, p, n, room)
  BY <1>1, <1>3, ProcessesMixed
<1>5. Served(t, ProcessIMCU(u, room), s, p, n, room)
  BY <1>1, <1>4 DEF Served
<1>. QED  BY <1>2, <1>5

(* After a jump it gives some row and goes on from there.                    *)
LEMMA PreparesJumped ==
  ASSUME Mixed, NEW t, Machine(t), Prepared(t), NEW p \in Nat, p = 2 * Top(t), t.out = <<>>,
         t.toGo > 0
  PROVE  LET r == Prepare(t, 1)
         IN /\ Machine(r) /\ Len(r.out) = 1 /\ r.toGo = t.toGo - 1 /\ r.scan = t.scan
            /\ p + 1 < Height => AtLine(r, p + 1)
<1>. DEFINE u == Started(t)
<1>1. /\ Machine(u) /\ InGroups(u, p) /\ u.out = t.out /\ u.next = V
      /\ u.toGo = t.toGo /\ u.scan = t.scan
  BY Starts
<1>2. Prepare(t, 1) = ProcessIMCU(u, 1)
  BY DEF Prepare, Started
<1>. HIDE DEF u
<1>3. p < Height
  BY DEF Prepared
<1>4. LET r == ProcessIMCU(u, 1)
      IN /\ Machine(r) /\ Len(r.out) = 1 /\ r.toGo = u.toGo - 1 /\ r.scan = u.scan
         /\ p + 1 < Height => AtLine(r, p + 1)
  BY <1>1, <1>3, ProcessesJumped
<1>. QED  BY <1>1, <1>2, <1>4

-----------------------------------------------------------------------------
(* A call at the end of an iMCU row, and a whole call. *)

(* The next iMCU row is in the buffer while the last row group of the one    *)
(* before is used.                                                           *)
Waiting(t, p) ==
  /\ t.ctx = "postponed" /\ t.full /\ t.rowgroup = M + 1 /\ t.avail = M + 2
  /\ t.imcu > 1 /\ p = 2 * Top(t) - 2 + Given(t) /\ 2 * Top(t) < Height /\ t.xbuffer = WrapLists
  /\ Body(t) /\ Above(t) /\ SecondRight(t, p)
  /\ Given(t) = 0 => Previous(t, Top(t))

(* The postponed row group is that of the next line.                         *)
LEMMA GroupWaiting ==
  ASSUME Mixed, NEW t, Machine(t), NEW p \in Nat, Waiting(t, p)
  PROVE  LET e == Top(t) - 1
         IN /\ e \in Nat /\ p = 2 * e + Given(t) /\ SecondRight(t, 2 * e + 1)
            /\ Given(t) = 0 => Group(t, e) /\ AboveGroup(t, e)
<1>. DEFINE e == Top(t) - 1
            T == Top(t)
<1>1. /\ M \in Nat /\ M >= 2 /\ Height \in Nat /\ ChromaRows \in Nat /\ Height <= 2 * ChromaRows
      /\ T \in Nat /\ T >= M /\ 2 * T < Height /\ t.rowgroup = M + 1 /\ Given(t) \in 0..1
      /\ t.which \in {0, 1}
  <2>1. t.imcu > 1 /\ t.imcu > 0 /\ t.imcu \in Nat
    BY DEF Waiting, Machine
  <2>2. t.imcu - 1 \in Nat /\ t.imcu - 2 \in Nat /\ t.imcu - 2 + 1 = t.imcu - 1
    BY <2>1
  <2>3. M \in Nat /\ M >= 2
    BY MixedFacts
  <2>4. (t.imcu - 2) * M \in Nat
    BY <2>2, <2>3, ProductIsNat
  <2>5. (t.imcu - 2 + 1) * M = (t.imcu - 2) * M + 1 * M
    BY <2>2, <2>3, SumTimes
  <2>6. T = (t.imcu - 2) * M + M
    BY <2>2, <2>3, <2>5 DEF Top
  <2>7. T \in Nat /\ T >= M
    <3>. HIDE DEF T
    <3>. QED  BY <2>3, <2>4, <2>6
  <2>. QED  BY <2>3, <2>7, MixedFacts, GivenFacts DEF Waiting, Machine
<1>2. p = 2 * T - 2 + Given(t)
  BY DEF Waiting
<1>3. SecondRight(t, 2 * e + 1)
  <2>1. t.next = 1 => Given(t) = 1
    BY MixedFacts DEF Given
  <2>2. t.next = 1 => p = 2 * e + 1
    <3>. HIDE DEF T
    <3>1. e = T - 1
      BY DEF T
    <3>. QED  BY <1>1, <1>2, <2>1, <3>1
  <2>. QED  BY <2>2 DEF Waiting, SecondRight
<1>4. ASSUME Given(t) = 0
      PROVE  Group(t, e) /\ AboveGroup(t, e)
  <2>1. /\ \A j \in 0 .. 3 : Luma(t, 2 * M + j) = 2 * T - 4 + j
        /\ \A j \in 0 .. 1 : Chroma(t, M + j) = T - 2 + j
    BY <1>4 DEF Waiting, Previous
  <2>2. Chroma(t, 0) = T
    <3>1. 0 \in 0 .. M - 1 /\ T + 0 < ChromaRows
      BY <1>1
    <3>2. Chroma(t, 0) = T + 0
      BY <3>1 DEF Waiting, Body
    <3>. QED  BY <1>1, <3>2
  <2>. HIDE DEF T
  <2>3. e = T - 1 /\ e \in Nat
    BY <1>1 DEF T
  <2>. HIDE DEF e
  <2>4. ASSUME NEW k \in 0..1
        PROVE  Luma(t, 2 * t.rowgroup + k) = 2 * e + k
    <3>1. 2 + k \in 0..3 /\ 2 * t.rowgroup + k = 2 * M + (2 + k) /\ 2 * T - 4 + (2 + k) = 2 * e + k
      BY <1>1, <2>3
    <3>. QED  BY <2>1, <3>1
  <2>5. Chroma(t, t.rowgroup) = e
    <3>1. T - 2 + 1 = e
      BY <1>1, <2>3
    <3>. QED  BY <1>1, <2>1, <3>1
  <2>6. Chroma(t, t.rowgroup - 1) = Clamped(e - 1)
    <3>1. t.rowgroup - 1 = M + 0 /\ T - 2 + 0 = e - 1 /\ e - 1 \in 0 .. ChromaRows - 1
      BY <1>1, <2>3
    <3>. QED  BY <2>1, <3>1, ClampedRows
  <2>7. Chroma(t, t.rowgroup + 1) = Clamped(e + 1)
    <3>1. RGroup("C") = 1 /\ Depth("C") = M
      BY Sizes
    <3>2. RowAt(t, t.which, "C", Depth("C") + 2 * RGroup("C") + 0) = RowAt(t, t.which, "C", 0)
      <4>1. 0 \in 0 .. RGroup("C") - 1 /\ t.xbuffer = WrapLists
        BY <3>1 DEF Waiting
      <4>. QED  BY <1>1, <4>1, RowAround
    <3>3. t.rowgroup + 1 = M + 2 * 1 + 0
      BY <1>1
    <3>4. e + 1 = T /\ T \in 0 .. ChromaRows - 1
      BY <1>1, <2>3
    <3>5. Chroma(t, t.rowgroup + 1) = Chroma(t, 0)
      BY <3>1, <3>2, <3>3 DEF Chroma
    <3>. QED  BY <2>2, <3>4, <3>5, ClampedRows
  <2>. QED  BY <2>4, <2>5, <2>6, <2>7 DEF Group, AboveGroup
<1>5. e \in Nat /\ p = 2 * e + Given(t)
  <2>. HIDE DEF T
  <2>1. e = T - 1
    BY DEF T
  <2>. QED  BY <1>1, <1>2, <2>1
<1>. HIDE DEF e
<1>. QED  BY <1>3, <1>4, <1>5 DEF e

(* A call that goes on where another part of it has ended.                   *)
LEMMA ServedOn ==
  ASSUME Mixed, NEW t, Machine(t), NEW v, Machine(v), NEW r, NEW s \in Nat, NEW p \in Nat,
         NEW q \in Nat, NEW n \in Nat, NEW k \in Nat, NEW room \in Nat, Served(v, r, s, q, n, room), q + n = p + k, v.toGo - n = t.toGo - k,
         n <= v.toGo => k <= t.toGo, v.scan = t.scan
  PROVE  Served(t, r, s, p, k, room)
<1>0. Height \in Nat /\ t.toGo \in Nat /\ v.toGo \in Nat
  BY MixedFacts DEF Machine
<1>1. PICK x \in Nat : x = q + n
  OBVIOUS
<1>2. x = p + k
  BY <1>1
<1>3. /\ Machine(r) /\ n <= v.toGo /\ x <= Height /\ x - s <= room
      /\ r.out = RowsOf(s, x) /\ r.toGo = v.toGo - n /\ r.scan = v.scan
      /\ x < Height => AtLine(r, x)
  BY <1>0, <1>1 DEF Served
<1>. QED  BY <1>0, <1>2, <1>3 DEF Served

(* CTX_POSTPONED_ROW gives the next lines, with those of the next iMCU row.  *)
LEMMA PostponedMixed ==
  ASSUME Mixed, NEW t, Machine(t), NEW s \in Nat, NEW p \in Nat, Waiting(t, p), s <= p,
         t.out = RowsOf(s, p), NEW room \in Nat, p - s < room,
         t.toGo > 0, t.toGo = Height - p \/ room = 1
  PROVE  \E n \in 1..4 : Served(t, Postponed(t, room), s, p, n, room)
<1>. DEFINE e == Top(t) - 1
            u == Upsample(t, room)
<1>1. /\ e \in Nat /\ p = 2 * e + Given(t) /\ SecondRight(t, 2 * e + 1)
      /\ Given(t) = 0 => Group(t, e) /\ AboveGroup(t, e)
  BY GroupWaiting
<1>2. /\ Given(t) \in 0..1 /\ Height \in Nat /\ V = 2 /\ M \in Nat /\ Top(t) \in Nat
      /\ 2 * Top(t) < Height /\ t.toGo \in Nat
  BY MixedFacts, GivenFacts, TopFacts DEF Waiting, Machine
<1>3. p < Height
  BY <1>1, <1>2
<1>. HIDE DEF e
<1>4. PICK m \in 1..2 : /\ Gave(t, u, m) /\ p + m <= Height /\ p + m - s <= room
                        /\ u.out = RowsOf(s, p + m) /\ SecondRight(u, 2 * e + 1)
  <2>1. AboveGroup(t, e) \/ Given(t) = 1
    BY <1>1, <1>2
  <2>2. /\ e \in Nat /\ (Given(t) = 0 => Group(t, e)) /\ SecondRight(t, 2 * e + 1)
        /\ p = 2 * e + Given(t)
    BY <1>1
  <2>. QED  BY <1>3, <2>1, <2>2, UpsamplesMixed
<1>. HIDE DEF u
<1>5. /\ Machine(u) /\ m <= t.toGo /\ Given(t) + m \in 1..2 /\ u.next = Given(t) + m
      /\ u.toGo = t.toGo - m /\ u.rowgroup = IF Given(t) + m = 2 THEN t.rowgroup + 1 ELSE t.rowgroup
      /\ u.full = t.full /\ u.which = t.which /\ u.ctx = t.ctx /\ u.avail = t.avail /\ u.imcu = t.imcu
      /\ u.scan = t.scan /\ u.xbuffer = t.xbuffer /\ u.work = t.work
  BY <1>4 DEF Gave
<1>6. /\ t.ctx = "postponed" /\ t.full /\ t.rowgroup = M + 1 /\ t.avail = M + 2
      /\ t.imcu > 1 /\ t.xbuffer = WrapLists /\ Body(t) /\ Above(t)
  BY DEF Waiting
<1>7. Top(u) = Top(t) /\ Body(u) /\ Above(u)
  <2>1. \A i : Luma(u, i) = Luma(t, i) /\ Chroma(u, i) = Chroma(t, i)
    BY <1>5, SameView
  <2>2. Top(u) = Top(t)
    BY <1>5 DEF Top
  <2>. QED  BY <1>6, <2>1, <2>2 DEF Body, Above
<1>8. Postponed(t, room) = AfterPostponed(u, room)
  BY DEF Postponed, u
<1>9. 2 * e = 2 * Top(t) - 2
  BY <1>2 DEF e
<1>10. CASE Given(t) + m = 1
  <2>1. u.rowgroup < u.avail /\ u.next = 1 /\ u.rowgroup = M + 1
    BY <1>2, <1>5, <1>6, <1>10
  <2>2. AfterPostponed(u, room) = u
    BY <2>1 DEF AfterPostponed
  <2>3. p + m = 2 * Top(u) - 1 /\ p + m = 2 * e + 1
    BY <1>1, <1>2, <1>7, <1>9, <1>10
  <2>4. Postponing(u, p + m)
    BY <1>2, <1>4, <1>5, <1>6, <1>7, <2>1, <2>3 DEF Postponing
  <2>5. Served(t, Postponed(t, room), s, p, m, room)
    BY <1>4, <1>5, <1>8, <2>2, <2>4 DEF Served, AtLine
  <2>6. m \in 1..4
    OBVIOUS
  <2>. QED  BY <2>5, <2>6
<1>11. CASE Given(t) + m = 2
  <2>. DEFINE v == [u EXCEPT !.ctx = "prepare"]
  <2>1. ~(u.rowgroup < u.avail) /\ u.next = V
    BY <1>2, <1>5, <1>6, <1>11
  <2>2. p + m = 2 * Top(t) /\ p + m < Height
    BY <1>1, <1>2, <1>9, <1>11
  <2>3. /\ Machine(v) /\ v.ctx = "prepare" /\ v.full = u.full /\ v.which = u.which /\ v.imcu = u.imcu
        /\ v.xbuffer = u.xbuffer /\ v.work = u.work /\ v.next = u.next /\ v.out = u.out
        /\ v.toGo = u.toGo /\ v.scan = u.scan
    BY <1>5 DEF Machine
  <2>. HIDE DEF v
  <2>4. Top(v) = Top(t) /\ Body(v) /\ Above(v)
    <3>1. \A i : Luma(v, i) = Luma(u, i) /\ Chroma(v, i) = Chroma(u, i)
      BY <2>3, SameView
    <3>2. Top(v) = Top(u)
      BY <2>3 DEF Top
    <3>. QED  BY <1>7, <3>1, <3>2 DEF Body, Above
  <2>5. Len(u.out) = p + m - s
    <3>1. PICK q \in Nat : q = p + m
      OBVIOUS
    <3>2. s <= q
      BY <3>1
    <3>. QED  BY <1>4, <3>1, <3>2, RowsLength
  <2>6. CASE Len(u.out) >= room
    <3>1. Postponed(t, room) = v
      BY <1>8, <2>1, <2>6 DEF AfterPostponed, v
    <3>2. Ready(v, p + m)
      BY <1>5, <1>6, <2>1, <2>2, <2>3, <2>4 DEF Ready
    <3>3. Served(t, v, s, p, m, room)
      BY <1>4, <1>5, <2>3, <3>2 DEF Served, AtLine
    <3>4. m \in 1..4
      OBVIOUS
    <3>. QED  BY <3>1, <3>3, <3>4
  <2>7. CASE ~(Len(u.out) >= room)
    <3>1. Postponed(t, room) = Prepare(v, room)
      BY <1>8, <2>1, <2>7 DEF AfterPostponed, v
    <3>2. Prepared(v)
      <4>1. v.imcu > 1 /\ v.imcu \in Nat
        BY <1>5, <1>6, <2>3 DEF Machine
      <4>2. v.imcu > 0
        BY <4>1
      <4>3. v.full /\ v.next = V /\ v.xbuffer = WrapLists
        BY <1>5, <1>6, <2>1, <2>3
      <4>. QED  BY <1>2, <2>4, <4>2, <4>3 DEF Prepared
    <3>. DEFINE q == p + m
    <3>3. q \in Nat /\ q = 2 * Top(v) /\ s <= q /\ v.out = RowsOf(s, q) /\ q - s < room
      BY <1>1, <1>4, <2>2, <2>3, <2>4, <2>5, <2>7
    <3>4. room # 1
      BY <1>1, <2>5, <2>7
    <3>5. v.toGo = Height - q /\ v.toGo > 0
      BY <1>1, <1>2, <1>5, <2>2, <2>3, <3>4
    <3>6. q = p + m
      OBVIOUS
    <3>. HIDE DEF q
    <3>7. PICK n \in 1..2 : Served(v, Prepare(v, room), s, q, n, room)
      BY <2>3, <2>4, <3>2, <3>3, <3>5, PreparesMixed
    <3>8. PICK k \in 1..4 : k = m + n
      OBVIOUS
    <3>9. q + n = p + k /\ v.toGo - n = t.toGo - k /\ (n <= v.toGo => k <= t.toGo)
          /\ v.scan = t.scan
      <4>1. v.toGo = t.toGo - m /\ t.toGo \in Nat /\ v.scan = t.scan
        BY <1>2, <1>5, <2>3
      <4>2. q + n = p + k
        BY <3>6, <3>8
      <4>3. v.toGo - n = t.toGo - k
        BY <3>8, <4>1
      <4>4. n <= v.toGo => k <= t.toGo
        BY <3>8, <4>1
      <4>. QED  BY <4>1, <4>2, <4>3, <4>4
    <3>10. Served(t, Prepare(v, room), s, p, k, room)
      <4>1. k \in Nat /\ n \in Nat /\ q \in Nat
        BY <3>3
      <4>. HIDE DEF q
      <4>. QED  BY <2>3, <3>7, <3>9, <4>1, ServedOn
    <3>. QED  BY <3>1, <3>10
  <2>. QED  BY <2>6, <2>7
<1>. QED  BY <1>5, <1>10, <1>11

(* The rows given, the rows to go and output_scanline do not move the        *)
(* decompressor.                                                             *)
LEMMA SameLine ==
  ASSUME NEW t, NEW u, NEW p, AtLine(t, p), u.full = t.full, u.rowgroup = t.rowgroup,
         u.which = t.which, u.ctx = t.ctx, u.avail = t.avail, u.imcu = t.imcu,
         u.xbuffer = t.xbuffer, u.work = t.work, u.next = t.next, u.luma = t.luma,
         u.chroma = t.chroma
  PROVE  AtLine(u, p)
<1>1. \A i : Luma(u, i) = Luma(t, i) /\ Chroma(u, i) = Chroma(t, i)
  BY SameView
<1>2. Top(u) = Top(t) /\ Given(u) = Given(t) /\ (IsLast(u) <=> IsLast(t))
  BY DEF Top, Given, IsLast
<1>3. Pixels(u, 1) = Pixels(t, 1)
  BY SamePixels
<1>4. /\ Body(t) => Body(u)
      /\ Above(t) => Above(u)
      /\ Clear(t) => Clear(u)
      /\ SecondRight(t, p) => SecondRight(u, p)
      /\ Previous(t, t.imcu * M) => Previous(u, u.imcu * M)
  BY <1>1, <1>2, <1>3 DEF Body, Above, Clear, SecondRight, Previous
<1>5. Ongoing(t) => Ongoing(u)
  BY <1>2, <1>4 DEF Ongoing
<1>6. CASE Fresh(t, p)
  BY <1>6 DEF Fresh, AtLine
<1>7. CASE Ready(t, p)
  BY <1>2, <1>4, <1>7 DEF Ready, AtLine
<1>8. CASE Working(t, p)
  BY <1>2, <1>4, <1>5, <1>8 DEF Working, AtLine
<1>9. CASE Switched(t, p)
  BY <1>4, <1>9 DEF Switched, AtLine
<1>10. CASE Postponing(t, p)
  BY <1>2, <1>4, <1>10 DEF Postponing, AtLine
<1>. QED  BY <1>6, <1>7, <1>8, <1>9, <1>10 DEF AtLine

(* Where the call begins when the next iMCU row is in the buffer. *)
Begun(t, p) ==
  \/ t.ctx = "prepare" /\ Prepared(t) /\ Above(t) /\ p = 2 * Top(t)
  \/ InGroups(t, p) /\ (t.rowgroup > 0 \/ t.next = 1)
  \/ Waiting(t, p)

(* Above the first row of the picture is the first row. *)
LEMMA FirstAbove ==
  ASSUME Mixed, NEW t, Machine(t), t.imcu = 1, t.which = 0, t.xbuffer = StartLists, Body(t)
  PROVE  Top(t) = 0 /\ Above(t)
<1>1. M \in Nat /\ M >= 2 /\ ChromaRows \in Nat \ {0}
  BY MixedFacts
<1>2. Top(t) = 0
  <2>1. t.imcu - 1 = 0
    OBVIOUS
  <2>. QED  BY <1>1, <2>1 DEF Top
<1>3. RGroup("C") = 1 /\ Depth("C") = M /\ Offsets("C") = -1 .. M + 2
  BY <1>1, Sizes
<1>4. Chroma(t, 0) = t.work["C"][0]
  <2>1. 0 \in 0 .. Depth("C") + 2 * RGroup("C") - 1
    BY <1>1, <1>3
  <2>2. RowAt(t, 0, "C", 0) = t.work["C"][Place(0, RGroup("C"), Depth("C"), 0)]
    BY <2>1, RowBehind
  <2>3. Place(0, RGroup("C"), Depth("C"), 0) = 0
    BY DEF Place
  <2>. QED  BY <2>2, <2>3 DEF Chroma
<1>5. Chroma(t, -1) = t.work["C"][0]
  <2>1. -1 \in Offsets("C") /\ -1 < 0
    BY <1>1, <1>3
  <2>2. FunnyPointers(0, "C")[-1] = 0
    <3>1. -1 \notin Workspace("C")
      <4>1. Workspace("C") = 0 .. Depth("C") + 2 * RGroup("C") - 1
        BY Sizes
      <4>2. Workspace("C") = 0 .. M + 1
        BY <1>1, <1>3, <4>1
      <4>. QED  BY <1>1, <4>2
    <3>2. FunnyPointers(0, "C")[-1] =
            CASE -1 < 0 -> 0
              [] -1 \in Workspace("C") -> -1
              [] OTHER -> Unset
      BY <2>1 DEF FunnyPointers
    <3>. QED  BY <2>1, <3>1, <3>2
  <2>3. t.xbuffer[0]["C"][-1] = 0
    BY <2>2 DEF StartLists
  <2>. QED  BY <2>1, <2>3 DEF Chroma, RowAt, Unset
<1>6. Chroma(t, 0) = 0
  <2>1. 0 \in 0 .. M - 1 /\ 0 + 0 < ChromaRows /\ 0 + 0 = 0
    BY <1>1
  <2>. QED  BY <1>2, <2>1 DEF Body
<1>7. Top(t) - 1 = -1
  BY <1>2
<1>. QED  BY <1>2, <1>4, <1>5, <1>6, <1>7, ClampedRows DEF Above

(* Loading an iMCU row leaves the decompressor ready to give the next line.  *)
LEMMA Begins ==
  ASSUME Mixed, NEW t, Machine(t), NEW p \in Nat, p < Height, AtLine(t, p)
  PROVE  LET u == Load(t)
         IN Machine(u) /\ Begun(u, p) /\ u.out = t.out /\ u.toGo = t.toGo /\ u.scan = t.scan
<1>. DEFINE u == Load(t)
<1>0. M \in Nat /\ M >= 2 /\ Height \in Nat \ {0} /\ V = 2 /\ t.imcu \in Nat /\ t.full \in BOOLEAN
  BY MixedFacts DEF Machine
<1>1. CASE Fresh(t, p)
  <2>1. ~t.full /\ t.xbuffer \in {StartLists, WrapLists}
    BY <1>1 DEF Fresh
  <2>2. /\ Machine(u) /\ Body(u) /\ u.full = TRUE /\ u.imcu = t.imcu + 1
        /\ u.which = t.which /\ u.ctx = t.ctx /\ u.scan = t.scan /\ u.out = t.out
        /\ u.xbuffer = t.xbuffer /\ u.next = t.next /\ u.toGo = t.toGo
    BY <2>1, LoadsMixed
  <2>. HIDE DEF u
  <2>3. t.imcu = 0 /\ t.which = 0 /\ t.xbuffer = StartLists /\ t.ctx = "prepare" /\ t.next = V /\ p = 0
    BY <1>1 DEF Fresh
  <2>4. u.imcu = 1
    BY <2>2, <2>3
  <2>5. Top(u) = 0 /\ Above(u)
    BY <2>2, <2>3, <2>4, FirstAbove
  <2>6. Prepared(u)
    BY <1>0, <2>2, <2>3, <2>4, <2>5 DEF Prepared
  <2>7. p = 2 * Top(u)
    BY <2>3, <2>5
  <2>. QED  BY <2>2, <2>3, <2>5, <2>6, <2>7 DEF Begun, u
<1>2. CASE Ready(t, p)
  <2>1. u = t
    BY <1>2 DEF Ready, Load
  <2>2. t.imcu > 0 /\ 2 * Top(t) < Height
    BY <1>0, <1>2 DEF Ready
  <2>3. Prepared(t) /\ Above(t)
    BY <1>2, <2>2 DEF Ready, Prepared
  <2>4. Begun(t, p)
    BY <1>2, <2>3 DEF Ready, Begun
  <2>. HIDE DEF u
  <2>. QED  BY <2>1, <2>4 DEF u
<1>3. CASE Working(t, p)
  <2>1. u = t
    BY <1>3 DEF Working, Load
  <2>2. Begun(t, p)
    BY <1>3 DEF Working, InGroups, Begun
  <2>. HIDE DEF u
  <2>. QED  BY <2>1, <2>2 DEF u
<1>4. CASE Postponing(t, p)
  <2>1. u = t
    BY <1>4 DEF Postponing, Load
  <2>2. Given(t) = 1
    BY <1>0, <1>4 DEF Postponing, Given
  <2>3. p = 2 * Top(t) - 2 + Given(t)
    <3>1. Top(t) \in Int
      BY <1>0, TopFacts, <1>4 DEF Postponing
    <3>. QED  BY <1>4, <2>2, <3>1 DEF Postponing
  <2>4. Waiting(t, p)
    BY <1>4, <2>2, <2>3 DEF Postponing, Waiting
  <2>. HIDE DEF u
  <2>. QED  BY <2>1, <2>4 DEF u, Begun
<1>5. CASE Switched(t, p)
  <2>1. ~t.full /\ t.xbuffer \in {StartLists, WrapLists}
    BY <1>5 DEF Switched
  <2>2. /\ Machine(u) /\ Body(u) /\ u.full = TRUE /\ u.imcu = t.imcu + 1
        /\ u.rowgroup = t.rowgroup /\ u.which = t.which /\ u.ctx = t.ctx /\ u.avail = t.avail
        /\ u.scan = t.scan /\ u.out = t.out /\ u.xbuffer = t.xbuffer /\ u.next = t.next
        /\ u.toGo = t.toGo
        /\ \A j \in 0..3 : Luma(u, 2 * M + j) = Luma(t, 2 * M + j)
        /\ \A j \in 0..1 : Chroma(u, M + j) = Chroma(t, M + j)
    BY <2>1, LoadsMixed
  <2>. HIDE DEF u
  <2>3. /\ t.ctx = "postponed" /\ t.next = V /\ t.rowgroup = M + 1 /\ t.avail = M + 2
        /\ t.imcu > 0 /\ p = 2 * (t.imcu * M) - 2 /\ 2 * (t.imcu * M) < Height
        /\ t.xbuffer = WrapLists /\ Previous(t, t.imcu * M)
    BY <1>5 DEF Switched
  <2>4. Top(u) = t.imcu * M
    <3>1. u.imcu - 1 = t.imcu
      BY <1>0, <2>2
    <3>. QED  BY <3>1 DEF Top
  <2>5. Top(u) \in Nat /\ Top(u) >= 2
    <3>1. t.imcu \in Nat \ {0}
      BY <1>0, <2>3
    <3>2. t.imcu - 1 \in Nat /\ t.imcu - 1 + 1 = t.imcu
      BY <3>1
    <3>3. (t.imcu - 1) * M \in Nat
      BY <1>0, <3>2, ProductIsNat
    <3>4. (t.imcu - 1 + 1) * M = (t.imcu - 1) * M + 1 * M
      BY <1>0, <3>2, SumTimes
    <3>5. t.imcu * M = (t.imcu - 1) * M + M
      BY <1>0, <3>2, <3>4
    <3>. QED  BY <1>0, <2>4, <3>3, <3>5
  <2>6. Previous(u, Top(u))
    BY <2>2, <2>3, <2>4 DEF Previous
  <2>7. Given(u) = 0
    BY <1>0, <2>2, <2>3 DEF Given
  <2>8. Above(u)
    <3>1. RGroup("C") = 1 /\ Depth("C") = M /\ u.which \in {0, 1}
      BY <2>2, Sizes DEF Machine
    <3>2. RowAt(u, u.which, "C", -1 - 0) = RowAt(u, u.which, "C", Depth("C") + 2 * RGroup("C") - 1 - 0)
      <4>1. 0 \in 0 .. RGroup("C") - 1 /\ u.xbuffer = WrapLists
        BY <2>2, <2>3, <3>1
      <4>. QED  BY <3>1, <4>1, RowAround
    <3>3. -1 - 0 = -1 /\ Depth("C") + 2 * RGroup("C") - 1 - 0 = M + 1
      BY <1>0, <3>1
    <3>4. Chroma(u, -1) = Chroma(u, M + 1)
      BY <3>2, <3>3 DEF Chroma
    <3>5. Chroma(u, M + 1) = Top(u) - 2 + 1
      BY <2>6 DEF Previous
    <3>6. Top(u) - 2 + 1 = Top(u) - 1 /\ Top(u) - 1 \in 0 .. ChromaRows - 1
      BY <1>0, <2>3, <2>4, <2>5, MixedFacts
    <3>7. Clamped(Top(u) - 1) = Top(u) - 1
      BY <3>6, ClampedRows
    <3>. QED  BY <3>4, <3>5, <3>6, <3>7 DEF Above
  <2>9. p = 2 * Top(u) - 2 + Given(u) /\ 2 * Top(u) < Height /\ u.imcu > 1
    <3>1. p = 2 * Top(u) - 2 /\ 2 * Top(u) < Height
      BY <2>3, <2>4
    <3>. QED  BY <1>0, <2>2, <2>3, <2>5, <2>7, <3>1
  <2>10. SecondRight(u, p)
    BY <1>0, <2>2, <2>3 DEF SecondRight
  <2>11. Waiting(u, p)
    BY <2>2, <2>3, <2>6, <2>8, <2>9, <2>10 DEF Waiting
  <2>. QED  BY <2>2, <2>11 DEF Begun, u
<1>. QED  BY <1>1, <1>2, <1>3, <1>4, <1>5 DEF AtLine

(* A call to read gives the next rows of the picture, one at least.          *)
LEMMA ReadsMixed ==
  ASSUME Mixed, NEW t, Machine(t), NEW p \in Nat, t.scan = p, p < Height, AtLine(t, p),
         NEW lines \in Nat \ {0}, t.toGo > 0, t.toGo = Height - p \/ lines = 1
  PROVE  LET r == ReadScanlines(t, lines)
         IN \E n \in 1 .. lines :
              /\ Machine(r) /\ p + n <= Height /\ r.scan = p + n /\ r.toGo = t.toGo - n
              /\ r.out = RowsOf(p, p + n)
              /\ p + n < Height => AtLine(r, p + n)
<1>. DEFINE s == [t EXCEPT !.out = <<>>]
            u == Load(s)
            e == ProcessLoaded(u, lines)
            r == ReadScanlines(t, lines)
<1>0. Height \in Nat /\ shape.context = TRUE
  BY MixedFacts
<1>1. /\ Machine(s) /\ s.out = <<>> /\ s.scan = p /\ s.toGo = t.toGo /\ s.full = t.full
      /\ s.rowgroup = t.rowgroup /\ s.which = t.which /\ s.ctx = t.ctx /\ s.avail = t.avail
      /\ s.imcu = t.imcu /\ s.xbuffer = t.xbuffer /\ s.work = t.work /\ s.next = t.next
      /\ s.luma = t.luma /\ s.chroma = t.chroma
  BY DEF Machine
<1>2. r = Scanned(e)
  BY <1>0 DEF ReadScanlines, ProcessContext
<1>. HIDE DEF s, r
<1>3. AtLine(s, p)
  BY <1>1, SameLine
<1>4. Machine(u) /\ Begun(u, p) /\ u.out = <<>> /\ u.toGo = t.toGo /\ u.scan = p
  BY <1>1, <1>3, Begins
<1>. HIDE DEF u
<1>5. u.out = RowsOf(p, p) /\ p - p = 0
  BY <1>4 DEF RowsOf
<1>6. \E n \in 1..4 : Served(u, e, p, p, n, lines)
  <2>0. u.toGo > 0 /\ (u.toGo = Height - p \/ lines = 1) /\ p - p < lines /\ p <= p
    BY <1>4, <1>5
  <2>1. CASE u.ctx = "prepare" /\ Prepared(u) /\ Above(u) /\ p = 2 * Top(u)
    <3>1. e = Prepare(u, lines)
      BY <2>1 DEF ProcessLoaded
    <3>2. \E n \in 1..2 : Served(u, Prepare(u, lines), p, p, n, lines)
      BY <1>4, <1>5, <2>0, <2>1, PreparesMixed
    <3>. QED  BY <3>1, <3>2
  <2>2. CASE InGroups(u, p) /\ (u.rowgroup > 0 \/ u.next = 1)
    <3>1. e = ProcessIMCU(u, lines)
      BY <2>2 DEF ProcessLoaded, InGroups
    <3>2. \E n \in 1..2 : Served(u, ProcessIMCU(u, lines), p, p, n, lines)
      BY <1>4, <1>5, <2>0, <2>2, ProcessesMixed
    <3>. QED  BY <3>1, <3>2
  <2>3. CASE Waiting(u, p)
    <3>1. e = Postponed(u, lines)
      BY <2>3 DEF ProcessLoaded, Waiting
    <3>2. \E n \in 1..4 : Served(u, Postponed(u, lines), p, p, n, lines)
      BY <1>4, <1>5, <2>0, <2>3, PostponedMixed
    <3>. QED  BY <3>1, <3>2
  <2>. QED  BY <1>4, <2>1, <2>2, <2>3 DEF Begun
<1>7. PICK n \in 1..4 : Served(u, e, p, p, n, lines)
  BY <1>6
<1>. HIDE DEF e
<1>8. /\ Machine(e) /\ p + n <= Height /\ n <= lines
      /\ e.out = RowsOf(p, p + n) /\ e.toGo = t.toGo - n /\ e.scan = p
      /\ p + n < Height => AtLine(e, p + n)
  <2>1. /\ Machine(e) /\ p + n <= Height /\ p + n - p <= lines
        /\ e.out = RowsOf(p, p + n) /\ e.toGo = u.toGo - n /\ e.scan = u.scan
        /\ p + n < Height => AtLine(e, p + n)
    BY <1>7 DEF Served
  <2>2. p + n - p = n
    OBVIOUS
  <2>. QED  BY <1>4, <2>1, <2>2
<1>9. Len(e.out) = n
  <2>1. PICK q \in Nat : q = p + n
    OBVIOUS
  <2>2. p <= q /\ q - p = n
    BY <2>1
  <2>. QED  BY <1>8, <2>1, <2>2, RowsLength
<1>10. /\ Machine(r) /\ r.scan = p + n /\ r.out = e.out /\ r.toGo = e.toGo /\ r.full = e.full
       /\ r.rowgroup = e.rowgroup /\ r.which = e.which /\ r.ctx = e.ctx /\ r.avail = e.avail
       /\ r.imcu = e.imcu /\ r.xbuffer = e.xbuffer /\ r.work = e.work /\ r.next = e.next
       /\ r.luma = e.luma /\ r.chroma = e.chroma
  <2>1. r = [e EXCEPT !.scan = p + n]
    BY <1>2, <1>8, <1>9 DEF Scanned, Machine
  <2>2. p + n \in Nat
    OBVIOUS
  <2>. QED  BY <1>8, <2>1, <2>2 DEF Machine
<1>11. p + n < Height => AtLine(r, p + n)
  BY <1>8, <1>10, SameLine
<1>12. n \in 1 .. lines
  BY <1>8
<1>. QED  BY <1>8, <1>10, <1>11, <1>12 DEF r

(* After a jump the next iMCU row is the one to be read, its first row to be *)
(* discarded.                                                                *)
Jumped(t, p) ==
  /\ t.ctx = "prepare" /\ ~t.full /\ t.next = V /\ p = 2 * (t.imcu * M) /\ t.xbuffer = WrapLists

(* A single row read after a jump: it may be mixed wrongly, the next is not. *)
LEMMA ReadsJumped ==
  ASSUME Mixed, NEW t, Machine(t), NEW p \in Nat, t.scan = p, p < Height, Jumped(t, p), t.toGo > 0
  PROVE  LET r == ReadScanlines(t, 1)
         IN /\ Machine(r) /\ r.scan = p + 1 /\ r.toGo = t.toGo - 1
            /\ p + 1 < Height => AtLine(r, p + 1)
<1>. DEFINE s == [t EXCEPT !.out = <<>>]
            u == Load(s)
            e == ProcessLoaded(u, 1)
            r == ReadScanlines(t, 1)
<1>0. Height \in Nat /\ shape.context = TRUE /\ M \in Nat /\ t.imcu \in Nat
  BY MixedFacts DEF Machine
<1>1. /\ Machine(s) /\ s.out = <<>> /\ s.scan = p /\ s.toGo = t.toGo /\ s.full = t.full
      /\ s.ctx = t.ctx /\ s.imcu = t.imcu /\ s.xbuffer = t.xbuffer /\ s.next = t.next
  BY DEF Machine
<1>2. r = Scanned(e)
  BY <1>0 DEF ReadScanlines, ProcessContext
<1>. HIDE DEF s, r
<1>3. /\ Machine(u) /\ Body(u) /\ u.full = TRUE /\ u.imcu = t.imcu + 1
      /\ u.ctx = "prepare" /\ u.scan = p /\ u.out = <<>> /\ u.xbuffer = WrapLists /\ u.next = V
      /\ u.toGo = t.toGo
  <2>1. ~s.full /\ s.xbuffer \in {StartLists, WrapLists}
    BY <1>1 DEF Jumped
  <2>2. /\ Machine(u) /\ Body(u) /\ u.full = TRUE /\ u.imcu = s.imcu + 1
        /\ u.ctx = s.ctx /\ u.scan = s.scan /\ u.out = s.out
        /\ u.xbuffer = s.xbuffer /\ u.next = s.next /\ u.toGo = s.toGo
    BY <1>1, <2>1, LoadsMixed
  <2>. HIDE DEF u
  <2>. QED  BY <1>1, <2>2 DEF Jumped
<1>. HIDE DEF u
<1>4. Top(u) = t.imcu * M
  <2>1. u.imcu - 1 = t.imcu
    BY <1>0, <1>3
  <2>. QED  BY <2>1 DEF Top
<1>5. p = 2 * Top(u) /\ 2 * Top(u) < Height
  BY <1>4 DEF Jumped
<1>6. Prepared(u)
  BY <1>0, <1>3, <1>5 DEF Prepared
<1>7. e = Prepare(u, 1)
  BY <1>3 DEF ProcessLoaded
<1>8. /\ Machine(e) /\ Len(e.out) = 1 /\ e.toGo = u.toGo - 1 /\ e.scan = u.scan
      /\ p + 1 < Height => AtLine(e, p + 1)
  BY <1>3, <1>5, <1>6, <1>7, PreparesJumped
<1>. HIDE DEF e
<1>9. /\ Machine(r) /\ r.scan = p + 1 /\ r.out = e.out /\ r.toGo = e.toGo /\ r.full = e.full
      /\ r.rowgroup = e.rowgroup /\ r.which = e.which /\ r.ctx = e.ctx /\ r.avail = e.avail
      /\ r.imcu = e.imcu /\ r.xbuffer = e.xbuffer /\ r.work = e.work /\ r.next = e.next
      /\ r.luma = e.luma /\ r.chroma = e.chroma
  <2>1. r = [e EXCEPT !.scan = p + 1]
    BY <1>2, <1>3, <1>8 DEF Scanned, Machine
  <2>2. p + 1 \in Nat
    OBVIOUS
  <2>. QED  BY <1>8, <2>1, <2>2 DEF Machine
<1>10. p + 1 < Height => AtLine(r, p + 1)
  BY <1>8, <1>9, SameLine
<1>. QED  BY <1>3, <1>8, <1>9, <1>10 DEF r

-----------------------------------------------------------------------------
(* Reading to discard: row after row. *)

(* A set of natural numbers has a least one.                                 *)
LEMMA LeastNumber ==
  ASSUME NEW T, T \subseteq Nat, T # {}
  PROVE  \E x \in T : \A y \in T : x <= y
<1>. DEFINE R == OpToRel(<, Nat)
<1>1. PICK x \in T : \A y \in T : <<y, x>> \notin R
  <2>1. IsWellFoundedOn(R, Nat)
    BY NatLessThanWellFounded
  <2>. HIDE DEF R
  <2>. QED  BY <2>1, WFMin
<1>2. ASSUME NEW y \in T
      PROVE  x <= y
  <2>1. <<y, x>> \notin {pair \in Nat \X Nat : pair[1] < pair[2]}
    BY <1>1 DEF OpToRel
  <2>2. x \in Nat /\ y \in Nat
    OBVIOUS
  <2>. QED  BY <2>1, <2>2
<1>. QED  BY <1>1, <1>2

(* A set with 0 and with the successors of its members up to k has k.        *)
LEMMA Reached ==
  ASSUME NEW S, NEW k \in Nat, 0 \in S, \A n \in 0 .. k - 1 : n \in S => n + 1 \in S
  PROVE  k \in S
<1>. DEFINE T == {n \in 0..k : n \notin S}
<1>. SUFFICES ASSUME k \notin S PROVE FALSE
  OBVIOUS
<1>1. PICK x \in T : \A y \in T : x <= y
  <2>1. k \in T /\ T \subseteq Nat
    OBVIOUS
  <2>. QED  BY <2>1, LeastNumber
<1>2. x # 0 /\ x \in 0..k
  OBVIOUS
<1>3. x - 1 \in 0 .. k - 1 /\ x - 1 + 1 = x
  BY <1>2
<1>4. x - 1 \in S
  BY <1>1, <1>2, <1>3
<1>. QED  BY <1>3, <1>4

(* The decompressors between the rows read. *)
LEMMA Discarded ==
  ASSUME NEW t, NEW lines \in Nat
  PROVE  \E a : /\ a[0] = t
                /\ \A n \in 0 .. lines - 1 : a[n + 1] = ReadScanlines(a[n], 1)
                /\ ReadAndDiscard(t, lines) = [a[lines] EXCEPT !.out = <<>>]
<1>. DEFINE Rec(f, k) == [n \in 0..k |-> IF n = 0 THEN t ELSE ReadScanlines(f[n - 1], 1)]
            S == {k \in Nat : \E f : f = Rec(f, k)}
            after == CHOOSE f : f = Rec(f, lines)
<1>1. 0 \in S
  <2>. DEFINE f == [n \in 0..0 |-> t]
  <2>1. ASSUME NEW n \in 0..0
        PROVE  n = 0
    OBVIOUS
  <2>2. f = [n \in 0..0 |-> IF n = 0 THEN t ELSE ReadScanlines(f[n - 1], 1)]
    BY <2>1, Zenon
  <2>3. f = Rec(f, 0)
    BY <2>2, Zenon
  <2>. HIDE DEF f
  <2>. QED  BY <2>3
<1>2. ASSUME NEW k \in 0 .. lines - 1, k \in S
      PROVE  k + 1 \in S
  <2>1. PICK f : f = Rec(f, k)
    BY <1>2
  <2>. DEFINE g == [n \in 0 .. k + 1 |-> IF n <= k THEN f[n] ELSE ReadScanlines(f[k], 1)]
  <2>2. ASSUME NEW n \in 0 .. k + 1
        PROVE  g[n] = (IF n = 0 THEN t ELSE ReadScanlines(g[n - 1], 1))
    <3>1. CASE n = 0
      <4>1. g[n] = f[0] /\ f[0] = t
        <5>1. 0 \in 0..k /\ 0 \in 0 .. k + 1 /\ 0 <= k
          OBVIOUS
        <5>2. f[0] = t
          BY <2>1, <5>1
        <5>. QED  BY <3>1, <5>1, <5>2
      <4>. QED  BY <3>1, <4>1
    <3>2. CASE n # 0 /\ n <= k
      <4>1. n \in 0..k /\ n - 1 \in 0 .. k + 1 /\ n - 1 <= k
        BY <3>2
      <4>2. f[n] = ReadScanlines(f[n - 1], 1)
        BY <2>1, <3>2, <4>1
      <4>3. g[n] = f[n] /\ g[n - 1] = f[n - 1]
        BY <3>2, <4>1
      <4>. QED  BY <3>2, <4>2, <4>3
    <3>3. CASE n = k + 1
      <4>1. ~(n <= k) /\ n # 0 /\ n - 1 = k /\ k \in 0 .. k + 1 /\ k <= k
        BY <3>3
      <4>2. g[n] = ReadScanlines(f[k], 1) /\ g[k] = f[k]
        BY <4>1
      <4>. QED  BY <4>1, <4>2
    <3>. QED  BY <3>1, <3>2, <3>3
  <2>3. g = [n \in 0 .. k + 1 |-> g[n]]
    OBVIOUS
  <2>. HIDE DEF g
  <2>4. g = Rec(g, k + 1)
    BY <2>2, <2>3
  <2>. QED  BY <2>4
<1>. HIDE DEF Rec
<1>3. lines \in S
  <2>. HIDE DEF S
  <2>. QED  BY <1>1, <1>2, Reached
<1>4. after = Rec(after, lines)
  BY <1>3
<1>5. ReadAndDiscard(t, lines) = [after[lines] EXCEPT !.out = <<>>]
  BY DEF ReadAndDiscard, Rec
<1>. HIDE DEF after
<1>6. after[0] = t
  BY <1>4 DEF Rec
<1>7. ASSUME NEW n \in 0 .. lines - 1
      PROVE  after[n + 1] = ReadScanlines(after[n], 1)
  <2>1. n + 1 \in 0..lines /\ n + 1 # 0 /\ n + 1 - 1 = n
    OBVIOUS
  <2>. QED  BY <1>4, <2>1 DEF Rec
<1>. QED  BY <1>5, <1>6, <1>7

(* Rows read one by one lead to the line below them. *)
LEMMA OneByOne ==
  ASSUME Mixed, NEW a, NEW lines \in Nat, NEW p \in Nat, p + lines < Height,
         \A n \in 0 .. lines - 1 : a[n + 1] = ReadScanlines(a[n], 1),
         Machine(a[0]), a[0].scan = p, AtLine(a[0], p), a[0].toGo >= Height - p
  PROVE  LET r == a[lines]
         IN Machine(r) /\ r.scan = p + lines /\ AtLine(r, p + lines) /\ r.toGo = a[0].toGo - lines
<1>. DEFINE S == {n \in 0..lines : /\ Machine(a[n]) /\ a[n].scan = p + n /\ AtLine(a[n], p + n)
                                   /\ a[n].toGo = a[0].toGo - n}
<1>0. Height \in Nat /\ a[0].toGo \in Nat
  BY MixedFacts DEF Machine
<1>1. 0 \in S
  <2>1. p + 0 = p /\ a[0].toGo - 0 = a[0].toGo /\ 0 \in 0..lines
    BY <1>0
  <2>. QED  BY <2>1
<1>2. ASSUME NEW n \in 0 .. lines - 1, n \in S
      PROVE  n + 1 \in S
  <2>1. PICK q \in Nat : q = p + n
    OBVIOUS
  <2>2. /\ Machine(a[n]) /\ a[n].scan = q /\ AtLine(a[n], q) /\ a[n].toGo = a[0].toGo - n
    BY <1>2, <2>1
  <2>3. q < Height /\ a[n].toGo > 0
    BY <1>0, <2>1, <2>2
  <2>4. PICK one \in Nat \ {0} : one = 1
    OBVIOUS
  <2>. DEFINE r == ReadScanlines(a[n], one)
  <2>5. \E m \in 1 .. one :
          /\ Machine(r) /\ q + m <= Height /\ r.scan = q + m /\ r.toGo = a[n].toGo - m
          /\ r.out = RowsOf(q, q + m)
          /\ q + m < Height => AtLine(r, q + m)
    BY <2>2, <2>3, <2>4, ReadsMixed
  <2>6. a[n + 1] = r
    BY <2>4
  <2>. HIDE DEF r
  <2>7. /\ Machine(r) /\ r.scan = q + 1 /\ r.toGo = a[n].toGo - 1
        /\ q + 1 < Height => AtLine(r, q + 1)
    BY <2>4, <2>5
  <2>8. q + 1 = p + (n + 1) /\ q + 1 < Height /\ a[n].toGo - 1 = a[0].toGo - (n + 1) /\ n + 1 \in 0..lines
    BY <1>0, <2>1, <2>2
  <2>9. Machine(a[n + 1]) /\ a[n + 1].scan = p + (n + 1) /\ AtLine(a[n + 1], p + (n + 1))
        /\ a[n + 1].toGo = a[0].toGo - (n + 1)
    BY <2>6, <2>7, <2>8
  <2>. QED  BY <2>8, <2>9
<1>3. lines \in S
  <2>. HIDE DEF S
  <2>. QED  BY <1>1, <1>2, Reached
<1>. QED  BY <1>3

(* Rows read and discarded.                                                  *)
LEMMA DiscardsMixed ==
  ASSUME Mixed, NEW t, Machine(t), NEW p \in Nat, t.scan = p, AtLine(t, p), NEW lines \in Nat,
         p + lines < Height, t.toGo >= Height - p
  PROVE  LET r == ReadAndDiscard(t, lines)
         IN /\ Machine(r) /\ r.scan = p + lines /\ AtLine(r, p + lines)
            /\ r.toGo = t.toGo - lines /\ r.out = <<>>
<1>1. PICK a : /\ a[0] = t
               /\ \A n \in 0 .. lines - 1 : a[n + 1] = ReadScanlines(a[n], 1)
               /\ ReadAndDiscard(t, lines) = [a[lines] EXCEPT !.out = <<>>]
  BY Discarded
<1>. DEFINE e == a[lines]
            r == ReadAndDiscard(t, lines)
<1>2. Machine(e) /\ e.scan = p + lines /\ AtLine(e, p + lines) /\ e.toGo = t.toGo - lines
  BY <1>1, OneByOne
<1>3. r = [e EXCEPT !.out = <<>>]
  BY <1>1
<1>. HIDE DEF e, r
<1>4. /\ Machine(r) /\ r.scan = e.scan /\ r.out = <<>> /\ r.toGo = e.toGo /\ r.full = e.full
      /\ r.rowgroup = e.rowgroup /\ r.which = e.which /\ r.ctx = e.ctx /\ r.avail = e.avail
      /\ r.imcu = e.imcu /\ r.xbuffer = e.xbuffer /\ r.work = e.work /\ r.next = e.next
      /\ r.luma = e.luma /\ r.chroma = e.chroma
  BY <1>2, <1>3 DEF Machine
<1>5. AtLine(r, p + lines)
  BY <1>2, <1>4, SameLine
<1>. QED  BY <1>2, <1>4, <1>5 DEF r

(* Rows read and discarded after a jump.                                     *)
LEMMA DiscardsJumped ==
  ASSUME Mixed, NEW t, Machine(t), NEW p \in Nat, t.scan = p, Jumped(t, p), NEW lines \in Nat \ {0},
         p + lines < Height, t.toGo >= Height - p
  PROVE  LET r == ReadAndDiscard(t, lines)
         IN /\ Machine(r) /\ r.scan = p + lines /\ AtLine(r, p + lines) /\ r.out = <<>>
<1>1. PICK a : /\ a[0] = t
               /\ \A n \in 0 .. lines - 1 : a[n + 1] = ReadScanlines(a[n], 1)
               /\ ReadAndDiscard(t, lines) = [a[lines] EXCEPT !.out = <<>>]
  BY Discarded
<1>. DEFINE e == a[lines]
            r == ReadAndDiscard(t, lines)
            b == [n \in 0 .. lines - 1 |-> a[n + 1]]
<1>0. Height \in Nat /\ t.toGo \in Nat
  BY MixedFacts DEF Machine
<1>2. PICK k \in Nat : k = lines - 1
  OBVIOUS
<1>3. b[0] = ReadScanlines(t, 1)
  <2>1. 0 \in 0 .. lines - 1 /\ 0 + 1 = 1
    OBVIOUS
  <2>2. a[0 + 1] = ReadScanlines(a[0], 1)
    BY <1>1, <2>1
  <2>. QED  BY <1>1, <2>1, <2>2
<1>4. b[k] = e
  BY <1>2
<1>5. ASSUME NEW n \in 0 .. k - 1
      PROVE  b[n + 1] = ReadScanlines(b[n], 1)
  <2>1. n \in 0 .. lines - 1 /\ n + 1 \in 0 .. lines - 1
    BY <1>2
  <2>2. a[n + 1 + 1] = ReadScanlines(a[n + 1], 1)
    BY <1>1, <2>1
  <2>. QED  BY <2>1, <2>2
<1>. HIDE DEF b, e, r
<1>6. /\ Machine(b[0]) /\ b[0].scan = p + 1 /\ b[0].toGo = t.toGo - 1
      /\ AtLine(b[0], p + 1)
  <2>2. p < Height /\ t.toGo > 0 /\ p + 1 < Height
    BY <1>0
  <2>. QED  BY <1>3, <2>2, ReadsJumped
<1>7. PICK q \in Nat : q = p + 1
  OBVIOUS
<1>8. q + k = p + lines /\ q + k < Height /\ b[0].toGo >= Height - q
  BY <1>0, <1>2, <1>6, <1>7
<1>9. Machine(b[k]) /\ b[k].scan = q + k /\ AtLine(b[k], q + k)
  BY <1>5, <1>6, <1>7, <1>8, OneByOne
<1>10. Machine(e) /\ e.scan = p + lines /\ AtLine(e, p + lines)
  BY <1>4, <1>8, <1>9
<1>11. r = [e EXCEPT !.out = <<>>]
  BY <1>1 DEF e, r
<1>12. /\ Machine(r) /\ r.scan = e.scan /\ r.out = <<>> /\ r.toGo = e.toGo /\ r.full = e.full
       /\ r.rowgroup = e.rowgroup /\ r.which = e.which /\ r.ctx = e.ctx /\ r.avail = e.avail
       /\ r.imcu = e.imcu /\ r.xbuffer = e.xbuffer /\ r.work = e.work /\ r.next = e.next
       /\ r.luma = e.luma /\ r.chroma = e.chroma
  BY <1>10, <1>11 DEF Machine
<1>13. AtLine(r, p + lines)
  BY <1>10, <1>12, SameLine
<1>. QED  BY <1>10, <1>12, <1>13 DEF r

-----------------------------------------------------------------------------
(* Skipping: the lines left of an iMCU row. *)

(* They depend on the place in the iMCU row.                                 *)
LEMMA LeftIs ==
  ASSUME Mixed, NEW s, NEW p \in Nat, s.scan = p, NEW q \in Nat, NEW x \in 0 .. 2 * M - 1,
         p = 2 * (q * M) + x
  PROVE  LinesLeft(s) = IF x = 0 THEN 0 ELSE 2 * M - x
<1>1. PICK D \in Nat \ {0} : D = 2 * M
  BY MixedFacts
<1>2. LinesPerRow = D /\ x \in 0 .. D - 1
  BY <1>1, MixedFacts
<1>3. q * D = 2 * (q * M)
  BY <1>1, MixedFacts
<1>4. p % D = x
  <2>1. (q * D + x) % D = x
    BY <1>2, PlaceInRow
  <2>. QED  BY <1>3, <2>1
<1>5. LinesLeft(s) = (D - x) % D
  BY <1>2, <1>4 DEF LinesLeft
<1>6. CASE x = 0
  <2>1. (1 * D + 0) % D = 0
    <3>1. 0 \in 0 .. D - 1 /\ 1 \in Nat
      OBVIOUS
    <3>. QED  BY <3>1, PlaceInRow
  <2>2. D - x = 1 * D + 0
    BY <1>6
  <2>. QED  BY <1>5, <1>6, <2>1, <2>2
<1>7. CASE x # 0
  <2>1. D - x \in 0 .. D - 1
    BY <1>2, <1>7
  <2>2. PICK y \in 0 .. D - 1 : y = D - x
    BY <2>1
  <2>3. (0 * D + y) % D = y
    <3>1. 0 \in Nat
      OBVIOUS
    <3>. QED  BY <3>1, PlaceInRow
  <2>4. 0 * D + y = y
    OBVIOUS
  <2>. QED  BY <1>1, <1>5, <1>7, <2>2, <2>3, <2>4
<1>. QED  BY <1>6, <1>7

(* The lists when the iMCU row is left: wrapped around. *)
FirstRow(s) == s.iMCUctr = 0 \/ (s.iMCUctr = 1 /\ LinesLeft(s) > 2)
Wrapped(s) == IF FirstRow(s) THEN SetWraparound(s) ELSE s

(* Lists that wrap around need not be made again.                            *)
LEMMA WrappedAlready ==
  ASSUME NEW s, Machine(s), s.xbuffer = WrapLists
  PROVE  s = [s EXCEPT !.xbuffer = WrapLists]
BY DEF Machine

(* What is in the buffer when a skip leaves it, however far the reader was:  *)
(* all up to the end of the iMCU row that was decoded last.                  *)
LEMMA Leaves ==
  ASSUME Mixed, NEW s, Machine(s), NEW p \in Nat, s.scan = p, AtLine(s, p),
         NEW lines \in Nat \ {0}, p + lines < Height, ~(lines < LinesLeft(s) + 1),
         ~(Prefetched(s) /\ lines - LinesLeft(s) < LinesPerRow + 1)
  PROVE  /\ LinesBuffered(s) \in Nat /\ LinesBuffered(s) < lines
         /\ p + LinesBuffered(s) = 2 * (s.imcu * M)
         /\ Wrapped(s) = [s EXCEPT !.xbuffer = WrapLists]
<1>0. /\ M \in Nat /\ M >= 2 /\ Height \in Nat /\ LinesPerRow = 2 * M /\ V = 2
      /\ s.imcu \in Nat /\ s.iMCUctr = s.imcu
  BY MixedFacts DEF Machine
<1>1. PICK i \in Nat : i = s.imcu
  BY <1>0
<1>2. PICK Q \in Nat : Q = i * M
  BY <1>0, ProductIsNat
<1>3. i > 0 => Top(s) \in Nat /\ Top(s) + M = Q
  <2>. SUFFICES ASSUME i > 0 PROVE Top(s) \in Nat /\ Top(s) + M = Q
    OBVIOUS
  <2>1. PICK j \in Nat : i = j + 1
    BY <1>1
  <2>2. i * M = j * M + M
    BY <1>0, <2>1, SumTimes
  <2>3. j * M \in Nat
    BY <1>0, ProductIsNat
  <2>. QED  BY <1>1, <1>2, <2>1, <2>2, <2>3 DEF Top
<1>4. CASE Fresh(s, p)
  <2>1. p = 0 /\ ~s.full /\ i = 0 /\ s.xbuffer = StartLists
    BY <1>1, <1>4 DEF Fresh
  <2>2. LinesLeft(s) = 0
    <3>1. 0 \in 0 .. 2 * M - 1 /\ 0 = 2 * (0 * M) + 0
      BY <1>0
    <3>. QED  BY <2>1, <3>1, LeftIs
  <2>3. LinesBuffered(s) = 0
    BY <2>1, <2>2 DEF LinesBuffered, Prefetched
  <2>4. Q = 0
    BY <1>0, <1>2, <2>1
  <2>5. FirstRow(s)
    BY <1>0, <1>1, <2>1 DEF FirstRow
  <2>. QED  BY <1>1, <1>2, <2>1, <2>3, <2>4, <2>5, Wraps DEF Wrapped
<1>5. CASE Ready(s, p)
  <2>1. p = 2 * Top(s) /\ s.full /\ i > 1 /\ s.xbuffer = WrapLists
    BY <1>1, <1>5 DEF Ready
  <2>2. LinesLeft(s) = 0
    <3>1. PICK j \in Nat : i = j + 1
      BY <2>1
    <3>2. p = 2 * (j * M) + 0 /\ 0 \in 0 .. 2 * M - 1
      BY <1>0, <1>1, <2>1, <3>1, ProductIsNat DEF Top
    <3>. QED  BY <3>2, LeftIs
  <2>3. Prefetched(s) /\ LinesBuffered(s) = 2 * M
    BY <1>0, <2>1, <2>2 DEF LinesBuffered, Prefetched
  <2>4. ~FirstRow(s)
    BY <1>0, <1>1, <2>1 DEF FirstRow
  <2>. QED  BY <1>0, <1>1, <1>2, <1>3, <2>1, <2>2, <2>3, <2>4, WrappedAlready DEF Wrapped
<1>6. CASE Switched(s, p)
  <2>1. p = 2 * Q - 2 /\ ~s.full /\ i > 0 /\ s.xbuffer = WrapLists
    BY <1>1, <1>2, <1>6 DEF Switched
  <2>2. LinesLeft(s) = 2
    <3>1. PICK j \in Nat : i = j + 1
      BY <2>1
    <3>2. PICK x \in 0 .. 2 * M - 1 : x = 2 * M - 2
      BY <1>0
    <3>3. j * M + M = Q /\ j * M \in Nat
      BY <1>0, <1>1, <1>3, <3>1, ProductIsNat DEF Top
    <3>4. p = 2 * (j * M) + x
      BY <1>0, <2>1, <3>2, <3>3
    <3>5. LinesLeft(s) = IF x = 0 THEN 0 ELSE 2 * M - x
      BY <3>4, LeftIs
    <3>. QED  BY <1>0, <3>2, <3>5
  <2>3. LinesBuffered(s) = 2
    BY <2>1, <2>2 DEF LinesBuffered, Prefetched
  <2>4. ~FirstRow(s)
    BY <1>0, <1>1, <2>1, <2>2 DEF FirstRow
  <2>. QED  BY <1>0, <1>1, <1>2, <2>1, <2>2, <2>3, <2>4, WrappedAlready DEF Wrapped
<1>7. CASE Postponing(s, p)
  <2>1. p = 2 * Top(s) - 1 /\ s.full /\ i > 1 /\ s.xbuffer = WrapLists
    BY <1>1, <1>7 DEF Postponing
  <2>2. LinesLeft(s) = 1
    <3>1. PICK j \in Nat : i = j + 2
      BY <2>1
    <3>2. PICK x \in 0 .. 2 * M - 1 : x = 2 * M - 1
      BY <1>0
    <3>3. (j + 1) * M = j * M + 1 * M /\ 1 * M = M /\ j * M \in Nat
      BY <1>0, ProductIsNat, SumTimes
    <3>4. Top(s) = j * M + M
      <4>1. s.imcu - 1 = j + 1
        BY <1>1, <3>1
      <4>. QED  BY <3>3, <4>1 DEF Top
    <3>5. p = 2 * (j * M) + x
      BY <1>0, <2>1, <3>2, <3>3, <3>4
    <3>6. LinesLeft(s) = IF x = 0 THEN 0 ELSE 2 * M - x
      BY <3>5, LeftIs
    <3>. QED  BY <1>0, <3>2, <3>6
  <2>3. Prefetched(s) /\ LinesBuffered(s) = 1 + 2 * M
    BY <1>0, <2>1, <2>2 DEF LinesBuffered, Prefetched
  <2>4. ~FirstRow(s)
    BY <1>0, <1>1, <2>1 DEF FirstRow
  <2>. QED  BY <1>0, <1>1, <1>2, <1>3, <2>1, <2>2, <2>3, <2>4, WrappedAlready DEF Wrapped
<1>8. CASE Working(s, p)
  <2>0. Given(s) \in 0..1 /\ (s.next = 1 => Given(s) = 1) /\ s.rowgroup \in Nat
    BY <1>0 DEF Given, Machine
  <2>1. /\ i > 0 /\ s.rowgroup < s.avail /\ p = 2 * Top(s) + (2 * s.rowgroup + Given(s))
        /\ s.rowgroup > 0 \/ s.next = 1
    BY <1>0, <1>1, <1>3, <1>8, <2>0 DEF Working
  <2>2. PICK x \in Nat : x = 2 * s.rowgroup + Given(s)
    BY <2>0
  <2>3. x >= 1 /\ p = 2 * Top(s) + x /\ Top(s) \in Nat /\ Top(s) + M = Q
    BY <1>3, <2>0, <2>1, <2>2
  <2>4. ASSUME x \in 0 .. 2 * M - 1
        PROVE  LinesLeft(s) = 2 * M - x
    <3>1. PICK j \in Nat : i = j + 1
      BY <2>1
    <3>2. p = 2 * (j * M) + x
      BY <1>1, <2>3, <3>1 DEF Top
    <3>3. LinesLeft(s) = IF x = 0 THEN 0 ELSE 2 * M - x
      BY <2>4, <3>2, LeftIs
    <3>. QED  BY <2>3, <3>3
  <2>5. ~IsLast(s)
    <3>. SUFFICES ASSUME IsLast(s) PROVE FALSE
      OBVIOUS
    <3>1. Height <= 2 * Top(s) + 2 * M
      <4>1. 2 * Top(s) < Height /\ s.imcu > 0
        BY <1>0, <1>1, <2>1, <2>3
      <4>. QED  BY <4>1, LastFacts
    <3>2. x \in 0 .. 2 * M - 1
      BY <1>0, <2>3, <3>1
    <3>3. LinesLeft(s) = 2 * M - x
      BY <2>4, <3>2
    <3>. QED  BY <1>0, <2>3, <3>1, <3>2, <3>3
  <2>6. s.avail = M - 1 /\ s.xbuffer \in {StartLists, WrapLists} /\ (i > 1 => s.xbuffer = WrapLists)
    BY <1>1, <1>8, <2>5 DEF Working, Ongoing
  <2>7. x \in 0 .. 2 * M - 3
    BY <1>0, <2>0, <2>1, <2>2, <2>6
  <2>8. LinesLeft(s) = 2 * M - x /\ 2 * M - x > 2
    BY <1>0, <2>4, <2>7
  <2>9. LinesBuffered(s) = 2 * M - x
    BY <1>0, <2>7, <2>8 DEF LinesBuffered, Prefetched
  <2>10. Wrapped(s) = [s EXCEPT !.xbuffer = WrapLists]
    <3>1. CASE i = 1
      <4>1. FirstRow(s)
        BY <1>0, <1>1, <2>8, <3>1 DEF FirstRow
      <4>. QED  BY <2>6, <4>1, Wraps DEF Wrapped
    <3>2. CASE i > 1
      <4>1. ~FirstRow(s)
        BY <1>0, <1>1, <3>2 DEF FirstRow
      <4>. QED  BY <2>6, <3>2, <4>1, WrappedAlready DEF Wrapped
    <3>. QED  BY <2>1, <3>1, <3>2
  <2>. QED  BY <1>0, <1>1, <1>2, <2>3, <2>7, <2>8, <2>9, <2>10
<1>. QED  BY <1>4, <1>5, <1>6, <1>7, <1>8 DEF AtLine

(* A skip of at least a line that does not reach the end of the picture goes *)
(* down by the lines asked for.                                              *)
LEMMA SkipsMixed ==
  ASSUME Mixed, NEW s, Machine(s), NEW p \in Nat, s.scan = p, AtLine(s, p), s.toGo = Height - p,
         NEW lines \in Nat \ {0}, p + lines < Height
  PROVE  LET r == [SkipContext(s, lines) EXCEPT !.out = <<>>]
         IN /\ Machine(r) /\ r.scan = p + lines /\ AtLine(r, p + lines)
            /\ r.toGo = Height - (p + lines) /\ r.out = <<>>
<1>0. /\ M \in Nat /\ M >= 2 /\ Height \in Nat /\ LinesPerRow = 2 * M /\ V = 2
      /\ s.imcu \in Nat /\ s.iMCUctr = s.imcu
  BY MixedFacts DEF Machine
<1>. DEFINE r == [SkipContext(s, lines) EXCEPT !.out = <<>>]
<1>1. ASSUME NEW e, Machine(e), e.scan = p + lines, AtLine(e, p + lines),
             e.toGo = Height - (p + lines),
             r = [e EXCEPT !.out = <<>>]
      PROVE  /\ Machine(r) /\ r.scan = p + lines /\ AtLine(r, p + lines)
             /\ r.toGo = Height - (p + lines) /\ r.out = <<>>
  <2>. HIDE DEF r
  <2>1. /\ Machine(r) /\ r.scan = e.scan /\ r.out = <<>> /\ r.toGo = e.toGo /\ r.full = e.full
        /\ r.rowgroup = e.rowgroup /\ r.which = e.which /\ r.ctx = e.ctx /\ r.avail = e.avail
        /\ r.imcu = e.imcu /\ r.xbuffer = e.xbuffer /\ r.work = e.work /\ r.next = e.next
        /\ r.luma = e.luma /\ r.chroma = e.chroma
    BY <1>1 DEF Machine
  <2>2. AtLine(r, p + lines)
    BY <1>1, <2>1, SameLine
  <2>. QED  BY <1>1, <2>1, <2>2
<1>. DEFINE read == \/ lines < LinesLeft(s) + 1
                    \/ Prefetched(s) /\ lines - LinesLeft(s) < LinesPerRow + 1
<1>2. CASE read
  <2>. DEFINE e == ReadAndDiscard(s, lines)
  <2>1. r = [e EXCEPT !.out = <<>>]
    BY <1>2 DEF SkipContext
  <2>2. Machine(e) /\ e.scan = p + lines /\ AtLine(e, p + lines) /\ e.toGo = s.toGo - lines
    <3>1. s.toGo >= Height - p
      BY <1>0
    <3>. QED  BY <3>1, DiscardsMixed
  <2>. HIDE DEF e, r
  <2>3. e.toGo = Height - (p + lines)
    BY <1>0, <2>2
  <2>. QED  BY <1>1, <2>1, <2>2, <2>3 DEF r
<1>3. CASE ~read
  <2>1. PICK w \in Nat : w = LinesBuffered(s)
    BY <1>3, Leaves
  <2>2. w < lines /\ p + w = 2 * (s.imcu * M) /\ Wrapped(s) = [s EXCEPT !.xbuffer = WrapLists]
    BY <1>3, <2>1, Leaves
  <2>3. PICK after \in Nat \ {0} : after = lines - w
    BY <2>2
  <2>4. PICK n \in Nat : n = (after - 1) \div LinesPerRow /\ n * LinesPerRow < after
    <3>1. PICK D \in Nat \ {0} : D = LinesPerRow
      BY <1>0
    <3>2. /\ (after - 1) \div D \in Nat /\ ((after - 1) \div D) * D <= after - 1
      <4>1. after - 1 \in Nat
        OBVIOUS
      <4>. QED  BY <4>1, Quotient
    <3>. DEFINE m == (after - 1) \div D
    <3>3. m \in Nat /\ m * D <= after - 1
      BY <3>2
    <3>. HIDE DEF m
    <3>4. m * D \in Nat
      BY <3>3, ProductIsNat
    <3>5. m * D < after
      BY <3>3, <3>4
    <3>. QED  BY <3>1, <3>3, <3>5 DEF m
  <2>5. PICK N \in Nat : N = n * M
    BY <1>0, ProductIsNat
  <2>6. n * LinesPerRow = 2 * N
    BY <1>0, <2>5
  <2>7. PICK rest \in Nat \ {0} : rest = after - 2 * N
    BY <2>4, <2>6
  <2>8. PICK k \in Nat : k = s.imcu + n
    BY <1>0
  <2>9. k * M = s.imcu * M + N
    BY <1>0, <2>5, <2>8, SumTimes
  <2>10. s.imcu * M \in Nat
    BY <1>0, ProductIsNat
  <2>11. PICK q \in Nat : q = 2 * (k * M)
    BY <2>9, <2>10
  <2>12. q = p + w + 2 * N /\ q + rest = p + lines /\ q + rest < Height
    BY <2>2, <2>3, <2>7, <2>9, <2>10, <2>11
  <2>. DEFINE u == [s EXCEPT !.xbuffer = WrapLists]
              left == [LeaveRow(u, w) EXCEPT !.ctx = "prepare"]
              j == [JumpRows(left, n) EXCEPT !.iMCUctr = @ + n]
              e == ReadAndDiscard(j, rest)
  <2>13. SkipContext(s, lines) = ToGo(e)
    <3>1. SkipContext(s, lines) =
            JumpAndRead([LeaveRow(Wrapped(s), LinesBuffered(s)) EXCEPT !.ctx = "prepare"],
                        lines - LinesBuffered(s), (lines - LinesBuffered(s) - 1) \div LinesPerRow)
      BY <1>3 DEF SkipContext, Wrapped, FirstRow
    <3>2. SkipContext(s, lines) = JumpAndRead(left, after, n)
      BY <2>1, <2>2, <2>3, <2>4, <3>1
    <3>. HIDE DEF left
    <3>. QED  BY <2>6, <2>7, <3>2 DEF JumpAndRead
  <2>14. /\ Machine(left) /\ left.scan = p + w /\ left.ctx = "prepare" /\ ~left.full
         /\ left.next = V /\ left.imcu = s.imcu /\ left.iMCUctr = s.imcu
         /\ left.toGo = Height - (p + w) /\ left.xbuffer = WrapLists
    <3>1. /\ Machine(u) /\ u.scan = p /\ u.imcu = s.imcu /\ u.iMCUctr = s.imcu
          /\ u.xbuffer = WrapLists
      BY <1>0 DEF Machine
    <3>2. p + w \in Nat /\ Height - (p + w) \in Nat
      BY <1>0, <2>2
    <3>3. PICK v \in Nat, togo \in Nat : v = p + w /\ togo = Height - (p + w)
      BY <3>2
    <3>. HIDE DEF u
    <3>4. left = [u EXCEPT !.scan = v, !.full = FALSE, !.rowgroup = 0, !.next = V,
                           !.toGo = togo, !.ctx = "prepare"]
      <4>1. u.scan + w = v /\ Height - (u.scan + w) = togo
        BY <3>1, <3>3
      <4>2. LeaveRow(u, w) = [u EXCEPT !.scan = v, !.full = FALSE, !.rowgroup = 0, !.next = V,
                                       !.toGo = togo]
        BY <4>1 DEF LeaveRow
      <4>3. [[u EXCEPT !.scan = v, !.full = FALSE, !.rowgroup = 0, !.next = V, !.toGo = togo]
               EXCEPT !.ctx = "prepare"]
            = [u EXCEPT !.scan = v, !.full = FALSE, !.rowgroup = 0, !.next = V,
                        !.toGo = togo, !.ctx = "prepare"]
        BY <3>1 DEF Machine
      <4>. QED  BY <4>2, <4>3
    <3>. HIDE DEF left
    <3>5. Machine(left)
      <4>1. V \in 1..V
        BY <1>0
      <4>2. Machine(u)
        BY <3>1
      <4>. QED  BY <3>4, <4>1, <4>2 DEF Machine
    <3>6. /\ left.scan = v /\ left.toGo = togo /\ left.ctx = "prepare" /\ left.full = FALSE
          /\ left.next = V /\ left.imcu = u.imcu /\ left.iMCUctr = u.iMCUctr
          /\ left.xbuffer = u.xbuffer
      BY <3>1, <3>4 DEF Machine
    <3>. QED  BY <1>0, <3>1, <3>3, <3>5, <3>6
  <2>. HIDE DEF left
  <2>15. /\ Machine(j) /\ j.scan = q /\ j.ctx = "prepare" /\ ~j.full /\ j.next = V /\ j.imcu = k
         /\ j.toGo = Height - (p + w) /\ j.xbuffer = WrapLists
    <3>1. left.scan + n * LinesPerRow = q /\ left.imcu + n = k /\ left.iMCUctr + n = k
      BY <2>6, <2>8, <2>12, <2>14
    <3>. QED  BY <2>14, <3>1 DEF Machine, JumpRows
  <2>. HIDE DEF j
  <2>16. Jumped(j, q) /\ j.toGo >= Height - q
    <3>1. Jumped(j, q)
      BY <2>11, <2>15 DEF Jumped
    <3>. QED  BY <1>0, <2>12, <2>15, <3>1
  <2>17. Machine(e) /\ e.scan = q + rest /\ AtLine(e, q + rest)
    BY <2>12, <2>15, <2>16, DiscardsJumped
  <2>. HIDE DEF e
  <2>18. PICK f : f = ToGo(e)
    OBVIOUS
  <2>19. /\ Machine(f) /\ f.scan = e.scan /\ f.full = e.full
         /\ f.rowgroup = e.rowgroup /\ f.which = e.which /\ f.ctx = e.ctx /\ f.avail = e.avail
         /\ f.imcu = e.imcu /\ f.xbuffer = e.xbuffer /\ f.work = e.work /\ f.next = e.next
         /\ f.luma = e.luma /\ f.chroma = e.chroma /\ f.toGo = Height - e.scan
    <3>1. Height - e.scan \in Nat
      BY <1>0, <2>12, <2>17
    <3>. QED  BY <2>17, <2>18, <3>1 DEF Machine, ToGo
  <2>20. AtLine(f, q + rest)
    BY <2>17, <2>19, SameLine
  <2>21. r = [f EXCEPT !.out = <<>>]
    BY <2>13, <2>18
  <2>. HIDE DEF r
  <2>22. f.scan = p + lines /\ f.toGo = Height - (p + lines) /\ AtLine(f, p + lines)
    BY <2>12, <2>17, <2>19, <2>20
  <2>. QED  BY <1>1, <2>19, <2>21, <2>22 DEF r
<1>. QED  BY <1>2, <1>3

-----------------------------------------------------------------------------
(* The invariant of a picture with context rows. *)

(* A picture before its first row is at line 0.                              *)
LEMMA InitMixed ==
  ASSUME RowsInit, shape.context
  PROVE  MixedInv
<1>1. Mixed
  BY DEF RowsInit, Mixed
<1>2. Components = {"Y", "C"} /\ V = 2 /\ Height \in Nat \ {0}
  BY <1>1, MixedFacts
<1>. DEFINE pointers == [list \in {0, 1} |-> [c \in Components |-> FunnyPointers(list, c)]]
            work == [c \in Components |-> [w \in Workspace(c) |-> Unset]]
<1>3. d = [full |-> FALSE, rowgroup |-> 0, which |-> 0, ctx |-> "prepare", avail |-> 0,
           iMCUctr |-> 0, imcu |-> 0, scan |-> 0, out |-> <<>>,
           xbuffer |-> pointers, work |-> work,
           next |-> V, toGo |-> Height, luma |-> [list |-> 0, at |-> 0], chroma |-> <<>>]
  BY DEF RowsInit
<1>4. pointers = StartLists
  BY <1>2 DEF StartLists
<1>. HIDE DEF pointers, work
<1>5. Machine(d)
  <2>1. 2 \in 1 .. V /\ Height \in Nat
    BY <1>2
  <2>. QED  BY <1>2, <1>3, <2>1 DEF Machine
<1>6. Fresh(d, 0) /\ d.scan = 0 /\ d.toGo = Height
  BY <1>3, <1>4 DEF Fresh
<1>7. AtLine(d, d.scan) /\ d.toGo = Height - d.scan /\ d.scan <= Height
  BY <1>2, <1>6 DEF AtLine
<1>. QED  BY <1>1, <1>5, <1>7 DEF MixedInv

(* The picture stays, and so what the invariant says of a decompressor.      *)
LEMMA MixedAfter ==
  ASSUME Mixed, UNCHANGED shape, NEW t, d' = t, Machine(t), t.scan <= Height,
         t.scan < Height => AtLine(t, t.scan) /\ t.toGo = Height - t.scan
  PROVE  MixedInv'
<1>1. Mixed'
  BY DEF Mixed
<1>2. Height' = Height /\ M' = M
  BY DEF Height, M
<1>3. Machine(d)'
  BY DEF Machine
<1>4. ChromaRows' = ChromaRows /\ TotalRows' = TotalRows
  BY <1>2 DEF ChromaRows, TotalRows, LinesPerRow
<1>5. StartLists' = StartLists /\ WrapLists' = WrapLists
  BY <1>2 DEF StartLists, WrapLists, WrapList, FunnyPointers, RGroup, Offsets, Workspace
<1>6. ASSUME NEW l, NEW c, NEW i
      PROVE  RowAt(d, l, c, i)' = RowAt(t, l, c, i)
  BY <1>2 DEF RowAt, Offsets, RGroup
<1>7. ASSUME NEW i
      PROVE  Luma(d, i)' = Luma(t, i) /\ Chroma(d, i)' = Chroma(t, i) /\ Clamped(i)' = Clamped(i)
  <2>1. d'.which = t.which
    OBVIOUS
  <2>2. Clamped(i)' = Clamped(i)
    BY <1>2 DEF Clamped, Samples, Least
  <2>. QED  BY <1>6, <2>1, <2>2 DEF Luma, Chroma
<1>8. Top(d)' = Top(t) /\ IsLast(d)' = IsLast(t) /\ Given(d)' = Given(t)
  BY <1>2, <1>4 DEF Top, IsLast, Given
<1>9. /\ Body(d)' = Body(t) /\ Above(d)' = Above(t) /\ Clear(d)' = Clear(t)
      /\ \A n : Previous(d, n)' = Previous(t, n)
  BY <1>2, <1>4, <1>7, <1>8 DEF Body, Above, Clear, Previous
<1>10. Ongoing(d)' = Ongoing(t)
  BY <1>2, <1>4, <1>5, <1>8, <1>9 DEF Ongoing
<1>11. ASSUME NEW p
       PROVE  SecondRight(d, p)' = SecondRight(t, p)
  <2>1. Pixels(d, 1)' = Pixels(t, 1)
    BY <1>6 DEF Pixels
  <2>2. Expected(p)' = Expected(p)
    BY <1>7 DEF Expected
  <2>. QED  BY <1>2, <2>1, <2>2 DEF SecondRight
<1>12. ASSUME NEW p
       PROVE  AtLine(d, p)' = AtLine(t, p)
  <2>1. Fresh(d, p)' = Fresh(t, p)
    BY <1>5 DEF Fresh
  <2>2. Ready(d, p)' = Ready(t, p)
    BY <1>5, <1>8, <1>9 DEF Ready
  <2>3. Working(d, p)' = Working(t, p)
    BY <1>8, <1>9, <1>10, <1>11 DEF Working
  <2>4. Switched(d, p)' = Switched(t, p)
    BY <1>2, <1>5, <1>9 DEF Switched
  <2>5. Postponing(d, p)' = Postponing(t, p)
    BY <1>2, <1>5, <1>8, <1>9, <1>11 DEF Postponing
  <2>. QED  BY <2>1, <2>2, <2>3, <2>4, <2>5 DEF AtLine
<1>13. d'.scan = t.scan /\ d'.toGo = t.toGo
  OBVIOUS
<1>14. AtLine(d, d.scan)' = AtLine(t, t.scan)
  BY <1>12, <1>13
<1>. QED  BY <1>1, <1>2, <1>3, <1>13, <1>14 DEF MixedInv

(* The rows given are lines of the picture.                                  *)
LEMMA MixedGiven ==
  ASSUME Mixed, UNCHANGED shape, NEW s \in Nat, NEW n \in Nat, s + n <= Height,
         d'.out = [k \in 1..n |-> Expected(s + k - 1)]
  PROVE  ([k \in 1 .. Len(d.out) |-> LineOf(d.out[k])])' = [k \in 1..n |-> s + k - 1]
<1>1. Len(d'.out) = n
  OBVIOUS
<1>2. Height \in Nat /\ Height' = Height
  BY MixedFacts DEF Height
<1>3. \A x : Expected(x)' = Expected(x)
  BY DEF Expected, Clamped, Samples, Height, Least
<1>4. ASSUME NEW k \in 1..n
      PROVE  LineOf(d.out[k])' = s + k - 1
  <2>1. PICK line \in 0 .. Height - 1 : line = s + k - 1
    BY <1>2
  <2>2. d'.out[k] = Expected(line)
    BY <2>1
  <2>3. ASSUME NEW x \in 0 .. Height - 1
        PROVE  Expected(x) = Expected(line) <=> x = line
    <3>1. x \in Int /\ line \in Int
      BY <1>2
    <3>2. Expected(x).y = x /\ Expected(line).y = line
      BY <3>1, ExpectedTyped
    <3>. QED  BY <3>2
  <2>4. LineOf(d.out[k])' = CHOOSE x \in 0 .. Height - 1 : Expected(x) = Expected(line)
    BY <1>2, <1>3, <2>2 DEF LineOf
  <2>5. (CHOOSE x \in 0 .. Height - 1 : Expected(x) = Expected(line)) = line
    BY <2>3
  <2>. QED  BY <2>1, <2>4, <2>5
<1>. QED  BY <1>1, <1>4

(* A read keeps the invariant and gives the next lines.                      *)
LEMMA MixedReadStep ==
  ASSUME MixedInv, Read
  PROVE  MixedInv' /\ Reader!ReadRows
<1>1. PICK lines \in 1..MaxLines :
        /\ d.scan < Height /\ d' = ReadScanlines(d, lines) /\ UNCHANGED shape
        /\ client' = [op |-> "read", lines |-> lines, from |-> d.scan]
  BY DEF Read
<1>2. /\ Mixed /\ Machine(d) /\ AtLine(d, d.scan) /\ d.toGo = Height - d.scan
      /\ lines \in Nat \ {0}
  BY <1>1, ShapesAssumption DEF MixedInv
<1>3. PICK p \in Nat : p = d.scan
  BY <1>2 DEF Machine
<1>4. Height \in Nat /\ p < Height /\ d.toGo > 0
  BY <1>1, <1>2, <1>3, MixedFacts
<1>5. PICK n \in 1 .. lines :
        /\ Machine(d') /\ p + n <= Height /\ d'.scan = p + n /\ d'.toGo = d.toGo - n
        /\ d'.out = RowsOf(p, p + n)
        /\ p + n < Height => AtLine(d', p + n)
  BY <1>1, <1>2, <1>3, <1>4, ReadsMixed
<1>6. MixedInv'
  <2>1. PICK t : t = d'
    OBVIOUS
  <2>2. /\ Machine(t) /\ t.scan <= Height
        /\ t.scan < Height => AtLine(t, t.scan) /\ t.toGo = Height - t.scan
    BY <1>2, <1>3, <1>4, <1>5, <2>1
  <2>. QED  BY <1>1, <1>2, <2>1, <2>2, MixedAfter
<1>7. Reader!ReadRows
  <2>1. n \in 1 .. Height - d.scan /\ n \in Nat /\ p + n - p = n
    BY <1>3, <1>4, <1>5
  <2>2. client'.lines = lines
    BY <1>1
  <2>3. d'.out = [k \in 1..n |-> Expected(p + k - 1)]
    BY <1>5, <2>1 DEF RowsOf
  <2>4. ([k \in 1 .. Len(d.out) |-> LineOf(d.out[k])])' = [k \in 1..n |-> d.scan + k - 1]
    <3>1. ([k \in 1 .. Len(d.out) |-> LineOf(d.out[k])])' = [k \in 1..n |-> p + k - 1]
      BY <1>1, <1>2, <1>5, <2>1, <2>3, MixedGiven
    <3>. QED  BY <1>3, <3>1
  <2>5. Height' = Height
    BY <1>1 DEF Height
  <2>. QED  BY <1>2, <1>3, <1>5, <2>1, <2>2, <2>4, <2>5 DEF Reader!ReadRows
<1>. QED  BY <1>6, <1>7

(* A skip, of any number of lines and after any call, keeps the invariant    *)
(* and moves down by the lines asked for.                                    *)
LEMMA MixedSkipStep ==
  ASSUME MixedInv, Skip
  PROVE  MixedInv' /\ Reader!SkipRows
<1>1. PICK lines \in 0..Height :
        /\ d.scan < Height /\ d' = SkipScanlines(d, lines) /\ UNCHANGED shape
        /\ client' = [op |-> "skip", lines |-> lines, from |-> d.scan]
  BY DEF Skip
<1>2. Mixed /\ Machine(d) /\ AtLine(d, d.scan) /\ d.toGo = Height - d.scan
  BY <1>1 DEF MixedInv
<1>3. PICK p \in Nat : p = d.scan
  BY <1>2 DEF Machine
<1>4. Height \in Nat /\ p < Height /\ lines \in Nat /\ shape.context = TRUE
  <2>1. Height \in Nat /\ shape.context = TRUE
    BY <1>2, MixedFacts
  <2>2. p < Height
    BY <1>1, <1>3
  <2>3. lines \in Nat
    BY <2>1
  <2>. QED  BY <2>1, <2>2, <2>3
<1>5. /\ Machine(d') /\ d'.out = <<>> /\ d'.scan <= Height
      /\ d'.scan = IF p + lines < Height THEN p + lines ELSE Height
      /\ d'.scan < Height => AtLine(d', d'.scan) /\ d'.toGo = Height - d'.scan
  <2>1. CASE p + lines >= Height
    <3>1. lines # 0
      BY <1>4, <2>1
    <3>2. d' = [d EXCEPT !.scan = Height, !.out = <<>>]
      BY <1>1, <1>3, <1>4, <2>1, <3>1 DEF SkipScanlines
    <3>3. Machine(d') /\ d'.scan = Height /\ d'.out = <<>>
      BY <1>2, <1>4, <3>2 DEF Machine
    <3>. QED  BY <1>4, <2>1, <3>3
  <2>2. CASE p + lines < Height /\ lines = 0
    <3>1. d' = [d EXCEPT !.out = <<>>]
      BY <1>1, <1>3, <1>4, <2>2 DEF SkipScanlines
    <3>2. PICK t : t = d'
      OBVIOUS
    <3>3. /\ Machine(t) /\ t.scan = d.scan /\ t.out = <<>> /\ t.toGo = d.toGo /\ t.full = d.full
          /\ t.rowgroup = d.rowgroup /\ t.which = d.which /\ t.ctx = d.ctx /\ t.avail = d.avail
          /\ t.imcu = d.imcu /\ t.xbuffer = d.xbuffer /\ t.work = d.work /\ t.next = d.next
          /\ t.luma = d.luma /\ t.chroma = d.chroma
      BY <1>2, <3>1, <3>2 DEF Machine
    <3>4. AtLine(t, d.scan)
      BY <1>2, <3>3, SameLine
    <3>. QED  BY <1>2, <1>3, <1>4, <2>2, <3>2, <3>3, <3>4
  <2>3. CASE p + lines < Height /\ lines # 0
    <3>1. d' = [SkipContext(d, lines) EXCEPT !.out = <<>>]
      BY <1>1, <1>3, <1>4, <2>3 DEF SkipScanlines
    <3>2. /\ Machine(d') /\ d'.scan = p + lines /\ AtLine(d', p + lines)
          /\ d'.toGo = Height - (p + lines) /\ d'.out = <<>>
      BY <1>2, <1>3, <1>4, <2>3, <3>1, SkipsMixed
    <3>. QED  BY <1>4, <2>3, <3>2
  <2>. QED  BY <1>4, <2>1, <2>2, <2>3
<1>6. MixedInv'
  <2>1. PICK t : t = d'
    OBVIOUS
  <2>. QED  BY <1>1, <1>2, <1>5, <2>1, MixedAfter
<1>7. Reader!SkipRows
  <2>1. client'.lines = lines /\ Height' = Height
    BY <1>1 DEF Height
  <2>2. ([k \in 1 .. Len(d.out) |-> LineOf(d.out[k])])' = <<>>
    <3>1. Len(d'.out) = 0
      BY <1>5
    <3>. QED  BY <3>1
  <2>. QED  BY <1>1, <1>3, <1>4, <1>5, <2>1, <2>2 DEF Reader!SkipRows
<1>. QED  BY <1>6, <1>7

(* A reader starts at the first line, with nothing given.                    *)
LEMMA ReaderBegins ==
  ASSUME RowsInit
  PROVE  Reader!Init
<1>1. Height \in Nat \ {0}
  BY ShapesAssumption DEF RowsInit, Height
<1>2. d.scan = 0 /\ d.out = <<>> /\ client.lines = 0
  BY DEF RowsInit
<1>3. [k \in 1 .. Len(d.out) |-> LineOf(d.out[k])] = <<>>
  BY <1>2
<1>. QED  BY <1>1, <1>2, <1>3 DEF Reader!Init

(***************************************************************************)
(* For every picture, with context rows or without, of every height and     *)
(* every size of its iMCU rows: jpeg_read_scanlines and jpeg_skip_scanlines *)
(* keep what jpeglib.h promises of them, the rows of the picture, each      *)
(* once, in order, each mixed from its right neighbours, and every skip as  *)
(* long as it was asked to be.  Without context rows the client skips only  *)
(* out of an iMCU row and never twice in a row; with them it may skip as it *)
(* likes.                                                                   *)
(***************************************************************************)
THEOREM RowsInOrder ==
  ASSUME ~SkipsAnyhow
  PROVE  RowsSpec => ImplementsRowReader
<1>1. RowsInit => (RowsInv \/ MixedInv) /\ Reader!Init
  BY InitInStep, InitMixed, ReaderBegins
<1>2. (RowsInv \/ MixedInv) /\ [RowsNext]_rvars =>
        (RowsInv \/ MixedInv)' /\ [Reader!Next]_<<Height, d.scan, client.lines,
                                   [k \in 1..Len(d.out) |-> LineOf(d.out[k])]>>
  <2>1. ASSUME RowsInv \/ MixedInv, RowsNext
        PROVE  (RowsInv \/ MixedInv)' /\ Reader!Next
    BY <2>1, ReadStep, SkipStep, MixedReadStep, MixedSkipStep DEF RowsNext, Reader!Next
  <2>2. ASSUME RowsInv \/ MixedInv, UNCHANGED rvars
        PROVE  /\ (RowsInv \/ MixedInv)'
               /\ UNCHANGED <<Height, d.scan, client.lines, [k \in 1..Len(d.out) |-> LineOf(d.out[k])]>>
    <3>1. UNCHANGED shape /\ UNCHANGED d /\ UNCHANGED client
      BY <2>2 DEF rvars
    <3>2. RowsInv => RowsInv'
      BY <3>1, SamePicture DEF RowsInv
    <3>3. MixedInv => MixedInv'
      <4>1. PICK t : d' = t /\ d = t
        BY <3>1
      <4>. QED  BY <3>1, <4>1, MixedAfter DEF MixedInv
    <3>4. Height' = Height /\ d'.scan = d.scan /\ client'.lines = client.lines
      BY <3>1 DEF Height
    <3>5. ([k \in 1..Len(d.out) |-> LineOf(d.out[k])])' = [k \in 1..Len(d.out) |-> LineOf(d.out[k])]
      BY <3>1 DEF LineOf, Expected, Height, Clamped, Samples, Least
    <3>. QED  BY <2>2, <3>2, <3>3, <3>4, <3>5
  <2>. QED  BY <2>1, <2>2
<1>. QED  BY <1>1, <1>2, PTL DEF RowsSpec, ImplementsRowReader, Reader!Spec

-----------------------------------------------------------------------------
(* Quotients and products: the other proofs do not look inside them. *)

(* A product of two numbers, and of a number and one that is not zero. *)
LEMMA Product ==
  ASSUME NEW a \in Nat, NEW b \in Nat
  PROVE  a * b \in Nat /\ a * b = b * a /\ (b # 0 => a <= a * b)
OBVIOUS

(* A product of numbers that are not zero is not zero. *)
LEMMA Positive ==
  ASSUME NEW a \in Nat \ {0}, NEW b \in Nat \ {0}
  PROVE  a * b \in Nat \ {0}
OBVIOUS

(* Factors in another order. *)
LEMMA Reordered ==
  ASSUME NEW a \in Int, NEW b \in Int, NEW c \in Int
  PROVE  (a * b) * c = (a * c) * b /\ (a * b) * c = a * (b * c)
OBVIOUS

(* A larger factor makes a larger product. *)
LEMMA Monotone ==
  ASSUME NEW a \in Int, NEW b \in Int, NEW c \in Nat, a <= b
  PROVE  a * c <= b * c
OBVIOUS

(* A factor is drawn into a sum. *)
LEMMA Distribute ==
  ASSUME NEW a \in Int, NEW b \in Int, NEW c \in Int
  PROVE  (a + b) * c = a * c + b * c /\ (a - b) * c = a * c - b * c
OBVIOUS

(* Division that rounds up is the least that covers. *)
LEMMA UpFacts ==
  ASSUME NEW a \in Nat, NEW b \in Nat \ {0}
  PROVE  /\ Up(a, b) \in Nat
         /\ a <= Up(a, b) * b
         /\ \A x \in Nat : a <= x * b => Up(a, b) <= x
<1>. DEFINE u == (a + b - 1) \div b
<1>1. u \in Nat /\ u * b <= a + b - 1 /\ a + b - 1 < u * b + b
  <2>1. a + b - 1 \in Nat
    OBVIOUS
  <2>. QED  BY <2>1, Quotient
<1>2. u * b \in Nat
  BY <1>1, Product
<1>3. ASSUME NEW x \in Nat, a <= x * b PROVE u <= x
  <2>1. x * b \in Nat /\ (x + 1) * b = x * b + b
    BY Product, Distribute
  <2>. HIDE DEF u
  <2>2. u * b < (x + 1) * b
    BY <1>1, <1>2, <1>3, <2>1
  <2>3. u < x + 1
    BY <1>1, <2>2, CancelFactor
  <2>. QED  BY <1>1, <2>3
<1>4. Up(a, b) = u
  BY DEF Up
<1>. HIDE DEF u
<1>5. a <= u * b
  BY <1>1, <1>2
<1>. QED  BY <1>1, <1>3, <1>4, <1>5

(* The quotient of a multiple. *)
LEMMA Exact ==
  ASSUME NEW a \in Nat, NEW b \in Nat \ {0}, a % b = 0
  PROVE  (a \div b) * b = a
<1>. DEFINE q == a \div b
<1>1. q \in Nat /\ q * b <= a /\ a % b = a - q * b
  BY Quotient
<1>2. q * b \in Nat
  BY <1>1, Product
<1>. HIDE DEF q
<1>3. q * b = a
  BY <1>1, <1>2
<1>. QED  BY <1>3 DEF q

-----------------------------------------------------------------------------
(* Samples and blocks along one side of an output.  unit is the side of an  *)
(* iMCU in samples, k the blocks a component has of it.                     *)

(* A window that begins with an iMCU and stays within the picture has its   *)
(* blocks within the array of the component.                                *)
LEMMA WindowFits ==
  ASSUME NEW full \in Nat, NEW unit \in Nat \ {0}, NEW k \in Nat \ {0},
         NEW crop \in Nat, NEW size \in Nat,
         crop % unit = 0, crop + size <= full
  PROVE  /\ crop \div unit \in Nat
         /\ Up(size * k, unit) \in Nat
         /\ (crop \div unit) * k + Up(size * k, unit) <= Up(full, unit) * k
<1>. DEFINE q == crop \div unit
            U == Up(full, unit)
            blocks == Up(size * k, unit)
<1>1. q \in Nat /\ q * unit = crop
  BY Quotient, Exact
<1>2. U \in Nat /\ full <= U * unit
  BY UpFacts
<1>3. U * unit \in Nat /\ q * unit \in Nat /\ size * k \in Nat
  BY <1>1, <1>2, Product
<1>4. blocks \in Nat /\ \A x \in Nat : size * k <= x * unit => blocks <= x
  BY <1>3, UpFacts
<1>. HIDE DEF q, U, blocks
<1>5. size <= (U - q) * unit
  <2>1. (U - q) * unit = U * unit - q * unit
    BY <1>1, <1>2, Distribute
  <2>. QED  BY <1>1, <1>2, <1>3, <2>1
<1>6. U - q \in Nat
  <2>1. CASE U < q
    <3>1. (U + 1) * unit <= q * unit
      BY <1>1, <1>2, <2>1, Monotone
    <3>2. (U + 1) * unit = U * unit + unit
      BY <1>2, Distribute
    <3>. QED  BY <1>1, <1>2, <1>3, <3>1, <3>2
  <2>. QED  BY <1>1, <1>2, <2>1
<1>7. size * k <= ((U - q) * k) * unit
  <2>1. (U - q) * unit \in Nat
    BY <1>6, Product
  <2>2. size * k <= ((U - q) * unit) * k
    BY <1>5, <2>1, Monotone
  <2>. QED  BY <1>6, <2>2, Reordered
<1>8. blocks <= (U - q) * k
  BY <1>4, <1>6, <1>7, Product
<1>9. (U - q) * k = U * k - q * k /\ U * k \in Nat /\ q * k \in Nat
  BY <1>1, <1>2, Distribute, Product
<1>10. q * k + blocks <= U * k
  BY <1>4, <1>8, <1>9
<1>. QED  BY <1>1, <1>4, <1>10 DEF q, U, blocks

(* The full iMCUs of a picture have their blocks in the array too. *)
LEMMA FullFits ==
  ASSUME NEW full \in Nat, NEW unit \in Nat \ {0}, NEW k \in Nat \ {0}
  PROVE  /\ (full \div unit) * k \in Nat
         /\ (full \div unit) * k <= Up(full, unit) * k
<1>. DEFINE q == full \div unit
            U == Up(full, unit)
<1>1. q \in Nat /\ q * unit <= full
  BY Quotient
<1>2. U \in Nat /\ full <= U * unit
  BY UpFacts
<1>3. U * unit \in Nat /\ q * unit \in Nat
  BY <1>1, <1>2, Product
<1>. HIDE DEF q, U
<1>4. q <= U
  <2>1. CASE U < q
    <3>1. (U + 1) * unit <= q * unit
      BY <1>1, <1>2, <2>1, Monotone
    <3>2. (U + 1) * unit = U * unit + unit
      BY <1>2, Distribute
    <3>. QED  BY <1>1, <1>2, <1>3, <3>1, <3>2
  <2>. QED  BY <1>1, <1>2, <2>1
<1>5. q * k \in Nat /\ q * k <= U * k
  BY <1>1, <1>2, <1>4, Product, Monotone
<1>. QED  BY <1>5 DEF q, U

(* An output of one component counts single blocks, the array was padded to *)
(* iMCUs of m blocks.                                                       *)
LEMMA SingleFits ==
  ASSUME NEW full \in Nat, NEW e \in Nat \ {0}, NEW m \in Nat \ {0}
  PROVE  Up(full, e) <= Up(full, m * e) * m
<1>. DEFINE U == Up(full, m * e)
<1>1. m * e \in Nat \ {0}
  BY Positive
<1>2. U \in Nat /\ full <= U * (m * e)
  BY <1>1, UpFacts
<1>. HIDE DEF U
<1>3. U * m \in Nat /\ (U * m) * e = U * (m * e)
  BY <1>2, Product, Reordered
<1>4. Up(full, e) <= U * m
  BY <1>2, <1>3, UpFacts
<1>. QED  BY <1>4 DEF U

-----------------------------------------------------------------------------
(* The types of pictures and transforms. *)
Factors == [hs : Nat \ {0}, vs : Nat \ {0}]
Rectangles == [x : Nat, y : Nat, w : Nat, h : Nat]
Transforms == [op : TransformOps, trim : BOOLEAN, perfect : BOOLEAN, gray : BOOLEAN,
               crop : Rectangles]

(* The arrays of component c: their blocks across and down. *)
Across(c) == Up(source.w, MaxHs(source.comps) * DctSize) * source.comps[c].hs
Down(c) == Up(source.h, MaxVs(source.comps) * DctSize) * source.comps[c].vs

(* The same as an output sees them. *)
Columns(t, c) == IF Transposes(t) THEN Down(c) ELSE Across(c)
Lines(t, c) == IF Transposes(t) THEN Across(c) ELSE Down(c)

(* What the constants are. *)
LEMMA SourceTyped ==
  ASSUME source \in Sources
  PROVE  /\ source.w \in Nat \ {0} /\ source.h \in Nat \ {0}
         /\ Len(source.comps) \in Nat \ {0}
         /\ \A c \in 1..Len(source.comps) : source.comps[c] \in Factors
         /\ MaxHs(source.comps) \in Nat \ {0} /\ MaxVs(source.comps) \in Nat \ {0}
<1>1. /\ source.w \in Nat \ {0} /\ source.h \in Nat \ {0}
      /\ source.comps \in Seq(Factors) /\ source.comps # <<>>
  BY TransformAssumption DEF Factors
<1>2. Len(source.comps) \in Nat \ {0}
  BY <1>1
<1>3. \A c \in 1..Len(source.comps) : source.comps[c] \in Factors
  BY <1>1
<1>4. source.comps[1] \in Factors
  BY <1>2, <1>3
<1>. QED  BY <1>1, <1>2, <1>3, <1>4 DEF Factors, MaxHs, MaxVs

(* What an output has of sampling factors and of iMCU sides. *)
LEMMA OutputTyped ==
  ASSUME source \in Sources, NEW t \in Transforms, NEW c \in 1..Len(OutputComps(t))
  PROVE  /\ c \in 1..Len(source.comps)
         /\ Single(t) => c = 1
         /\ OutputComps(t)[c] \in Factors
         /\ McuWidth(t) \in Nat \ {0} /\ McuHeight(t) \in Nat \ {0}
         /\ MaxHs(OutputComps(t)) * DctSize = McuWidth(t)
         /\ MaxVs(OutputComps(t)) * DctSize = McuHeight(t)
<1>1. DctSize \in Nat \ {0}
  BY TransformAssumption
<1>2. CASE Single(t)
  <2>1. OutputComps(t) = <<[hs |-> 1, vs |-> 1]>>
    BY <1>2 DEF OutputComps
  <2>2. c = 1 /\ OutputComps(t)[1] = [hs |-> 1, vs |-> 1]
    BY <2>1
  <2>3. McuWidth(t) = DctSize * 1 /\ McuHeight(t) = DctSize * 1
    BY <1>2 DEF McuWidth, McuHeight
  <2>. QED  BY <1>1, <1>2, <2>2, <2>3, SourceTyped DEF Factors, MaxHs, MaxVs
<1>3. CASE ~Single(t)
  <2>1. OutputComps(t) = [e \in 1..Len(source.comps) |->
                            IF Transposes(t)
                            THEN [hs |-> source.comps[e].vs, vs |-> source.comps[e].hs]
                            ELSE source.comps[e]]
    BY <1>3 DEF OutputComps
  <2>2. Len(OutputComps(t)) = Len(source.comps)
    BY <2>1, SourceTyped
  <2>3. \A e \in 1..Len(source.comps) : OutputComps(t)[e] \in Factors
    BY <2>1, SourceTyped DEF Factors
  <2>4. /\ MaxHs(OutputComps(t)) = IF Transposes(t) THEN MaxVs(source.comps) ELSE MaxHs(source.comps)
        /\ MaxVs(OutputComps(t)) = IF Transposes(t) THEN MaxHs(source.comps) ELSE MaxVs(source.comps)
    BY <2>1, SourceTyped DEF MaxHs, MaxVs
  <2>5. /\ McuWidth(t) = DctSize * MaxHs(OutputComps(t))
        /\ McuHeight(t) = DctSize * MaxVs(OutputComps(t))
    BY <1>3, <2>4 DEF McuWidth, McuHeight
  <2>6. MaxHs(OutputComps(t)) \in Nat \ {0} /\ MaxVs(OutputComps(t)) \in Nat \ {0}
    BY <2>4, SourceTyped
  <2>. QED  BY <1>1, <1>3, <2>2, <2>3, <2>5, <2>6, Product, Positive
<1>. QED  BY <1>2, <1>3

(* Trimming makes an output smaller, if anything. *)
LEMMA TrimShrinks ==
  ASSUME NEW size \in Nat, NEW offset, NEW full, NEW mcu \in Nat \ {0}
  PROVE  Trim(size, offset, full, mcu) \in Nat /\ Trim(size, offset, full, mcu) <= size
<1>1. size % mcu \in Nat /\ size - (size % mcu) \in Nat /\ size - (size % mcu) <= size
  <2>. DEFINE rest == size % mcu
  <2>1. rest \in Nat /\ (size \div mcu) * mcu \in Nat /\ rest = size - (size \div mcu) * mcu
    BY Quotient, Product
  <2>. QED  BY <2>1
<1>. QED  BY <1>1 DEF Trim

(* The window of an output lies within the turned picture. *)
LEMMA WindowTyped ==
  ASSUME source \in Sources, NEW t \in Transforms, Acceptable(t)
  PROVE  /\ t.crop.x \in Nat /\ t.crop.y \in Nat
         /\ FullWidth(t) \in Nat \ {0} /\ FullHeight(t) \in Nat \ {0}
         /\ CropWidth(t) \in Nat /\ CropHeight(t) \in Nat
         /\ t.crop.x + CropWidth(t) <= FullWidth(t)
         /\ t.crop.y + CropHeight(t) <= FullHeight(t)
         /\ t.crop.x % McuWidth(t) = 0 /\ t.crop.y % McuHeight(t) = 0
<1>1. t.crop \in Rectangles
  BY DEF Transforms
<1>2. FullWidth(t) \in Nat \ {0} /\ FullHeight(t) \in Nat \ {0}
  BY SourceTyped DEF FullWidth, FullHeight
<1>. QED  BY <1>1, <1>2 DEF Acceptable, CropWidth, CropHeight, Rectangles

(* An output is no larger than its window. *)
LEMMA OutputWithinWindow ==
  ASSUME source \in Sources, NEW t \in Transforms, Acceptable(t),
         McuWidth(t) \in Nat \ {0}, McuHeight(t) \in Nat \ {0}
  PROVE  /\ OutputSize(t)[1] \in Nat /\ OutputSize(t)[1] <= CropWidth(t)
         /\ OutputSize(t)[2] \in Nat /\ OutputSize(t)[2] <= CropHeight(t)
<1>1. CropWidth(t) \in Nat /\ CropHeight(t) \in Nat
  BY WindowTyped
<1>2. /\ OutputSize(t)[1] = IF TrimsRight(t)
                            THEN Trim(CropWidth(t), Offset(t)[1], FullWidth(t), McuWidth(t))
                            ELSE CropWidth(t)
      /\ OutputSize(t)[2] = IF TrimsBottom(t)
                            THEN Trim(CropHeight(t), Offset(t)[2], FullHeight(t), McuHeight(t))
                            ELSE CropHeight(t)
  BY DEF OutputSize
<1>. QED  BY <1>1, <1>2, TrimShrinks

(* The iMCUs of the output, whole or not, are blocks of the array. *)
LEMMA PaddedFits ==
  ASSUME source \in Sources, NEW t \in Transforms, NEW c \in 1..Len(OutputComps(t))
  PROVE  /\ Columns(t, c) \in Nat /\ Lines(t, c) \in Nat
         /\ Up(FullWidth(t), McuWidth(t)) * OutputComps(t)[c].hs <= Columns(t, c)
         /\ Up(FullHeight(t), McuHeight(t)) * OutputComps(t)[c].vs <= Lines(t, c)
<1>1. /\ DctSize \in Nat \ {0}
      /\ source.w \in Nat /\ source.h \in Nat
      /\ MaxHs(source.comps) \in Nat \ {0} /\ MaxVs(source.comps) \in Nat \ {0}
      /\ c \in 1..Len(source.comps) /\ source.comps[c] \in Factors
  BY TransformAssumption, SourceTyped, OutputTyped
<1>. DEFINE K == MaxHs(source.comps)
            N == MaxVs(source.comps)
            hs == source.comps[c].hs
            vs == source.comps[c].vs
<1>2. hs \in Nat \ {0} /\ vs \in Nat \ {0}
  BY <1>1 DEF Factors
<1>3. K * DctSize \in Nat \ {0} /\ N * DctSize \in Nat \ {0}
  BY <1>1, Positive
<1>4. Up(source.w, K * DctSize) \in Nat /\ Up(source.h, N * DctSize) \in Nat
  BY <1>1, <1>3, UpFacts
<1>5. Across(c) \in Nat /\ Down(c) \in Nat
  BY <1>2, <1>4, Product DEF Across, Down
<1>6. Columns(t, c) \in Nat /\ Lines(t, c) \in Nat
  BY <1>5 DEF Columns, Lines
<1>7. CASE Single(t)
  <2>1. c = 1 /\ OutputComps(t) = <<[hs |-> 1, vs |-> 1]>>
    BY <1>7, OutputTyped DEF OutputComps
  <2>2. OutputComps(t)[c].hs = 1 /\ OutputComps(t)[c].vs = 1
    BY <2>1
  <2>3. McuWidth(t) = DctSize /\ McuHeight(t) = DctSize
    BY <1>1, <1>7 DEF McuWidth, McuHeight
  <2>4. hs = K /\ vs = N
    BY <2>1 DEF MaxHs, MaxVs
  <2>5. /\ Up(source.w, DctSize) <= Up(source.w, K * DctSize) * K
        /\ Up(source.h, DctSize) <= Up(source.h, N * DctSize) * N
    BY <1>1, SingleFits
  <2>6. Up(source.w, DctSize) <= Across(c) /\ Up(source.h, DctSize) <= Down(c)
    BY <2>4, <2>5 DEF Across, Down
  <2>7. Up(source.w, DctSize) \in Nat /\ Up(source.h, DctSize) \in Nat
    BY <1>1, UpFacts
  <2>8. Up(FullWidth(t), DctSize) \in Nat /\ Up(FullHeight(t), DctSize) \in Nat
    BY <2>7 DEF FullWidth, FullHeight
  <2>9. Up(FullWidth(t), DctSize) <= Columns(t, c) /\ Up(FullHeight(t), DctSize) <= Lines(t, c)
    BY <2>6 DEF FullWidth, FullHeight, Columns, Lines
  <2>. QED  BY <1>6, <2>2, <2>3, <2>8, <2>9
<1>8. CASE ~Single(t)
  <2>1. OutputComps(t)[c] = IF Transposes(t) THEN [hs |-> vs, vs |-> hs] ELSE source.comps[c]
    BY <1>1, <1>8 DEF OutputComps
  <2>2. /\ OutputComps(t)[c].hs = IF Transposes(t) THEN vs ELSE hs
        /\ OutputComps(t)[c].vs = IF Transposes(t) THEN hs ELSE vs
    BY <2>1
  <2>3. DctSize * K = K * DctSize /\ DctSize * N = N * DctSize
    BY <1>1
  <2>4. /\ McuWidth(t) = IF Transposes(t) THEN N * DctSize ELSE K * DctSize
        /\ McuHeight(t) = IF Transposes(t) THEN K * DctSize ELSE N * DctSize
    BY <1>8, <2>3 DEF McuWidth, McuHeight
  <2>5. /\ Up(FullWidth(t), McuWidth(t)) * OutputComps(t)[c].hs = Columns(t, c)
        /\ Up(FullHeight(t), McuHeight(t)) * OutputComps(t)[c].vs = Lines(t, c)
    <3>. HIDE DEF hs, vs
    <3>1. Across(c) = Up(source.w, K * DctSize) * hs /\ Down(c) = Up(source.h, N * DctSize) * vs
      BY DEF Across, Down, hs, vs
    <3>. QED  BY <2>2, <2>4, <3>1 DEF FullWidth, FullHeight, Columns, Lines
  <2>. QED  BY <1>6, <2>5
<1>. QED  BY <1>7, <1>8

(* All an output is made of is there: the blocks of its window, shifted by  *)
(* the crop, and those that are mirrored.                                   *)
LEMMA OutputFits ==
  ASSUME source \in Sources, NEW t \in Transforms, Acceptable(t),
         NEW c \in 1..Len(OutputComps(t))
  PROVE  /\ XCrop(t, c) \in Nat /\ YCrop(t, c) \in Nat
         /\ CompWidth(t, c) \in 0..Columns(t, c) /\ CompHeight(t, c) \in 0..Lines(t, c)
         /\ \A p \in OutputBlocks(t, c) :
              /\ p[1] \in Nat /\ p[2] \in Nat
              /\ p[1] + XCrop(t, c) \in 0 .. Columns(t, c) - 1
              /\ p[2] + YCrop(t, c) \in 0 .. Lines(t, c) - 1
<1>. DEFINE hs == OutputComps(t)[c].hs
            vs == OutputComps(t)[c].vs
            across == Up(OutputSize(t)[1] * hs, McuWidth(t))
            down == Up(OutputSize(t)[2] * vs, McuHeight(t))
<1>1. /\ hs \in Nat \ {0} /\ vs \in Nat \ {0}
      /\ McuWidth(t) \in Nat \ {0} /\ McuHeight(t) \in Nat \ {0}
      /\ MaxHs(OutputComps(t)) * DctSize = McuWidth(t)
      /\ MaxVs(OutputComps(t)) * DctSize = McuHeight(t)
  BY OutputTyped DEF Factors
<1>2. /\ t.crop.x \in Nat /\ t.crop.y \in Nat
      /\ FullWidth(t) \in Nat /\ FullHeight(t) \in Nat
      /\ OutputSize(t)[1] \in Nat /\ OutputSize(t)[2] \in Nat
      /\ t.crop.x + OutputSize(t)[1] <= FullWidth(t)
      /\ t.crop.y + OutputSize(t)[2] <= FullHeight(t)
      /\ t.crop.x % McuWidth(t) = 0 /\ t.crop.y % McuHeight(t) = 0
  <2>1. /\ t.crop.x \in Nat /\ t.crop.y \in Nat
        /\ FullWidth(t) \in Nat /\ FullHeight(t) \in Nat
        /\ CropWidth(t) \in Nat /\ CropHeight(t) \in Nat
        /\ t.crop.x + CropWidth(t) <= FullWidth(t)
        /\ t.crop.y + CropHeight(t) <= FullHeight(t)
        /\ t.crop.x % McuWidth(t) = 0 /\ t.crop.y % McuHeight(t) = 0
    BY WindowTyped
  <2>2. /\ OutputSize(t)[1] \in Nat /\ OutputSize(t)[1] <= CropWidth(t)
        /\ OutputSize(t)[2] \in Nat /\ OutputSize(t)[2] <= CropHeight(t)
    BY <1>1, OutputWithinWindow
  <2>3. \A x, n, m, f \in Nat : x + n <= f /\ m <= n => x + m <= f
    OBVIOUS
  <2>. QED  BY <2>1, <2>2, <2>3
<1>3. /\ XCrop(t, c) = (t.crop.x \div McuWidth(t)) * hs
      /\ YCrop(t, c) = (t.crop.y \div McuHeight(t)) * vs
  BY DEF XCrop, YCrop, Offset
<1>4. /\ CompWidth(t, c) = (FullWidth(t) \div McuWidth(t)) * hs
      /\ CompHeight(t, c) = (FullHeight(t) \div McuHeight(t)) * vs
  BY <1>1 DEF CompWidth, CompHeight
<1>5. OutputBlocks(t, c) = (0 .. across - 1) \X (0 .. down - 1)
  BY <1>1 DEF OutputBlocks
<1>. HIDE DEF hs, vs
<1>6. /\ across \in Nat /\ down \in Nat
      /\ XCrop(t, c) \in Nat /\ YCrop(t, c) \in Nat
      /\ XCrop(t, c) + across <= Up(FullWidth(t), McuWidth(t)) * hs
      /\ YCrop(t, c) + down <= Up(FullHeight(t), McuHeight(t)) * vs
  <2>1. /\ across \in Nat /\ t.crop.x \div McuWidth(t) \in Nat
        /\ (t.crop.x \div McuWidth(t)) * hs + across <= Up(FullWidth(t), McuWidth(t)) * hs
    <3>1. PICK full \in Nat, unit \in Nat \ {0}, k \in Nat \ {0}, crop \in Nat, size \in Nat :
            /\ full = FullWidth(t) /\ unit = McuWidth(t) /\ k = hs
            /\ crop = t.crop.x /\ size = OutputSize(t)[1]
      BY <1>1, <1>2
    <3>2. crop % unit = 0 /\ crop + size <= full
      BY <1>2, <3>1
    <3>3. /\ crop \div unit \in Nat /\ Up(size * k, unit) \in Nat
          /\ (crop \div unit) * k + Up(size * k, unit) <= Up(full, unit) * k
      BY <3>2, WindowFits
    <3>. QED  BY <3>1, <3>3
  <2>2. /\ down \in Nat /\ t.crop.y \div McuHeight(t) \in Nat
        /\ (t.crop.y \div McuHeight(t)) * vs + down <= Up(FullHeight(t), McuHeight(t)) * vs
    <3>1. PICK full \in Nat, unit \in Nat \ {0}, k \in Nat \ {0}, crop \in Nat, size \in Nat :
            /\ full = FullHeight(t) /\ unit = McuHeight(t) /\ k = vs
            /\ crop = t.crop.y /\ size = OutputSize(t)[2]
      BY <1>1, <1>2
    <3>2. crop % unit = 0 /\ crop + size <= full
      BY <1>2, <3>1
    <3>3. /\ crop \div unit \in Nat /\ Up(size * k, unit) \in Nat
          /\ (crop \div unit) * k + Up(size * k, unit) <= Up(full, unit) * k
      BY <3>2, WindowFits
    <3>. QED  BY <3>1, <3>3
  <2>. QED  BY <1>1, <1>3, <2>1, <2>2, Product
<1>7. /\ CompWidth(t, c) \in Nat /\ CompHeight(t, c) \in Nat
      /\ CompWidth(t, c) <= Up(FullWidth(t), McuWidth(t)) * hs
      /\ CompHeight(t, c) <= Up(FullHeight(t), McuHeight(t)) * vs
  BY <1>1, <1>2, <1>4, FullFits
<1>. HIDE DEF across, down
<1>8. /\ Columns(t, c) \in Nat /\ Lines(t, c) \in Nat
      /\ Up(FullWidth(t), McuWidth(t)) * hs <= Columns(t, c)
      /\ Up(FullHeight(t), McuHeight(t)) * vs <= Lines(t, c)
  BY PaddedFits DEF hs, vs
<1>9. /\ Up(FullWidth(t), McuWidth(t)) * hs \in Nat
      /\ Up(FullHeight(t), McuHeight(t)) * vs \in Nat
  BY <1>1, <1>2, UpFacts, Product
<1>10. /\ XCrop(t, c) + across <= Columns(t, c) /\ YCrop(t, c) + down <= Lines(t, c)
       /\ CompWidth(t, c) <= Columns(t, c) /\ CompHeight(t, c) <= Lines(t, c)
  BY <1>6, <1>7, <1>8, <1>9
<1>11. ASSUME NEW p \in OutputBlocks(t, c)
       PROVE  /\ p[1] \in Nat /\ p[2] \in Nat
              /\ p[1] + XCrop(t, c) \in 0 .. Columns(t, c) - 1
              /\ p[2] + YCrop(t, c) \in 0 .. Lines(t, c) - 1
  <2>1. p[1] \in 0 .. across - 1 /\ p[2] \in 0 .. down - 1
    BY <1>5
  <2>2. p[1] \in Nat /\ p[1] < across /\ p[2] \in Nat /\ p[2] < down
    BY <1>6, <2>1
  <2>3. ASSUME NEW i \in Nat, NEW k \in Nat, NEW z \in Nat, NEW n \in Nat, i < n, k + n <= z
        PROVE  i + k \in 0 .. z - 1
    BY <2>3
  <2>4. p[1] + XCrop(t, c) \in 0 .. Columns(t, c) - 1
    <3>1. PICK i \in Nat, k \in Nat, z \in Nat, n \in Nat :
            i = p[1] /\ k = XCrop(t, c) /\ z = Columns(t, c) /\ n = across
      BY <1>6, <1>8, <2>2
    <3>. QED  BY <1>10, <2>2, <2>3, <3>1
  <2>5. p[2] + YCrop(t, c) \in 0 .. Lines(t, c) - 1
    <3>1. PICK i \in Nat, k \in Nat, z \in Nat, n \in Nat :
            i = p[2] /\ k = YCrop(t, c) /\ z = Lines(t, c) /\ n = down
      BY <1>6, <1>8, <2>2
    <3>. QED  BY <1>10, <2>2, <2>3, <3>1
  <2>. QED  BY <2>2, <2>4, <2>5
<1>. QED  BY <1>6, <1>7, <1>8, <1>10, <1>11

-----------------------------------------------------------------------------
(* The elementary steps. *)
Blocks == [x : Nat, y : Nat, transposed : BOOLEAN, h : BOOLEAN, v : BOOLEAN]
Grid(X, Y) == (0 .. X - 1) \X (0 .. Y - 1)

(* Mirroring and transposing a block: a transposed block is mirrored the     *)
(* other way.                                                                *)
LEMMA BlockFacts ==
  ASSUME NEW b \in Blocks
  PROVE  /\ MirrorH(b) \in Blocks /\ MirrorV(b) \in Blocks /\ Transposed(b) \in Blocks
         /\ Transposed(MirrorH(b)) = MirrorV(Transposed(b))
         /\ Transposed(MirrorV(b)) = MirrorH(Transposed(b))
         /\ MirrorH(MirrorV(b)) = MirrorV(MirrorH(b))
BY DEF Blocks, MirrorH, MirrorV, Transposed

(* The places of a grid. *)
LEMMA GridFacts ==
  ASSUME NEW X \in Nat, NEW Y \in Nat
  PROVE  /\ \A x \in 0 .. X - 1, y \in 0 .. Y - 1 : <<x, y>> \in Grid(X, Y)
         /\ \A p \in Grid(X, Y) : p[1] \in 0 .. X - 1 /\ p[2] \in 0 .. Y - 1 /\ p = <<p[1], p[2]>>
BY DEF Grid

(* A flip left to right of the first n columns. *)
LEMMA FlipHFacts ==
  ASSUME NEW X \in Nat, NEW Y \in Nat, NEW S \in [Grid(X, Y) -> Blocks], NEW n \in 0..X
  PROVE  /\ FlipH(S, n) \in [Grid(X, Y) -> Blocks]
         /\ \A x \in 0 .. X - 1, y \in 0 .. Y - 1 :
              FlipH(S, n)[<<x, y>>] = IF x < n THEN MirrorH(S[<<n - 1 - x, y>>]) ELSE S[<<x, y>>]
<1>1. ASSUME NEW x \in 0 .. X - 1, NEW y \in 0 .. Y - 1
      PROVE  (IF x < n THEN MirrorH(S[<<n - 1 - x, y>>]) ELSE S[<<x, y>>]) \in Blocks
  <2>1. S[<<x, y>>] \in Blocks
    BY GridFacts
  <2>2. CASE x < n
    <3>1. n - 1 - x \in 0 .. X - 1
      BY <2>2
    <3>2. <<n - 1 - x, y>> \in Grid(X, Y)
      BY <3>1, GridFacts
    <3>3. S[<<n - 1 - x, y>>] \in Blocks
      BY <3>2
    <3>. QED  BY <2>2, <3>3, BlockFacts
  <2>. QED  BY <2>1, <2>2
<1>2. FlipH(S, n) = [p \in Grid(X, Y) |->
                      IF p[1] < n THEN MirrorH(S[<<n - 1 - p[1], p[2]>>]) ELSE S[p]]
  BY DEF FlipH
<1>3. ASSUME NEW x \in 0 .. X - 1, NEW y \in 0 .. Y - 1
      PROVE  FlipH(S, n)[<<x, y>>] = IF x < n THEN MirrorH(S[<<n - 1 - x, y>>]) ELSE S[<<x, y>>]
  BY <1>2, GridFacts
<1>4. ASSUME NEW p \in Grid(X, Y)
      PROVE  (IF p[1] < n THEN MirrorH(S[<<n - 1 - p[1], p[2]>>]) ELSE S[p]) \in Blocks
  <2>1. p[1] \in 0 .. X - 1 /\ p[2] \in 0 .. Y - 1 /\ p = <<p[1], p[2]>>
    BY GridFacts
  <2>2. S[p] = S[<<p[1], p[2]>>]
    BY <2>1
  <2>. QED  BY <1>1, <2>1, <2>2
<1>. QED  BY <1>2, <1>3, <1>4

(* A flip top to bottom of the first n rows. *)
LEMMA FlipVFacts ==
  ASSUME NEW X \in Nat, NEW Y \in Nat, NEW S \in [Grid(X, Y) -> Blocks], NEW n \in 0..Y
  PROVE  /\ FlipV(S, n) \in [Grid(X, Y) -> Blocks]
         /\ \A x \in 0 .. X - 1, y \in 0 .. Y - 1 :
              FlipV(S, n)[<<x, y>>] = IF y < n THEN MirrorV(S[<<x, n - 1 - y>>]) ELSE S[<<x, y>>]
<1>1. ASSUME NEW x \in 0 .. X - 1, NEW y \in 0 .. Y - 1
      PROVE  (IF y < n THEN MirrorV(S[<<x, n - 1 - y>>]) ELSE S[<<x, y>>]) \in Blocks
  <2>1. S[<<x, y>>] \in Blocks
    BY GridFacts
  <2>2. CASE y < n
    <3>1. n - 1 - y \in 0 .. Y - 1
      BY <2>2
    <3>2. <<x, n - 1 - y>> \in Grid(X, Y)
      BY <3>1, GridFacts
    <3>3. S[<<x, n - 1 - y>>] \in Blocks
      BY <3>2
    <3>. QED  BY <2>2, <3>3, BlockFacts
  <2>. QED  BY <2>1, <2>2
<1>2. FlipV(S, n) = [p \in Grid(X, Y) |->
                      IF p[2] < n THEN MirrorV(S[<<p[1], n - 1 - p[2]>>]) ELSE S[p]]
  BY DEF FlipV
<1>3. ASSUME NEW x \in 0 .. X - 1, NEW y \in 0 .. Y - 1
      PROVE  FlipV(S, n)[<<x, y>>] = IF y < n THEN MirrorV(S[<<x, n - 1 - y>>]) ELSE S[<<x, y>>]
  BY <1>2, GridFacts
<1>4. ASSUME NEW p \in Grid(X, Y)
      PROVE  (IF p[2] < n THEN MirrorV(S[<<p[1], n - 1 - p[2]>>]) ELSE S[p]) \in Blocks
  <2>1. p[1] \in 0 .. X - 1 /\ p[2] \in 0 .. Y - 1 /\ p = <<p[1], p[2]>>
    BY GridFacts
  <2>2. S[p] = S[<<p[1], p[2]>>]
    BY <2>1
  <2>. QED  BY <1>1, <2>1, <2>2
<1>. QED  BY <1>2, <1>3, <1>4

(* A transposition. *)
LEMMA TurnFacts ==
  ASSUME NEW X \in Nat, NEW Y \in Nat, NEW S \in [Grid(X, Y) -> Blocks]
  PROVE  /\ Turn(S) \in [Grid(Y, X) -> Blocks]
         /\ \A x \in 0 .. Y - 1, y \in 0 .. X - 1 : Turn(S)[<<x, y>>] = Transposed(S[<<y, x>>])
<1>1. {<<q[2], q[1]>> : q \in DOMAIN S} = Grid(Y, X)
  <2>1. DOMAIN S = Grid(X, Y)
    OBVIOUS
  <2>2. ASSUME NEW q \in Grid(X, Y) PROVE <<q[2], q[1]>> \in Grid(Y, X)
    BY GridFacts
  <2>3. ASSUME NEW p \in Grid(Y, X) PROVE \E q \in Grid(X, Y) : p = <<q[2], q[1]>>
    <3>1. p[1] \in 0 .. Y - 1 /\ p[2] \in 0 .. X - 1 /\ p = <<p[1], p[2]>>
      BY GridFacts
    <3>2. <<p[2], p[1]>> \in Grid(X, Y)
      BY <3>1, GridFacts
    <3>. QED  BY <3>1, <3>2
  <2>. QED  BY <2>1, <2>2, <2>3
<1>2. Turn(S) = [p \in Grid(Y, X) |-> Transposed(S[<<p[2], p[1]>>])]
  BY <1>1 DEF Turn
<1>3. ASSUME NEW p \in Grid(Y, X) PROVE Transposed(S[<<p[2], p[1]>>]) \in Blocks
  <2>1. <<p[2], p[1]>> \in Grid(X, Y)
    BY GridFacts
  <2>2. S[<<p[2], p[1]>>] \in Blocks
    BY <2>1
  <2>. QED  BY <2>2, BlockFacts
<1>4. ASSUME NEW x \in 0 .. Y - 1, NEW y \in 0 .. X - 1
      PROVE  Turn(S)[<<x, y>>] = Transposed(S[<<y, x>>])
  BY <1>2, GridFacts
<1>. QED  BY <1>2, <1>3, <1>4

-----------------------------------------------------------------------------
(* Each routine against the steps its comment names: the block it puts at    *)
(* <<x, y>> is the block the steps leave there.                              *)

(* do_flip_h, do_flip_v, do_rot_180: the picture stays upright. *)
LEMMA UprightComposed ==
  ASSUME NEW X \in Nat, NEW Y \in Nat, NEW S \in [Grid(X, Y) -> Blocks],
         NEW w \in 0..X, NEW h \in 0..Y, NEW x \in 0 .. X - 1, NEW y \in 0 .. Y - 1,
         NEW op \in {"none", "hflip", "vflip", "rot180"}
  PROVE  Moved(op, S, x, y, w, h) = Composed(op, S, w, h)[<<x, y>>]
<1>1. CASE op = "none"
  BY <1>1 DEF Moved, Composed
<1>2. CASE op = "hflip"
  BY <1>2, FlipHFacts DEF Moved, Composed
<1>3. CASE op = "vflip"
  BY <1>3, FlipVFacts DEF Moved, Composed
<1>4. CASE op = "rot180"
  <2>. DEFINE F == FlipV(S, h)
  <2>1. /\ F \in [Grid(X, Y) -> Blocks]
        /\ \A a \in 0 .. X - 1 :
             F[<<a, y>>] = IF y < h THEN MirrorV(S[<<a, h - 1 - y>>]) ELSE S[<<a, y>>]
    BY FlipVFacts
  <2>. HIDE DEF F
  <2>2. FlipH(F, w)[<<x, y>>] = IF x < w THEN MirrorH(F[<<w - 1 - x, y>>]) ELSE F[<<x, y>>]
    BY <2>1, FlipHFacts
  <2>3. Composed(op, S, w, h) = FlipH(F, w)
    BY <1>4 DEF Composed, F
  <2>4. Moved(op, S, x, y, w, h) =
          IF y < h THEN IF x < w THEN MirrorH(MirrorV(S[<<w - 1 - x, h - 1 - y>>]))
                                 ELSE MirrorV(S[<<x, h - 1 - y>>])
          ELSE IF x < w THEN MirrorH(S[<<w - 1 - x, y>>]) ELSE S[<<x, y>>]
    BY <1>4 DEF Moved
  <2>5. x < w => w - 1 - x \in 0 .. X - 1
    OBVIOUS
  <2>. QED  BY <2>1, <2>2, <2>3, <2>4, <2>5
<1>. QED  BY <1>1, <1>2, <1>3, <1>4

(* do_transpose, do_rot_90, do_rot_270, do_transverse: an output of X        *)
(* columns and Y rows from a source of Y columns and X rows.                 *)
LEMMA TurnedComposed ==
  ASSUME NEW X \in Nat, NEW Y \in Nat, NEW S \in [Grid(Y, X) -> Blocks],
         NEW w \in 0..X, NEW h \in 0..Y, NEW x \in 0 .. X - 1, NEW y \in 0 .. Y - 1,
         NEW op \in {"transpose", "rot90", "rot270", "transverse"}
  PROVE  Moved(op, S, x, y, w, h) = Composed(op, S, h, w)[<<x, y>>]
<1>0. \A a \in 0 .. Y - 1, b \in 0 .. X - 1 : S[<<a, b>>] \in Blocks
  BY GridFacts
<1>1. CASE op = "transpose"
  <2>1. Turn(S)[<<x, y>>] = Transposed(S[<<y, x>>])
    BY TurnFacts
  <2>. QED  BY <1>1, <2>1 DEF Moved, Composed
<1>2. CASE op = "rot90"
  <2>. DEFINE T == Turn(S)
  <2>1. /\ T \in [Grid(X, Y) -> Blocks]
        /\ \A a \in 0 .. X - 1 : T[<<a, y>>] = Transposed(S[<<y, a>>])
    BY TurnFacts
  <2>. HIDE DEF T
  <2>2. FlipH(T, w)[<<x, y>>] = IF x < w THEN MirrorH(T[<<w - 1 - x, y>>]) ELSE T[<<x, y>>]
    BY <2>1, FlipHFacts
  <2>3. Composed(op, S, h, w) = FlipH(T, w)
    BY <1>2 DEF Composed, T
  <2>4. Moved(op, S, x, y, w, h) =
          IF x < w THEN MirrorH(Transposed(S[<<y, w - 1 - x>>])) ELSE Transposed(S[<<y, x>>])
    BY <1>2 DEF Moved
  <2>5. x < w => w - 1 - x \in 0 .. X - 1
    OBVIOUS
  <2>. QED  BY <2>1, <2>2, <2>3, <2>4, <2>5
<1>3. CASE op = "rot270"
  <2>. DEFINE H == FlipH(S, h)
  <2>1. /\ H \in [Grid(Y, X) -> Blocks]
        /\ H[<<y, x>>] = IF y < h THEN MirrorH(S[<<h - 1 - y, x>>]) ELSE S[<<y, x>>]
    BY FlipHFacts
  <2>. HIDE DEF H
  <2>2. Turn(H)[<<x, y>>] = Transposed(H[<<y, x>>])
    BY <2>1, TurnFacts
  <2>3. Composed(op, S, h, w) = Turn(H)
    BY <1>3 DEF Composed, H
  <2>4. Moved(op, S, x, y, w, h) =
          IF y < h THEN MirrorV(Transposed(S[<<h - 1 - y, x>>])) ELSE Transposed(S[<<y, x>>])
    BY <1>3 DEF Moved
  <2>5. y < h => h - 1 - y \in 0 .. Y - 1
    OBVIOUS
  <2>6. y < h => Transposed(MirrorH(S[<<h - 1 - y, x>>])) = MirrorV(Transposed(S[<<h - 1 - y, x>>]))
    BY <1>0, <2>5, BlockFacts
  <2>. QED  BY <2>1, <2>2, <2>3, <2>4, <2>6
<1>4. CASE op = "transverse"
  <2>. DEFINE F == FlipV(S, w)
              H == FlipH(F, h)
  <2>1. /\ F \in [Grid(Y, X) -> Blocks]
        /\ \A a \in 0 .. Y - 1 :
             F[<<a, x>>] = IF x < w THEN MirrorV(S[<<a, w - 1 - x>>]) ELSE S[<<a, x>>]
    BY FlipVFacts
  <2>. HIDE DEF F
  <2>2. /\ H \in [Grid(Y, X) -> Blocks]
        /\ H[<<y, x>>] = IF y < h THEN MirrorH(F[<<h - 1 - y, x>>]) ELSE F[<<y, x>>]
    BY <2>1, FlipHFacts
  <2>. HIDE DEF H
  <2>3. Turn(H)[<<x, y>>] = Transposed(H[<<y, x>>])
    BY <2>2, TurnFacts
  <2>4. Composed(op, S, h, w) = Turn(H)
    BY <1>4 DEF Composed, H, F
  <2>5. Moved(op, S, x, y, w, h) =
          IF y < h THEN IF x < w THEN MirrorH(MirrorV(Transposed(S[<<h - 1 - y, w - 1 - x>>])))
                                 ELSE MirrorV(Transposed(S[<<h - 1 - y, x>>]))
          ELSE IF x < w THEN MirrorH(Transposed(S[<<y, w - 1 - x>>])) ELSE Transposed(S[<<y, x>>])
    BY <1>4 DEF Moved
  <2>6. /\ y < h => h - 1 - y \in 0 .. Y - 1
        /\ x < w => w - 1 - x \in 0 .. X - 1
    OBVIOUS
  <2>7. ASSUME NEW b \in Blocks
        PROVE  /\ Transposed(MirrorH(MirrorV(b))) = MirrorH(MirrorV(Transposed(b)))
               /\ Transposed(MirrorH(b)) = MirrorV(Transposed(b))
               /\ Transposed(MirrorV(b)) = MirrorH(Transposed(b))
    BY BlockFacts
  <2>8. CASE y < h /\ x < w
    <3>1. S[<<h - 1 - y, w - 1 - x>>] \in Blocks
      BY <1>0, <2>6, <2>8
    <3>. QED  BY <2>1, <2>2, <2>3, <2>4, <2>5, <2>6, <2>7, <2>8, <3>1
  <2>9. CASE y < h /\ ~(x < w)
    <3>1. S[<<h - 1 - y, x>>] \in Blocks
      BY <1>0, <2>6, <2>9
    <3>. QED  BY <2>1, <2>2, <2>3, <2>4, <2>5, <2>6, <2>7, <2>9, <3>1
  <2>10. CASE ~(y < h) /\ x < w
    <3>1. S[<<y, w - 1 - x>>] \in Blocks
      BY <1>0, <2>6, <2>10
    <3>. QED  BY <2>1, <2>2, <2>3, <2>4, <2>5, <2>6, <2>7, <2>10, <3>1
  <2>11. CASE ~(y < h) /\ ~(x < w)
    BY <2>1, <2>2, <2>3, <2>4, <2>5, <2>11
  <2>. QED  BY <2>8, <2>9, <2>10, <2>11
<1>. QED  BY <1>1, <1>2, <1>3, <1>4

(* Before any output was written the arrays are what was read. *)
LEMMA ArraysTyped ==
  ASSUME source \in Sources, NEW c \in 1..Len(source.comps)
  PROVE  /\ Across(c) \in Nat /\ Down(c) \in Nat
         /\ Arrays(source)[c] \in [Grid(Across(c), Down(c)) -> Blocks]
         /\ \A p \in Grid(Across(c), Down(c)) : Arrays(source)[c][p] = Block(p[1], p[2])
<1>1. /\ DctSize \in Nat \ {0}
      /\ source.w \in Nat /\ source.h \in Nat
      /\ MaxHs(source.comps) \in Nat \ {0} /\ MaxVs(source.comps) \in Nat \ {0}
      /\ source.comps[c].hs \in Nat /\ source.comps[c].vs \in Nat
  BY TransformAssumption, SourceTyped DEF Factors
<1>2. /\ MaxHs(source.comps) * DctSize \in Nat \ {0}
      /\ MaxVs(source.comps) * DctSize \in Nat \ {0}
  BY <1>1, Positive
<1>3. /\ Up(source.w, MaxHs(source.comps) * DctSize) \in Nat
      /\ Up(source.h, MaxVs(source.comps) * DctSize) \in Nat
  BY <1>1, <1>2, UpFacts
<1>4. Across(c) \in Nat /\ Down(c) \in Nat
  BY <1>1, <1>3, Product DEF Across, Down
<1>5. Arrays(source)[c] = [p \in Grid(Across(c), Down(c)) |-> Block(p[1], p[2])]
  BY DEF Arrays, Across, Down, Grid
<1>6. ASSUME NEW p \in Grid(Across(c), Down(c)) PROVE Block(p[1], p[2]) \in Blocks
  BY <1>4, GridFacts DEF Block, Blocks
<1>. QED  BY <1>4, <1>5, <1>6

-----------------------------------------------------------------------------
(* What Executed makes of the picture as it was read. *)
FromSource(t) ==
  [c \in 1..Len(OutputComps(t)) |->
     [p \in OutputBlocks(t, c) |->
        Moved(t.op, Arrays(source)[c], p[1] + XCrop(t, c), p[2] + YCrop(t, c),
              CompWidth(t, c), CompHeight(t, c))]]

Output(t) == [size |-> OutputSize(t), comps |-> FromSource(t)]

(***************************************************************************)
(* The outputs written so far were made from the picture as it was read,    *)
(* and as long as one is still to be written the arrays hold that picture:  *)
(* a flip in place is the only output of its call.                          *)
(***************************************************************************)
TransformInv ==
  /\ source \in Sources
  /\ asked = <<>> \/ asked \in Requests
  /\ \A k \in 1..Len(asked) : Acceptable(asked[k])
  /\ \E n \in 0..Len(asked) : outs = [k \in 1..n |-> Output(asked[k])]
  /\ asked = <<>> \/ Len(outs) < Len(asked) => coefs = Arrays(source)

(* A request is a sequence of transforms. *)
LEMMA AskedTyped == \A ts : ts = <<>> \/ ts \in Requests => ts \in Seq(Transforms)
<1>1. \A ts \in Requests : ts \in Seq(Transforms)
  BY TransformAssumption, Zenon DEF Transforms, Rectangles
<1>2. <<>> \in Seq(Transforms)
  OBVIOUS
<1>. QED  BY <1>1, <1>2

(* No step touches the picture that was read, so what is made of it stays.  *)
LEMMA SourceKept ==
  ASSUME source' = source, NEW CONSTANT t
  PROVE  /\ Acceptable(t)' = Acceptable(t)
         /\ Output(t)' = Output(t)
         /\ Arrays(source)' = Arrays(source)
<1>1. Single(t)' = Single(t)
  BY DEF Single
<1>2. FullWidth(t)' = FullWidth(t) /\ FullHeight(t)' = FullHeight(t)
  BY DEF FullWidth, FullHeight
<1>3. McuWidth(t)' = McuWidth(t) /\ McuHeight(t)' = McuHeight(t)
  BY <1>1 DEF McuWidth, McuHeight
<1>4. CropWidth(t)' = CropWidth(t) /\ CropHeight(t)' = CropHeight(t)
  BY <1>2 DEF CropWidth, CropHeight
<1>5. Perfect(t)' = Perfect(t)
  BY <1>1 DEF Perfect
<1>6. Acceptable(t)' = Acceptable(t)
  BY <1>2, <1>3, <1>4, <1>5 DEF Acceptable
<1>7. Offset(t)' = Offset(t)
  BY <1>3 DEF Offset
<1>8. OutputSize(t)' = OutputSize(t)
  BY <1>2, <1>3, <1>4, <1>7 DEF OutputSize
<1>9. OutputComps(t)' = OutputComps(t)
  BY <1>1 DEF OutputComps
<1>10. \A c : /\ OutputBlocks(t, c)' = OutputBlocks(t, c)
             /\ XCrop(t, c)' = XCrop(t, c) /\ YCrop(t, c)' = YCrop(t, c)
             /\ CompWidth(t, c)' = CompWidth(t, c) /\ CompHeight(t, c)' = CompHeight(t, c)
  BY <1>2, <1>7, <1>8, <1>9 DEF OutputBlocks, XCrop, YCrop, CompWidth, CompHeight
<1>11. Arrays(source)' = Arrays(source)
  BY DEF Arrays
<1>12. FromSource(t)' = FromSource(t)
  BY <1>9, <1>10, <1>11 DEF FromSource
<1>. QED  BY <1>6, <1>8, <1>11, <1>12 DEF Output

(* A flip in place leaves, in the blocks that are kept, what a flip into     *)
(* arrays of its own makes (do_flip_h_no_crop, do_flip_h).                   *)
LEMMA WrittenFromSource ==
  ASSUME source \in Sources, NEW t \in Transforms, Acceptable(t), coefs = Arrays(source)
  PROVE  Written(t) = FromSource(t)
<1>1. Executed(t) = FromSource(t)
  BY DEF Executed, FromSource
<1>2. CASE InPlace(t)
  <2>1. t.op = "hflip" /\ Offset(t)[2] = 0 /\ ~Transposes(t)
    BY <1>2 DEF InPlace, Transposes
  <2>2. ASSUME NEW c \in 1..Len(OutputComps(t)), NEW p \in OutputBlocks(t, c)
        PROVE  FlippedInPlace(t)[c][p] = FromSource(t)[c][p]
    <3>1. c \in 1..Len(source.comps) /\ Len(coefs) = Len(source.comps)
      BY OutputTyped, SourceTyped DEF Arrays
    <3>2. YCrop(t, c) = 0
      <4>1. OutputComps(t)[c].vs \in Nat
        BY OutputTyped DEF Factors
      <4>. QED  BY <2>1, <4>1 DEF YCrop
    <3>3. /\ p[1] \in Nat /\ p[2] \in Nat /\ XCrop(t, c) \in Nat
          /\ p[1] + XCrop(t, c) \in 0 .. Across(c) - 1
          /\ p[2] + YCrop(t, c) \in 0 .. Down(c) - 1
      BY <2>1, OutputFits DEF Columns, Lines
    <3>4. Across(c) \in Nat /\ Down(c) \in Nat /\ DOMAIN coefs[c] = Grid(Across(c), Down(c))
      BY <3>1, ArraysTyped
    <3>5. p = <<p[1], p[2]>> /\ p[1] \in 0 .. Across(c) - 1 /\ p[2] \in 0 .. Down(c) - 1
      <4>1. p = <<p[1], p[2]>>
        BY DEF OutputBlocks
      <4>. QED  BY <3>2, <3>3, <3>4, <4>1
    <3>6. p \in DOMAIN coefs[c]
      BY <3>4, <3>5, GridFacts
    <3>7. FlippedInPlace(t)[c][p] =
            Moved("hflip", coefs[c], p[1] + XCrop(t, c), p[2], CompWidth(t, c), 0)
      BY <3>1, <3>6 DEF FlippedInPlace
    <3>8. FromSource(t)[c][p] =
            Moved("hflip", coefs[c], p[1] + XCrop(t, c), p[2], CompWidth(t, c), CompHeight(t, c))
      BY <2>1, <3>2, <3>3 DEF FromSource
    <3>. QED  BY <3>7, <3>8 DEF Moved
  <2>3. Written(t) = [c \in 1..Len(OutputComps(t)) |->
                        [p \in OutputBlocks(t, c) |-> FromSource(t)[c][p]]]
    BY <1>2, <2>2 DEF Written
  <2>. QED  BY <2>3 DEF FromSource
<1>. QED  BY <1>1, <1>2 DEF Written

(* A call begins with nothing written; each output is made from the picture  *)
(* as it was read.                                                           *)
LEMMA TransformStep == TransformInv /\ [TransformNext]_xvars => TransformInv'
<1>. SUFFICES ASSUME TransformInv, [TransformNext]_xvars PROVE TransformInv'
  OBVIOUS
<1>1. source' = source
  BY DEF TransformNext, Ask, Execute, xvars
<1>2. PICK n \in 0..Len(asked) : outs = [k \in 1..n |-> Output(asked[k])]
  BY DEF TransformInv
<1>3. asked \in Seq(Transforms) /\ Len(asked) \in Nat /\ Len(outs) = n
  <2>1. asked \in Seq(Transforms)
    BY AskedTyped DEF TransformInv
  <2>. QED  BY <1>2, <2>1
<1>4. CASE Ask
  <2>1. asked = <<>> /\ n = 0 /\ coefs = Arrays(source) /\ outs = <<>>
    BY <1>2, <1>3, <1>4 DEF Ask, TransformInv
  <2>2. /\ asked' \in Requests /\ coefs' = coefs /\ outs' = outs
        /\ \A k \in 1..Len(asked') : Acceptable(asked'[k])
    BY <1>4 DEF Ask
  <2>3. asked' \in Seq(Transforms) /\ Len(asked') \in Nat
    BY <2>2, AskedTyped
  <2>4. \A k \in 1..Len(asked') : Acceptable(asked[k])'
    BY <1>1, <2>2, SourceKept
  <2>5. outs' = [k \in 1..0 |-> Output(asked[k])']
    BY <2>1, <2>2
  <2>6. coefs' = Arrays(source)'
    BY <1>1, <2>1, <2>2, SourceKept
  <2>. QED  BY <1>1, <2>2, <2>3, <2>4, <2>5, <2>6 DEF TransformInv
<1>5. CASE Execute
  <2>. DEFINE t == asked[n + 1]
  <2>1. /\ n < Len(asked) /\ n + 1 \in 1..Len(asked)
        /\ asked' = asked /\ outs' = Append(outs, [size |-> OutputSize(t), comps |-> Written(t)])
        /\ coefs' = IF InPlace(t) THEN FlippedInPlace(t) ELSE coefs
    BY <1>3, <1>5 DEF Execute
  <2>2. t \in Transforms /\ Acceptable(t) /\ coefs = Arrays(source)
    BY <1>3, <2>1 DEF TransformInv
  <2>3. [size |-> OutputSize(t), comps |-> Written(t)] = Output(t)
    BY <2>2, WrittenFromSource DEF TransformInv, Output
  <2>4. outs' = [k \in 1 .. n + 1 |-> Output(asked[k])]
    <3>. HIDE DEF t
    <3>1. outs' = Append(outs, Output(t))
      BY <2>1, <2>3
    <3>. QED  BY <1>2, <3>1 DEF t
  <2>5. \A k \in 1..Len(asked') : Acceptable(asked[k])'
    BY <1>1, <2>1, SourceKept DEF TransformInv
  <2>6. outs' = [k \in 1 .. n + 1 |-> Output(asked[k])']
    BY <1>1, <2>1, <2>4, SourceKept
  <2>7. Len(outs') = n + 1
    BY <2>4
  <2>8. Len(outs') < Len(asked') => coefs' = Arrays(source)'
    <3>1. Len(outs') < Len(asked') => ~InPlace(t)
      BY <1>3, <2>1, <2>7 DEF InPlace
    <3>. QED  BY <1>1, <2>1, <2>2, <3>1, SourceKept
  <2>9. asked' # <<>>
    BY <2>1
  <2>10. \E m \in 0..Len(asked') : outs' = [k \in 1..m |-> Output(asked[k])']
    <3>1. n + 1 \in 0..Len(asked')
      BY <1>3, <2>1
    <3>. QED  BY <2>6, <3>1
  <2>11. source' \in Sources /\ (asked' = <<>> \/ asked' \in Requests)
    BY <1>1, <2>1 DEF TransformInv
  <2>. QED  BY <2>5, <2>8, <2>9, <2>10, <2>11 DEF TransformInv
<1>6. CASE UNCHANGED xvars
  BY <1>1, <1>6, SourceKept DEF TransformInv, xvars
<1>. QED  BY <1>4, <1>5, <1>6 DEF TransformNext

(* The invariant holds from the first state on. *)
LEMMA TransformInvariant == TransformSpec => []TransformInv
<1>1. TransformInit => TransformInv
  BY DEF TransformInit, TransformInv
<1>. QED  BY <1>1, TransformStep, PTL DEF TransformSpec

-----------------------------------------------------------------------------
(* One block of an output, against the elementary steps. *)
LEMMA BlockComposed ==
  ASSUME source \in Sources, NEW t \in Transforms, Acceptable(t),
         NEW c \in 1..Len(OutputComps(t)), NEW p \in OutputBlocks(t, c)
  PROVE  FromSource(t)[c][p] =
           Composed(t.op, Arrays(source)[c],
                    IF Transposes(t) THEN CompHeight(t, c) ELSE CompWidth(t, c),
                    IF Transposes(t) THEN CompWidth(t, c) ELSE CompHeight(t, c))
             [<<p[1] + XCrop(t, c), p[2] + YCrop(t, c)>>]
<1>. DEFINE S == Arrays(source)[c]
            x == p[1] + XCrop(t, c)
            y == p[2] + YCrop(t, c)
            w == CompWidth(t, c)
            h == CompHeight(t, c)
<1>1. FromSource(t)[c][p] = Moved(t.op, S, x, y, w, h)
  BY DEF FromSource
<1>2. c \in 1..Len(source.comps)
  BY OutputTyped
<1>3. Across(c) \in Nat /\ Down(c) \in Nat /\ S \in [Grid(Across(c), Down(c)) -> Blocks]
  BY <1>2, ArraysTyped
<1>4. /\ w \in 0..Columns(t, c) /\ h \in 0..Lines(t, c)
      /\ x \in 0 .. Columns(t, c) - 1 /\ y \in 0 .. Lines(t, c) - 1
  BY OutputFits
<1>. HIDE DEF S, x, y, w, h
<1>5. CASE Transposes(t)
  <2>1. t.op \in {"transpose", "rot90", "rot270", "transverse"}
    BY <1>5 DEF Transposes
  <2>2. Columns(t, c) = Down(c) /\ Lines(t, c) = Across(c)
    BY <1>5 DEF Columns, Lines
  <2>3. Moved(t.op, S, x, y, w, h) = Composed(t.op, S, h, w)[<<x, y>>]
    <3>. DEFINE X == Columns(t, c)
                Y == Lines(t, c)
    <3>1. /\ X \in Nat /\ Y \in Nat /\ S \in [Grid(Y, X) -> Blocks]
          /\ w \in 0..X /\ h \in 0..Y /\ x \in 0 .. X - 1 /\ y \in 0 .. Y - 1
      BY <1>3, <1>4, <2>2
    <3>. HIDE DEF X, Y
    <3>. QED  BY <2>1, <3>1, TurnedComposed
  <2>. QED  BY <1>1, <1>5, <2>3 DEF S, x, y, w, h
<1>6. CASE ~Transposes(t)
  <2>1. t.op \in {"none", "hflip", "vflip", "rot180"}
    BY <1>6 DEF Transposes, Transforms, TransformOps
  <2>2. Columns(t, c) = Across(c) /\ Lines(t, c) = Down(c)
    BY <1>6 DEF Columns, Lines
  <2>3. Moved(t.op, S, x, y, w, h) = Composed(t.op, S, w, h)[<<x, y>>]
    <3>. DEFINE X == Columns(t, c)
                Y == Lines(t, c)
    <3>1. /\ X \in Nat /\ Y \in Nat /\ S \in [Grid(X, Y) -> Blocks]
          /\ w \in 0..X /\ h \in 0..Y /\ x \in 0 .. X - 1 /\ y \in 0 .. Y - 1
      BY <1>3, <1>4, <2>2
    <3>. HIDE DEF X, Y
    <3>. QED  BY <2>1, <3>1, UprightComposed
  <2>. QED  BY <1>1, <1>6, <2>3 DEF S, x, y, w, h
<1>. QED  BY <1>5, <1>6

(* What the invariant says of one output of the call. *)
LEMMA WrittenOutput ==
  ASSUME TransformInv, NEW k \in 1..Len(outs)
  PROVE  /\ source \in Sources
         /\ asked[k] \in Transforms /\ Acceptable(asked[k])
         /\ outs[k].comps = FromSource(asked[k])
         /\ DOMAIN FromSource(asked[k]) = 1..Len(outs[k].comps)
         /\ \A c \in 1..Len(outs[k].comps) :
              /\ c \in 1..Len(OutputComps(asked[k]))
              /\ DOMAIN outs[k].comps[c] = OutputBlocks(asked[k], c)
<1>1. PICK n \in 0..Len(asked) : outs = [i \in 1..n |-> Output(asked[i])]
  BY DEF TransformInv
<1>2. asked \in Seq(Transforms) /\ Len(asked) \in Nat
  BY AskedTyped DEF TransformInv
<1>3. n \in Nat /\ Len(outs) = n
  BY <1>1, <1>2
<1>4. k \in 1..Len(asked) /\ outs[k] = Output(asked[k])
  BY <1>1, <1>2, <1>3
<1>5. asked[k] \in Transforms /\ Acceptable(asked[k])
  BY <1>2, <1>4 DEF TransformInv
<1>6. outs[k].comps = FromSource(asked[k])
  BY <1>4 DEF Output
<1>7. OutputComps(asked[k]) \in Seq(Factors)
  <2>1. /\ Len(source.comps) \in Nat
        /\ \A c \in 1..Len(source.comps) : source.comps[c] \in Factors
    BY SourceTyped DEF TransformInv
  <2>2. CASE Single(asked[k])
    BY <2>2 DEF OutputComps, Factors
  <2>3. CASE ~Single(asked[k])
    <3>1. \A c \in 1..Len(source.comps) :
            (IF Transposes(asked[k]) THEN [hs |-> source.comps[c].vs, vs |-> source.comps[c].hs]
             ELSE source.comps[c]) \in Factors
      BY <2>1 DEF Factors
    <3>. QED  BY <2>1, <2>3, <3>1 DEF OutputComps
  <2>. QED  BY <2>2, <2>3
<1>8. DOMAIN FromSource(asked[k]) = 1..Len(OutputComps(asked[k]))
  BY DEF FromSource
<1>9. Len(FromSource(asked[k])) = Len(OutputComps(asked[k]))
  BY <1>7 DEF FromSource
<1>10. ASSUME NEW c \in 1..Len(OutputComps(asked[k]))
       PROVE  DOMAIN FromSource(asked[k])[c] = OutputBlocks(asked[k], c)
  BY DEF FromSource
<1>. QED  BY <1>5, <1>6, <1>8, <1>9, <1>10 DEF TransformInv

(* Whatever outputs a call asks for, in whatever order, each is the window   *)
(* of its crop on the source as it was read, flipped and turned one          *)
(* elementary step after the other: the index arithmetic of the do_          *)
(* routines is right, and no output spoils the arrays for the next one.      *)
THEOREM TransformsCompose == TransformSpec => []OutputsAreComposed
<1>1. TransformInv => OutputsAreComposed
  <2>. SUFFICES ASSUME TransformInv PROVE OutputsAreComposed
    OBVIOUS
  <2>1. ASSUME NEW k \in 1..Len(outs), NEW c \in 1..Len(outs[k].comps),
               NEW p \in DOMAIN outs[k].comps[c]
        PROVE  outs[k].comps[c][p] =
                 Composed(asked[k].op, Arrays(source)[c],
                    IF Transposes(asked[k]) THEN CompHeight(asked[k], c) ELSE CompWidth(asked[k], c),
                    IF Transposes(asked[k]) THEN CompWidth(asked[k], c) ELSE CompHeight(asked[k], c))
                   [<<p[1] + XCrop(asked[k], c), p[2] + YCrop(asked[k], c)>>]
    BY WrittenOutput, BlockComposed
  <2>. QED  BY <2>1 DEF OutputsAreComposed
<1>. QED  BY <1>1, TransformInvariant, PTL

-----------------------------------------------------------------------------
(* An output that is perfect or trimmed has no block of a partial iMCU in a  *)
(* direction that is mirrored.                                               *)

(* Of a side that is trimmed, or has no partial iMCU, only full iMCUs stay. *)
LEMMA FullUnitsStay ==
  ASSUME NEW full \in Nat, NEW unit \in Nat \ {0}, NEW crop \in Nat, NEW size \in Nat,
         crop % unit = 0, crop + size <= full, crop \div unit < full \div unit,
         NEW out \in Nat, out <= size,
         full % unit = 0 \/ out = Trim(size, crop \div unit, full, unit)
  PROVE  crop + out <= (full \div unit) * unit
<1>. DEFINE F == full \div unit
            q == crop \div unit
            n == size \div unit
            rest == size % unit
<1>1. F \in Nat /\ F * unit <= full /\ full < F * unit + unit
  BY Quotient
<1>2. q \in Nat /\ q * unit = crop
  BY Quotient, Exact
<1>3. /\ n \in Nat /\ n * unit <= size /\ size < n * unit + unit
      /\ rest \in Nat /\ rest = size - n * unit
  BY Quotient
<1>4. q < F
  OBVIOUS
<1>5. full % unit = 0 => F * unit = full
  BY Exact
<1>6. Trim(size, q, full, unit) = IF n > 0 /\ q + n = F THEN size - rest ELSE size
  BY DEF Trim
<1>7. full % unit = 0 \/ out = Trim(size, q, full, unit)
  OBVIOUS
<1>. HIDE DEF F, q, n, rest
<1>8. F * unit \in Nat /\ n * unit \in Nat
  BY <1>1, <1>3, Product
<1>9. CASE full % unit = 0
  BY <1>5, <1>8, <1>9
<1>10. CASE out = Trim(size, q, full, unit) /\ n > 0 /\ q + n = F
  <2>1. F * unit = q * unit + n * unit
    BY <1>2, <1>3, <1>10, Distribute
  <2>2. out = n * unit
    BY <1>3, <1>6, <1>8, <1>10
  <2>3. crop + out = F * unit
    BY <1>2, <2>1, <2>2
  <2>. QED  BY <1>8, <2>3 DEF F
<1>11. CASE n = 0
  <2>1. (q + 1) * unit <= F * unit
    BY <1>1, <1>2, <1>4, Monotone
  <2>2. (q + 1) * unit = q * unit + unit
    BY <1>2, Distribute
  <2>3. size < unit
    BY <1>3, <1>8, <1>11
  <2>. QED  BY <1>2, <1>8, <2>1, <2>2, <2>3
<1>12. CASE n > 0 /\ q + n # F
  <2>1. (q + n) * unit = q * unit + n * unit /\ (F + 1) * unit = F * unit + unit
    BY <1>1, <1>2, <1>3, Distribute
  <2>2. (q + n) * unit < (F + 1) * unit
    BY <1>1, <1>2, <1>3, <1>8, <2>1
  <2>3. q + n < F + 1
    BY <1>1, <1>2, <1>3, <2>2, CancelFactor
  <2>4. (q + n + 1) * unit <= F * unit
    BY <1>1, <1>2, <1>3, <1>12, <2>3, Monotone
  <2>5. (q + n + 1) * unit = (q + n) * unit + unit
    BY <1>2, <1>3, Distribute
  <2>6. crop + size <= F * unit
    BY <1>2, <1>3, <1>8, <2>1, <2>4, <2>5
  <2>. QED  BY <1>8, <2>6 DEF F
<1>. QED  BY <1>3, <1>6, <1>7, <1>9, <1>10, <1>11, <1>12

(* So its blocks are those of the full iMCUs. *)
LEMMA FullBlocksStay ==
  ASSUME NEW full \in Nat, NEW unit \in Nat \ {0}, NEW k \in Nat \ {0},
         NEW crop \in Nat, NEW out \in Nat,
         crop % unit = 0, crop + out <= (full \div unit) * unit
  PROVE  (crop \div unit) * k + Up(out * k, unit) <= (full \div unit) * k
<1>. DEFINE F == full \div unit
            U == Up(F * unit, unit)
<1>1. F \in Nat /\ F * unit \in Nat
  BY Quotient, Product
<1>. HIDE DEF F
<1>2. U \in Nat /\ U <= F
  BY <1>1, UpFacts
<1>3. /\ crop \div unit \in Nat /\ Up(out * k, unit) \in Nat
      /\ (crop \div unit) * k + Up(out * k, unit) <= U * k
  BY <1>1, WindowFits DEF F
<1>. HIDE DEF U
<1>4. U * k <= F * k /\ U * k \in Nat /\ F * k \in Nat /\ (crop \div unit) * k \in Nat
  BY <1>1, <1>2, <1>3, Product, Monotone
<1>5. (crop \div unit) * k + Up(out * k, unit) <= F * k
  BY <1>3, <1>4
<1>. QED  BY <1>5 DEF F

(* jtransform_perfect_transform looks at the sides that will be mirrored. *)
LEMMA PerfectSides ==
  ASSUME source \in Sources, NEW t \in Transforms, Perfect(t)
  PROVE  /\ MirrorsAcross(t) => FullWidth(t) % McuWidth(t) = 0
         /\ MirrorsDown(t) => FullHeight(t) % McuHeight(t) = 0
<1>. DEFINE K == IF Single(t) THEN 1 ELSE MaxHs(source.comps)
            N == IF Single(t) THEN 1 ELSE MaxVs(source.comps)
<1>1. DctSize \in Nat /\ K \in Nat /\ N \in Nat
  BY TransformAssumption, SourceTyped
<1>2. /\ McuWidth(t) = DctSize * (IF Transposes(t) THEN N ELSE K)
      /\ McuHeight(t) = DctSize * (IF Transposes(t) THEN K ELSE N)
  BY DEF McuWidth, McuHeight
<1>3. /\ t.op \in {"hflip", "rot270", "transverse", "rot180"} => source.w % (K * DctSize) = 0
      /\ t.op \in {"vflip", "rot90", "transverse", "rot180"} => source.h % (N * DctSize) = 0
  BY DEF Perfect
<1>. HIDE DEF K, N
<1>4. K * DctSize = DctSize * K /\ N * DctSize = DctSize * N
  BY <1>1
<1>5. CASE Transposes(t)
  <2>1. t.op \in {"transpose", "transverse", "rot90", "rot270"}
    BY <1>5 DEF Transposes
  <2>. QED  BY <1>2, <1>3, <1>4, <1>5, <2>1 DEF MirrorsAcross, MirrorsDown, FullWidth, FullHeight
<1>6. CASE ~Transposes(t)
  <2>1. t.op \notin {"transpose", "transverse", "rot90", "rot270"}
    BY <1>6 DEF Transposes
  <2>. QED  BY <1>2, <1>3, <1>4, <1>6, <2>1 DEF MirrorsAcross, MirrorsDown, FullWidth, FullHeight
<1>. QED  BY <1>5, <1>6

(* Every block of such an output is one that its routine mirrors. *)
LEMMA AllMirrored ==
  ASSUME source \in Sources, NEW t \in Transforms, Acceptable(t), t.perfect \/ t.trim,
         NEW c \in 1..Len(OutputComps(t)), NEW p \in OutputBlocks(t, c)
  PROVE  /\ MirrorsAcross(t) /\ XCrop(t, c) < CompWidth(t, c) =>
              p[1] + XCrop(t, c) < CompWidth(t, c)
         /\ MirrorsDown(t) /\ YCrop(t, c) < CompHeight(t, c) =>
              p[2] + YCrop(t, c) < CompHeight(t, c)
<1>. DEFINE hs == OutputComps(t)[c].hs
            vs == OutputComps(t)[c].vs
            across == Up(OutputSize(t)[1] * hs, McuWidth(t))
            down == Up(OutputSize(t)[2] * vs, McuHeight(t))
            qx == t.crop.x \div McuWidth(t)
            qy == t.crop.y \div McuHeight(t)
<1>1. /\ hs \in Nat \ {0} /\ vs \in Nat \ {0}
      /\ McuWidth(t) \in Nat \ {0} /\ McuHeight(t) \in Nat \ {0}
      /\ MaxHs(OutputComps(t)) * DctSize = McuWidth(t)
      /\ MaxVs(OutputComps(t)) * DctSize = McuHeight(t)
  BY OutputTyped DEF Factors
<1>2. /\ t.crop.x \in Nat /\ t.crop.y \in Nat
      /\ FullWidth(t) \in Nat /\ FullHeight(t) \in Nat
      /\ CropWidth(t) \in Nat /\ CropHeight(t) \in Nat
      /\ t.crop.x + CropWidth(t) <= FullWidth(t)
      /\ t.crop.y + CropHeight(t) <= FullHeight(t)
      /\ t.crop.x % McuWidth(t) = 0 /\ t.crop.y % McuHeight(t) = 0
  BY WindowTyped
<1>3. /\ OutputSize(t)[1] \in Nat /\ OutputSize(t)[1] <= CropWidth(t)
      /\ OutputSize(t)[2] \in Nat /\ OutputSize(t)[2] <= CropHeight(t)
  BY <1>1, OutputWithinWindow
<1>4. /\ XCrop(t, c) = qx * hs /\ YCrop(t, c) = qy * vs
      /\ CompWidth(t, c) = (FullWidth(t) \div McuWidth(t)) * hs
      /\ CompHeight(t, c) = (FullHeight(t) \div McuHeight(t)) * vs
  BY <1>1 DEF XCrop, YCrop, Offset, CompWidth, CompHeight
<1>5. p[1] \in 0 .. across - 1 /\ p[2] \in 0 .. down - 1
  BY <1>1 DEF OutputBlocks
<1>6. across \in Nat /\ down \in Nat /\ qx \in Nat /\ qy \in Nat
  <2>1. OutputSize(t)[1] * hs \in Nat /\ OutputSize(t)[2] * vs \in Nat
    BY <1>1, <1>3, Product
  <2>2. across \in Nat /\ down \in Nat
    BY <1>1, <2>1, UpFacts
  <2>3. qx \in Nat /\ qy \in Nat
    BY <1>1, <1>2, Quotient
  <2>. QED  BY <2>2, <2>3
<1>7. /\ FullWidth(t) \div McuWidth(t) \in Nat /\ FullHeight(t) \div McuHeight(t) \in Nat
  BY <1>1, <1>2, Quotient
<1>8. /\ MirrorsAcross(t) => \/ FullWidth(t) % McuWidth(t) = 0
                             \/ OutputSize(t)[1] = Trim(CropWidth(t), qx, FullWidth(t), McuWidth(t))
      /\ MirrorsDown(t) => \/ FullHeight(t) % McuHeight(t) = 0
                           \/ OutputSize(t)[2] = Trim(CropHeight(t), qy, FullHeight(t), McuHeight(t))
  <2>1. t.perfect => Perfect(t)
    BY DEF Acceptable
  <2>2. CASE t.perfect
    BY <2>1, <2>2, PerfectSides
  <2>3. CASE t.trim
    BY <2>3 DEF OutputSize, TrimsRight, TrimsBottom, Offset
  <2>. QED  BY <2>2, <2>3
<1>. HIDE DEF hs, vs, across, down, qx, qy
<1>9. ASSUME MirrorsAcross(t), XCrop(t, c) < CompWidth(t, c)
      PROVE  p[1] + XCrop(t, c) < CompWidth(t, c)
  <2>1. qx < FullWidth(t) \div McuWidth(t)
    BY <1>1, <1>4, <1>6, <1>7, <1>9, CancelFactor
  <2>2. t.crop.x + OutputSize(t)[1] <= (FullWidth(t) \div McuWidth(t)) * McuWidth(t)
    BY <1>1, <1>2, <1>3, <1>8, <1>9, <2>1, FullUnitsStay DEF qx
  <2>3. qx * hs + across <= (FullWidth(t) \div McuWidth(t)) * hs
    BY <1>1, <1>2, <1>3, <2>2, FullBlocksStay DEF qx, across
  <2>4. qx * hs \in Nat /\ (FullWidth(t) \div McuWidth(t)) * hs \in Nat
    BY <1>1, <1>6, <1>7, Product
  <2>. QED  BY <1>4, <1>5, <1>6, <2>3, <2>4
<1>10. ASSUME MirrorsDown(t), YCrop(t, c) < CompHeight(t, c)
       PROVE  p[2] + YCrop(t, c) < CompHeight(t, c)
  <2>1. qy < FullHeight(t) \div McuHeight(t)
    BY <1>1, <1>4, <1>6, <1>7, <1>10, CancelFactor
  <2>2. t.crop.y + OutputSize(t)[2] <= (FullHeight(t) \div McuHeight(t)) * McuHeight(t)
    BY <1>1, <1>2, <1>3, <1>8, <1>10, <2>1, FullUnitsStay DEF qy
  <2>3. qy * vs + down <= (FullHeight(t) \div McuHeight(t)) * vs
    BY <1>1, <1>2, <1>3, <2>2, FullBlocksStay DEF qy, down
  <2>4. qy * vs \in Nat /\ (FullHeight(t) \div McuHeight(t)) * vs \in Nat
    BY <1>1, <1>6, <1>7, Product
  <2>. QED  BY <1>4, <1>5, <1>6, <2>3, <2>4
<1>. QED  BY <1>9, <1>10

-----------------------------------------------------------------------------
(* The samples of the blocks of an output. *)
TurnOps == {"transpose", "transverse", "rot90", "rot270"}
AcrossOps == {"hflip", "transverse", "rot90", "rot180"}
DownOps == {"vflip", "transverse", "rot270", "rot180"}

(* Where the block at x, or its sample, comes from along a side of n. *)
From(mirrored, x, n) == IF mirrored THEN n - 1 - x ELSE x

(* A block from place <<a, b>> with what became of it. *)
Marked(a, b, turned, across, down) ==
  [x |-> a, y |-> b, transposed |-> turned, h |-> across, v |-> down]

(* What the steps make of it; g is the other truth value. *)
LEMMA MarkedFacts ==
  ASSUME NEW a \in Nat, NEW b \in Nat,
         NEW t \in BOOLEAN, NEW h \in BOOLEAN, NEW v \in BOOLEAN, NEW g \in BOOLEAN
  PROVE  /\ g # h => MirrorH(Marked(a, b, t, h, v)) = Marked(a, b, t, g, v)
         /\ g # v => MirrorV(Marked(a, b, t, h, v)) = Marked(a, b, t, h, g)
         /\ g # t => Transposed(Marked(a, b, t, h, v)) = Marked(a, b, g, v, h)
<1>1. g # h => MirrorH(Marked(a, b, t, h, v)) = Marked(a, b, t, g, v)
  BY DEF Marked, MirrorH
<1>2. g # v => MirrorV(Marked(a, b, t, h, v)) = Marked(a, b, t, h, g)
  BY DEF Marked, MirrorV
<1>3. g # t => Transposed(Marked(a, b, t, h, v)) = Marked(a, b, g, v, h)
  <2>. SUFFICES ASSUME g # t PROVE Transposed(Marked(a, b, t, h, v)) = Marked(a, b, g, v, h)
    OBVIOUS
  <2>1. ASSUME NEW m \in Blocks
        PROVE  Transposed(m) = [x |-> m.x, y |-> m.y, transposed |-> ~m.transposed, h |-> m.v, v |-> m.h]
    <3>1. Transposed(m) \in Blocks
      BY BlockFacts
    <3>2. /\ Transposed(m).x = m.x /\ Transposed(m).y = m.y
          /\ Transposed(m).h = m.v /\ Transposed(m).v = m.h
      BY DEF Blocks, Transposed
    <3>3. Transposed(m).transposed = ~m.transposed
      BY DEF Blocks, Transposed
    <3>4. \A e \in Blocks :
            e = [x |-> e.x, y |-> e.y, transposed |-> e.transposed, h |-> e.h, v |-> e.v]
      BY DEF Blocks
    <3>. QED  BY <3>1, <3>2, <3>3, <3>4, Zenon
  <2>2. Marked(a, b, t, h, v) \in Blocks
    BY DEF Marked, Blocks
  <2>3. /\ Marked(a, b, t, h, v).x = a /\ Marked(a, b, t, h, v).y = b
        /\ Marked(a, b, t, h, v).transposed = t
        /\ Marked(a, b, t, h, v).h = h /\ Marked(a, b, t, h, v).v = v
    BY DEF Marked
  <2>4. Transposed(Marked(a, b, t, h, v)) = [x |-> a, y |-> b, transposed |-> ~t, h |-> v, v |-> h]
    BY <2>1, <2>2, <2>3
  <2>5. (~t) = g
    OBVIOUS
  <2>6. Marked(a, b, g, v, h) = [x |-> a, y |-> b, transposed |-> g, h |-> v, v |-> h]
    BY DEF Marked
  <2>. QED  BY <2>4, <2>5, <2>6, Zenon
<1>. QED  BY <1>1, <1>2, <1>3

(* The two sides of a transform, the block its routine finds at a place of   *)
(* the source as read, and the one it makes of it.                           *)
AcrossFrom(op, x, w) == From(op \in AcrossOps, x, w)
DownFrom(op, y, h) == From(op \in DownOps, y, h)
AsRead(op, S, a, b) ==
  /\ op \in TurnOps => S[<<b, a>>] = Block(b, a)
  /\ op \notin TurnOps => S[<<a, b>>] = Block(a, b)
Becomes(op, a, b) ==
  IF op \in TurnOps THEN Marked(b, a, TRUE, op \in AcrossOps, op \in DownOps)
  ELSE Marked(a, b, FALSE, op \in AcrossOps, op \in DownOps)

(* A block that its routine mirrors as a whole: its place in the source and  *)
(* what became of it.                                                        *)
LEMMA MovedBlock ==
  ASSUME NEW op \in TransformOps, NEW S, NEW x \in Nat, NEW y \in Nat, NEW w \in Nat, NEW h \in Nat,
         op \in AcrossOps => x < w, op \in DownOps => y < h,
         AcrossFrom(op, x, w) \in Nat, DownFrom(op, y, h) \in Nat,
         AsRead(op, S, AcrossFrom(op, x, w), DownFrom(op, y, h))
  PROVE  Moved(op, S, x, y, w, h) = Becomes(op, AcrossFrom(op, x, w), DownFrom(op, y, h))
<1>. DEFINE a == AcrossFrom(op, x, w)
            b == DownFrom(op, y, h)
<1>a. /\ a = From(op \in AcrossOps, x, w) /\ b = From(op \in DownOps, y, h)
      /\ a \in Nat /\ b \in Nat
      /\ op \in TurnOps => S[<<b, a>>] = Block(b, a)
      /\ op \notin TurnOps => S[<<a, b>>] = Block(a, b)
  BY DEF AcrossFrom, DownFrom, AsRead
<1>b. SUFFICES Moved(op, S, x, y, w, h) =
                 IF op \in TurnOps THEN Marked(b, a, TRUE, op \in AcrossOps, op \in DownOps)
                 ELSE Marked(a, b, FALSE, op \in AcrossOps, op \in DownOps)
  BY DEF Becomes
<1>. HIDE DEF a, b
<1>. USE <1>a
<1>0. /\ Block(a, b) = Marked(a, b, FALSE, FALSE, FALSE)
      /\ Transposed(Block(b, a)) = Marked(b, a, TRUE, FALSE, FALSE)
  <2>1. \A c, e : Block(c, e) = Marked(c, e, FALSE, FALSE, FALSE)
    BY DEF Block, Marked
  <2>2. Transposed(Marked(b, a, FALSE, FALSE, FALSE)) = Marked(b, a, TRUE, FALSE, FALSE)
    BY MarkedFacts
  <2>3. Block(a, b) = Marked(a, b, FALSE, FALSE, FALSE)
    BY <2>1
  <2>4. Block(b, a) = Marked(b, a, FALSE, FALSE, FALSE)
    BY <2>1
  <2>. QED  BY <2>2, <2>3, <2>4, Zenon
<1>1. CASE op = "none"
  <2>1. a = x /\ b = y
    BY <1>1 DEF From, AcrossOps, DownOps
  <2>2. Moved(op, S, x, y, w, h) = S[<<a, b>>]
    BY <1>1, <2>1 DEF Moved
  <2>3. S[<<a, b>>] = Block(a, b)
    BY <1>1 DEF TurnOps
  <2>5. /\ (op \in TurnOps) = FALSE
        /\ (op \in AcrossOps) = FALSE /\ (op \in DownOps) = FALSE
    BY <1>1 DEF TurnOps, AcrossOps, DownOps
  <2>. QED  BY <1>0, <2>2, <2>3, <2>5
<1>2. CASE op = "hflip"
  <2>1. a = w - 1 - x /\ x < w /\ b = y
    BY <1>2 DEF From, AcrossOps, DownOps
  <2>2. Moved(op, S, x, y, w, h) = MirrorH(S[<<a, b>>])
    BY <1>2, <2>1 DEF Moved
  <2>3. S[<<a, b>>] = Block(a, b)
    BY <1>2 DEF TurnOps
  <2>4. MirrorH(Marked(a, b, FALSE, FALSE, FALSE)) = Marked(a, b, FALSE, TRUE, FALSE)
    BY MarkedFacts
  <2>5. /\ (op \in TurnOps) = FALSE
        /\ (op \in AcrossOps) = TRUE /\ (op \in DownOps) = FALSE
    BY <1>2 DEF TurnOps, AcrossOps, DownOps
  <2>. QED  BY <1>0, <2>2, <2>3, <2>4, <2>5
<1>3. CASE op = "vflip"
  <2>1. a = x /\ b = h - 1 - y /\ y < h
    BY <1>3 DEF From, AcrossOps, DownOps
  <2>2. Moved(op, S, x, y, w, h) = MirrorV(S[<<a, b>>])
    BY <1>3, <2>1 DEF Moved
  <2>3. S[<<a, b>>] = Block(a, b)
    BY <1>3 DEF TurnOps
  <2>4. MirrorV(Marked(a, b, FALSE, FALSE, FALSE)) = Marked(a, b, FALSE, FALSE, TRUE)
    BY MarkedFacts
  <2>5. /\ (op \in TurnOps) = FALSE
        /\ (op \in AcrossOps) = FALSE /\ (op \in DownOps) = TRUE
    BY <1>3 DEF TurnOps, AcrossOps, DownOps
  <2>. QED  BY <1>0, <2>2, <2>3, <2>4, <2>5
<1>4. CASE op = "rot180"
  <2>1. a = w - 1 - x /\ x < w /\ b = h - 1 - y /\ y < h
    BY <1>4 DEF From, AcrossOps, DownOps
  <2>2. Moved(op, S, x, y, w, h) = MirrorH(MirrorV(S[<<a, b>>]))
    BY <1>4, <2>1 DEF Moved
  <2>3. S[<<a, b>>] = Block(a, b)
    BY <1>4 DEF TurnOps
  <2>4. MirrorH(MirrorV(Marked(a, b, FALSE, FALSE, FALSE))) = Marked(a, b, FALSE, TRUE, TRUE)
    <3>1. MirrorV(Marked(a, b, FALSE, FALSE, FALSE)) = Marked(a, b, FALSE, FALSE, TRUE)
      BY MarkedFacts
    <3>2. MirrorH(Marked(a, b, FALSE, FALSE, TRUE)) = Marked(a, b, FALSE, TRUE, TRUE)
      BY MarkedFacts
    <3>. QED  BY <3>1, <3>2
  <2>5. /\ (op \in TurnOps) = FALSE
        /\ (op \in AcrossOps) = TRUE /\ (op \in DownOps) = TRUE
    BY <1>4 DEF TurnOps, AcrossOps, DownOps
  <2>. QED  BY <1>0, <2>2, <2>3, <2>4, <2>5
<1>5. CASE op = "transpose"
  <2>1. a = x /\ b = y
    BY <1>5 DEF From, AcrossOps, DownOps
  <2>2. Moved(op, S, x, y, w, h) = Transposed(S[<<b, a>>])
    BY <1>5, <2>1 DEF Moved
  <2>3. S[<<b, a>>] = Block(b, a)
    BY <1>5 DEF TurnOps
  <2>5. /\ (op \in TurnOps) = TRUE
        /\ (op \in AcrossOps) = FALSE /\ (op \in DownOps) = FALSE
    BY <1>5 DEF TurnOps, AcrossOps, DownOps
  <2>. QED  BY <1>0, <2>2, <2>3, <2>5
<1>6. CASE op = "rot90"
  <2>1. a = w - 1 - x /\ x < w /\ b = y
    BY <1>6 DEF From, AcrossOps, DownOps
  <2>2. Moved(op, S, x, y, w, h) = MirrorH(Transposed(S[<<b, a>>]))
    BY <1>6, <2>1 DEF Moved
  <2>3. S[<<b, a>>] = Block(b, a)
    BY <1>6 DEF TurnOps
  <2>4. MirrorH(Marked(b, a, TRUE, FALSE, FALSE)) = Marked(b, a, TRUE, TRUE, FALSE)
    BY MarkedFacts
  <2>5. /\ (op \in TurnOps) = TRUE
        /\ (op \in AcrossOps) = TRUE /\ (op \in DownOps) = FALSE
    BY <1>6 DEF TurnOps, AcrossOps, DownOps
  <2>. QED  BY <1>0, <2>2, <2>3, <2>4, <2>5
<1>7. CASE op = "rot270"
  <2>1. a = x /\ b = h - 1 - y /\ y < h
    BY <1>7 DEF From, AcrossOps, DownOps
  <2>2. Moved(op, S, x, y, w, h) = MirrorV(Transposed(S[<<b, a>>]))
    BY <1>7, <2>1 DEF Moved
  <2>3. S[<<b, a>>] = Block(b, a)
    BY <1>7 DEF TurnOps
  <2>4. MirrorV(Marked(b, a, TRUE, FALSE, FALSE)) = Marked(b, a, TRUE, FALSE, TRUE)
    BY MarkedFacts
  <2>5. /\ (op \in TurnOps) = TRUE
        /\ (op \in AcrossOps) = FALSE /\ (op \in DownOps) = TRUE
    BY <1>7 DEF TurnOps, AcrossOps, DownOps
  <2>. QED  BY <1>0, <2>2, <2>3, <2>4, <2>5
<1>8. CASE op = "transverse"
  <2>1. a = w - 1 - x /\ x < w /\ b = h - 1 - y /\ y < h
    BY <1>8 DEF From, AcrossOps, DownOps
  <2>2. Moved(op, S, x, y, w, h) = MirrorH(MirrorV(Transposed(S[<<b, a>>])))
    BY <1>8, <2>1 DEF Moved
  <2>3. S[<<b, a>>] = Block(b, a)
    BY <1>8 DEF TurnOps
  <2>4. MirrorH(MirrorV(Marked(b, a, TRUE, FALSE, FALSE))) = Marked(b, a, TRUE, TRUE, TRUE)
    <3>1. MirrorV(Marked(b, a, TRUE, FALSE, FALSE)) = Marked(b, a, TRUE, FALSE, TRUE)
      BY MarkedFacts
    <3>2. MirrorH(Marked(b, a, TRUE, FALSE, TRUE)) = Marked(b, a, TRUE, TRUE, TRUE)
      BY MarkedFacts
    <3>. QED  BY <3>1, <3>2
  <2>5. /\ (op \in TurnOps) = TRUE
        /\ (op \in AcrossOps) = TRUE /\ (op \in DownOps) = TRUE
    BY <1>8 DEF TurnOps, AcrossOps, DownOps
  <2>. QED  BY <1>0, <2>2, <2>3, <2>4, <2>5
<1>. QED  BY <1>1, <1>2, <1>3, <1>4, <1>5, <1>6, <1>7, <1>8 DEF TransformOps

(* Samples by blocks. *)
LEMMA SampleFacts ==
  ASSUME NEW x \in Nat, NEW D \in Nat \ {0}, NEW i \in 0 .. D - 1
  PROVE  (x * D + i) \div D = x /\ (x * D + i) % D = i
<1>. DEFINE s == x * D + i
            q == s \div D
<1>1. x * D \in Nat /\ s \in Nat /\ i \in Nat /\ i < D
  BY Product
<1>2. q \in Nat /\ q * D <= s /\ s < q * D + D /\ s % D = s - q * D
  BY <1>1, Quotient
<1>3. q * D \in Nat /\ (q + 1) * D = q * D + D /\ (x + 1) * D = x * D + D
  BY <1>2, Product, Distribute
<1>4. s = x * D + i
  OBVIOUS
<1>. HIDE DEF s, q
<1>5. q * D < (x + 1) * D /\ x * D < (q + 1) * D
  BY <1>1, <1>2, <1>3, <1>4
<1>6. q < x + 1 /\ x < q + 1
  BY <1>2, <1>5, CancelFactor
<1>7. q = x
  BY <1>2, <1>6
<1>. QED  BY <1>1, <1>2, <1>4, <1>7 DEF s, q

(* Sample i of the block that comes to p shows the sample that belongs there *)
(* when n blocks are mirrored, the output beginning with block z of them.    *)
LEMMA SampleShown ==
  ASSUME NEW p \in Nat, NEW z \in Nat, NEW n \in Nat, NEW D \in Nat \ {0}, NEW i \in 0 .. D - 1
  PROVE  /\ (p + z) * D + i = p * D + i + z * D
         /\ (n - 1 - (p + z)) * D + (D - 1 - i) = n * D - 1 - (p * D + i + z * D)
<1>1. (p + z) * D = p * D + z * D /\ p * D \in Nat /\ z * D \in Nat /\ n * D \in Nat
  BY Distribute, Product
<1>2. (n - 1 - (p + z)) * D = n * D - D - (p + z) * D
  <2>1. (n - 1 - (p + z)) * D = (n - 1) * D - (p + z) * D
    BY Distribute
  <2>2. (n - 1) * D = n * D - 1 * D
    BY Distribute
  <2>. QED  BY <1>1, <2>1, <2>2
<1>. QED  BY <1>1, <1>2

(* Geometry, in one line. *)
LEMMA GeometryFrom ==
  ASSUME NEW op \in TransformOps, NEW x \in Int, NEW y \in Int, NEW w \in Int, NEW h \in Int
  PROVE  Geometry(op, x, y, w, h) =
           IF op \in TurnOps THEN <<From(op \in DownOps, y, h), From(op \in AcrossOps, x, w)>>
           ELSE <<From(op \in AcrossOps, x, w), From(op \in DownOps, y, h)>>
<1>. USE DEF Geometry, From, TurnOps, AcrossOps, DownOps
<1>1. CASE op \in TurnOps
  BY <1>1
<1>2. CASE op \notin TurnOps
  BY <1>2 DEF TransformOps
<1>. QED  BY <1>1, <1>2

(* One sample of an output that shows the picture as a whole. *)
LEMMA SampleTurned ==
  ASSUME source \in Sources, NEW t \in Transforms, Acceptable(t), t.perfect \/ t.trim,
         NEW c \in 1..Len(OutputComps(t)), NEW p \in OutputBlocks(t, c),
         MirrorsAcross(t) => XCrop(t, c) < CompWidth(t, c),
         MirrorsDown(t) => YCrop(t, c) < CompHeight(t, c),
         NEW i \in 0 .. DctSize - 1, NEW j \in 0 .. DctSize - 1
  PROVE  Shows(FromSource(t)[c], p[1] * DctSize + i, p[2] * DctSize + j) =
           Geometry(t.op, p[1] * DctSize + i + XCrop(t, c) * DctSize,
                    p[2] * DctSize + j + YCrop(t, c) * DctSize,
                    CompWidth(t, c) * DctSize, CompHeight(t, c) * DctSize)
<1>. DEFINE D == DctSize
            S == Arrays(source)[c]
            X == p[1] + XCrop(t, c)
            Y == p[2] + YCrop(t, c)
            w == CompWidth(t, c)
            h == CompHeight(t, c)
            across == t.op \in AcrossOps
            down == t.op \in DownOps
            turned == t.op \in TurnOps
            a == From(across, X, w)
            b == From(down, Y, h)
            out == FromSource(t)[c]
<1>1. D \in Nat \ {0} /\ t.op \in TransformOps
  BY TransformAssumption DEF Transforms
<1>2. /\ p[1] \in Nat /\ p[2] \in Nat /\ XCrop(t, c) \in Nat /\ YCrop(t, c) \in Nat
      /\ w \in 0..Columns(t, c) /\ h \in 0..Lines(t, c)
      /\ X \in 0 .. Columns(t, c) - 1 /\ Y \in 0 .. Lines(t, c) - 1
  BY OutputFits
<1>3. /\ across => X < w
      /\ down => Y < h
  BY AllMirrored DEF AcrossOps, DownOps, MirrorsAcross, MirrorsDown
<1>4. Columns(t, c) \in Nat /\ Lines(t, c) \in Nat
  BY PaddedFits
<1>5. a \in 0 .. Columns(t, c) - 1 /\ b \in 0 .. Lines(t, c) - 1
  <2>. HIDE DEF X, Y, w, h, across, down
  <2>1. ASSUME across PROVE a \in 0 .. Columns(t, c) - 1
    BY <1>2, <1>3, <1>4, <2>1 DEF From
  <2>2. ASSUME ~across PROVE a \in 0 .. Columns(t, c) - 1
    BY <1>2, <2>2 DEF From
  <2>3. ASSUME down PROVE b \in 0 .. Lines(t, c) - 1
    BY <1>2, <1>3, <1>4, <2>3 DEF From
  <2>4. ASSUME ~down PROVE b \in 0 .. Lines(t, c) - 1
    BY <1>2, <2>4 DEF From
  <2>. QED  BY <2>1, <2>2, <2>3, <2>4
<1>6. /\ turned => S[<<b, a>>] = Block(b, a)
      /\ ~turned => S[<<a, b>>] = Block(a, b)
  <2>1. /\ Across(c) \in Nat /\ Down(c) \in Nat
        /\ \A q \in Grid(Across(c), Down(c)) : S[q] = Block(q[1], q[2])
    BY OutputTyped, ArraysTyped
  <2>2. \A u \in 0 .. Across(c) - 1, v \in 0 .. Down(c) - 1 : S[<<u, v>>] = Block(u, v)
    BY <2>1, GridFacts
  <2>3. turned <=> Transposes(t)
    BY DEF TurnOps, Transposes
  <2>. HIDE DEF S, a, b, turned
  <2>. QED  BY <1>5, <2>2, <2>3 DEF Columns, Lines
<1>7. out[p] = Moved(t.op, S, X, Y, w, h)
  BY DEF FromSource
<1>8. Moved(t.op, S, X, Y, w, h) = IF turned THEN Marked(b, a, TRUE, across, down)
                                   ELSE Marked(a, b, FALSE, across, down)
  <2>1. /\ X \in Nat /\ Y \in Nat /\ w \in Nat /\ h \in Nat /\ a \in Nat /\ b \in Nat
    BY <1>2, <1>4, <1>5
  <2>2. /\ a = From(t.op \in AcrossOps, X, w) /\ b = From(t.op \in DownOps, Y, h)
        /\ t.op \in AcrossOps => X < w
        /\ t.op \in DownOps => Y < h
        /\ t.op \in TurnOps => S[<<b, a>>] = Block(b, a)
        /\ t.op \notin TurnOps => S[<<a, b>>] = Block(a, b)
    BY <1>3, <1>6
  <2>. HIDE DEF S, X, Y, w, h, a, b
  <2>3. Moved(t.op, S, X, Y, w, h) =
          IF t.op \in TurnOps THEN Marked(b, a, TRUE, t.op \in AcrossOps, t.op \in DownOps)
          ELSE Marked(a, b, FALSE, t.op \in AcrossOps, t.op \in DownOps)
    <3>1. a = AcrossFrom(t.op, X, w) /\ b = DownFrom(t.op, Y, h) /\ AsRead(t.op, S, a, b)
      BY <2>2 DEF AcrossFrom, DownFrom, AsRead
    <3>2. Moved(t.op, S, X, Y, w, h) = Becomes(t.op, AcrossFrom(t.op, X, w), DownFrom(t.op, Y, h))
      BY <1>1, <2>1, <2>2, <3>1, MovedBlock
    <3>. QED  BY <3>1, <3>2 DEF Becomes
  <2>. QED  BY <2>3
<1>. DEFINE x == p[1] * D + i
            y == p[2] * D + j
            I == From(across, i, D)
            J == From(down, j, D)
<1>9. out[<<x \div D, y \div D>>] = out[p] /\ x % D = i /\ y % D = j
  <2>1. x \div D = p[1] /\ x % D = i /\ y \div D = p[2] /\ y % D = j
    BY <1>1, <1>2, SampleFacts
  <2>2. p = <<p[1], p[2]>>
    BY DEF OutputBlocks
  <2>. HIDE DEF x, y, D, out
  <2>. QED  BY <2>1, <2>2
<1>10. Shows(out, x, y) = IF turned THEN <<b * D + J, a * D + I>> ELSE <<a * D + I, b * D + J>>
  <2>. HIDE DEF out, x, y, a, b, across, down, turned, S, X, Y, w, h
  <2>1. CASE turned
    <3>1. out[<<x \div D, y \div D>>] = Marked(b, a, TRUE, across, down)
      BY <1>7, <1>8, <1>9, <2>1
    <3>. QED  BY <1>9, <2>1, <3>1 DEF Shows, Marked, From
  <2>2. CASE ~turned
    <3>1. out[<<x \div D, y \div D>>] = Marked(a, b, FALSE, across, down)
      BY <1>7, <1>8, <1>9, <2>2
    <3>. QED  BY <1>9, <2>2, <3>1 DEF Shows, Marked, From
  <2>. QED  BY <2>1, <2>2
<1>11. /\ a * D + I = From(across, x + XCrop(t, c) * D, w * D)
       /\ b * D + J = From(down, y + YCrop(t, c) * D, h * D)
  <2>1. w \in Nat /\ h \in Nat /\ across \in BOOLEAN /\ down \in BOOLEAN
    BY <1>2, <1>4
  <2>. HIDE DEF w, h, across, down
  <2>2. /\ p[1] \in Nat /\ p[2] \in Nat /\ XCrop(t, c) \in Nat /\ YCrop(t, c) \in Nat
        /\ D \in Nat \ {0} /\ i \in 0 .. D - 1 /\ j \in 0 .. D - 1
    BY <1>1, <1>2
  <2>. HIDE DEF D
  <2>3. /\ (p[1] + XCrop(t, c)) * D + i = p[1] * D + i + XCrop(t, c) * D
        /\ (w - 1 - (p[1] + XCrop(t, c))) * D + (D - 1 - i) =
             w * D - 1 - (p[1] * D + i + XCrop(t, c) * D)
    <3>1. PICK q \in Nat, z \in Nat, n \in Nat : q = p[1] /\ z = XCrop(t, c) /\ n = w
      BY <2>1, <2>2
    <3>2. /\ (q + z) * D + i = q * D + i + z * D
          /\ (n - 1 - (q + z)) * D + (D - 1 - i) = n * D - 1 - (q * D + i + z * D)
      BY <2>2, SampleShown
    <3>. QED  BY <3>1, <3>2, Zenon
  <2>4. /\ (p[2] + YCrop(t, c)) * D + j = p[2] * D + j + YCrop(t, c) * D
        /\ (h - 1 - (p[2] + YCrop(t, c))) * D + (D - 1 - j) =
             h * D - 1 - (p[2] * D + j + YCrop(t, c) * D)
    <3>1. PICK q \in Nat, z \in Nat, n \in Nat : q = p[2] /\ z = YCrop(t, c) /\ n = h
      BY <2>1, <2>2
    <3>2. /\ (q + z) * D + j = q * D + j + z * D
          /\ (n - 1 - (q + z)) * D + (D - 1 - j) = n * D - 1 - (q * D + j + z * D)
      BY <2>2, SampleShown
    <3>. QED  BY <3>1, <3>2, Zenon
  <2>5. a * D + I = From(across, x + XCrop(t, c) * D, w * D)
    BY <2>3, Zenon DEF From
  <2>6. b * D + J = From(down, y + YCrop(t, c) * D, h * D)
    BY <2>4, Zenon DEF From
  <2>. QED  BY <2>5, <2>6
<1>12. /\ x + XCrop(t, c) * D \in Int /\ y + YCrop(t, c) * D \in Int
       /\ w * D \in Int /\ h * D \in Int
  <2>1. w \in Nat /\ h \in Nat
    BY <1>2, <1>4
  <2>. HIDE DEF w, h
  <2>2. /\ p[1] * D \in Nat /\ p[2] * D \in Nat
        /\ XCrop(t, c) * D \in Nat /\ YCrop(t, c) * D \in Nat
        /\ w * D \in Nat /\ h * D \in Nat
    BY <1>1, <1>2, <2>1, Product
  <2>. QED  BY <1>1, <2>2, SMTT(30)
<1>13. Geometry(t.op, x + XCrop(t, c) * D, y + YCrop(t, c) * D, w * D, h * D) =
         IF turned THEN <<b * D + J, a * D + I>> ELSE <<a * D + I, b * D + J>>
  <2>. HIDE DEF w, h, x, y, a, b, I, J
  <2>. QED  BY <1>1, <1>11, <1>12, GeometryFrom
<1>. QED  BY <1>10, <1>13

(* An output that is perfect or trimmed, and does not begin in the partial   *)
(* iMCUs it would mirror, shows the picture turned as a whole, sample by     *)
(* sample in every component (jtransform_perfect_transform, trim_right_edge, *)
(* trim_bottom_edge).                                                        *)
THEOREM PictureTurned == TransformSpec => []TurnsThePicture
<1>1. TransformInv => TurnsThePicture
  <2>. SUFFICES ASSUME TransformInv PROVE TurnsThePicture
    OBVIOUS
  <2>1. ASSUME NEW k \in 1..Len(outs), NEW c \in 1..Len(outs[k].comps),
               asked[k].perfect \/ asked[k].trim,
               MirrorsAcross(asked[k]) => XCrop(asked[k], c) < CompWidth(asked[k], c),
               MirrorsDown(asked[k]) => YCrop(asked[k], c) < CompHeight(asked[k], c),
               NEW p \in DOMAIN outs[k].comps[c],
               NEW i \in 0 .. DctSize - 1, NEW j \in 0 .. DctSize - 1
        PROVE  Shows(outs[k].comps[c], p[1] * DctSize + i, p[2] * DctSize + j) =
                 Geometry(asked[k].op, p[1] * DctSize + i + XCrop(asked[k], c) * DctSize,
                          p[2] * DctSize + j + YCrop(asked[k], c) * DctSize,
                          CompWidth(asked[k], c) * DctSize, CompHeight(asked[k], c) * DctSize)
    BY <2>1, WrittenOutput, SampleTurned
  <2>. QED  BY <2>1 DEF TurnsThePicture
<1>. QED  BY <1>1, TransformInvariant, PTL
=============================================================================
