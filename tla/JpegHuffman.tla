---------------------------- MODULE JpegHuffman ----------------------------
(***************************************************************************)
(* Huffman coding of a scan: the table made from the statistics of a first  *)
(* pass (jpeg_gen_optimal_table, jchuff.c), the codes both sides derive     *)
(* from it (jpeg_make_c_derived_tbl, jpeg_make_d_derived_tbl), the bits put *)
(* into bytes with their stuffing, and the decoder that looks ahead, fills  *)
(* its bit buffer from the bytes and stops at the marker (jdhuff.c,         *)
(* HUFF_DECODE of jdhuff.h).  A symbol stands for what htest_one_block and  *)
(* encode_one_block make of a coefficient; its extra bits are left out.     *)
(* The widths of the code (16, 32, 8, 8, 57) are constants.                 *)
(***************************************************************************)
EXTENDS Integers, Sequences, FiniteSets
LOCAL INSTANCE SequencesExt
LOCAL INSTANCE TLC

CONSTANTS
    LastSymbol,   \* 255
    MaxLength,    \* a code has at most so many bits: 16
    MaxTree,      \* MAX_CLEN, the same before the lengths are limited: 32
    Lookahead,    \* HUFF_LOOKAHEAD: 8
    ByteBits,     \* 8
    MinGetBits,   \* MIN_GET_BITS, what a fill of the bit buffer is for
    Counts,       \* how often a symbol may occur
    MaxScan       \* symbols in a scan

ASSUME HuffmanAssumption ==
    /\ {LastSymbol, MaxLength, MaxTree, Lookahead, ByteBits, MinGetBits, MaxScan}
         \subseteq Nat \ {0}
    /\ LastSymbol + 2 <= 2^MaxLength /\ MaxLength <= MaxTree
    /\ Lookahead < MaxLength /\ MaxLength <= MinGetBits
    /\ Counts \subseteq Nat

VARIABLES
    counts,       \* the statistics of the first pass
    htbl,         \* JHUFF_TBL: how many codes of each length, symbols in order
    codes,        \* the derived table: length and code of every symbol in order
    scan,         \* the symbols of the scan
    data,         \* its entropy-coded bytes and the marker behind them
    bitread,      \* the decoder's position, unread_marker, bit buffer, warning
    decoded       \* the symbols it has decoded

hvars == <<counts, htbl, codes, scan, data, bitread, decoded>>

Symbols == 0..LastSymbol
Pseudo == LastSymbol + 1                  \* symbol 256
Absent == -1

HuffMax(S) == CHOOSE i \in S : \A k \in S : k <= i

-----------------------------------------------------------------------------
(* jpeg_gen_optimal_table. *)

(* The live symbol of the smallest frequency, the larger one of a tie. *)
Rarest(freq, live) ==
    CHOOSE i \in live : \A k \in live : freq[i] < freq[k] \/ (freq[i] = freq[k] /\ k <= i)

(* Mutant of Merge: only the chain of the first tree grows. *)
MergeOneChain(h) ==
    LET live == {i \in 0..Pseudo : h.freq[i] # 0}
        c1 == Rarest(h.freq, live)
        c2 == Rarest(h.freq, live \ {c1})
        both == h.tree[c1] \cup {c2}
    IN IF Cardinality(live) = 1 THEN h
       ELSE [freq |-> [h.freq EXCEPT ![c1] = @ + h.freq[c2], ![c2] = 0],
             tree |-> [h.tree EXCEPT ![c1] = both],
             codesize |-> [i \in 0..Pseudo |-> h.codesize[i] + (IF i \in both THEN 1 ELSE 0)]]

(* The two rarest trees become one: everything in either is a bit longer.   *)
(* The chains of others[] are the trees' sets of symbols.                   *)
Merge(h) ==
    LET live == {i \in 0..Pseudo : h.freq[i] # 0}
        c1 == Rarest(h.freq, live)
        c2 == Rarest(h.freq, live \ {c1})
        both == h.tree[c1] \cup h.tree[c2]
    IN IF Cardinality(live) = 1 THEN h
       ELSE [freq |-> [h.freq EXCEPT ![c1] = @ + h.freq[c2], ![c2] = 0],
             tree |-> [h.tree EXCEPT ![c1] = both],
             codesize |-> [i \in 0..Pseudo |-> h.codesize[i] + (IF i \in both THEN 1 ELSE 0)]]

(* codesize[], 0 for a symbol that does not occur.  The pseudo-symbol of    *)
(* frequency 1 takes part: it will be the code of all ones.                 *)
CodeSizes(freq) ==
    LET after[n \in 0..Pseudo] ==
          IF n = 0
          THEN [freq |-> [i \in 0..Pseudo |-> IF i = Pseudo THEN 1 ELSE freq[i]],
                tree |-> [i \in 0..Pseudo |-> {i}],
                codesize |-> [i \in 0..Pseudo |-> 0]]
          ELSE Merge(after[n - 1])
    IN after[Pseudo].codesize

(* While there are codes longer than MaxLength: two of the longest give     *)
(* way, one takes their prefix, and a shorter code becomes the prefix of    *)
(* itself and the other.                                                    *)
RECURSIVE Shorten(_)
Shorten(bits) ==
    LET long == {i \in MaxLength + 1 .. MaxTree : bits[i] # 0}
        i == HuffMax(long)
        j == HuffMax({k \in 1 .. i - 2 : bits[k] # 0})
    IN IF long = {} THEN bits
       ELSE Shorten([k \in 1..MaxTree |->
              bits[k] + (IF k = i THEN -2 ELSE 0) + (IF k = i - 1 THEN 1 ELSE 0)
                      + (IF k = j + 1 THEN 2 ELSE 0) - (IF k = j THEN 1 ELSE 0)])

(* The pseudo-symbol leaves the largest length in use, wherever the         *)
(* adjustment has put it; the symbols are listed by their lengths before    *)
(* the adjustment.                                                          *)
GenOptimalTable(freq) ==
    LET codesize == CodeSizes(freq)
        bits == Shorten([l \in 1..MaxTree |-> Cardinality({i \in 0..Pseudo : codesize[i] = l})])
        longest == HuffMax({l \in 1..MaxLength : bits[l] # 0})
    IN [bits |-> [l \in 1..MaxLength |-> IF l = longest THEN bits[l] - 1 ELSE bits[l]],
        huffval |-> SetToSortSeq({i \in Symbols : codesize[i] # 0},
                      LAMBDA i, k : \/ codesize[i] < codesize[k]
                                    \/ codesize[i] = codesize[k] /\ i < k)]

-----------------------------------------------------------------------------
(* The part jpeg_make_c_derived_tbl and jpeg_make_d_derived_tbl share: the  *)
(* codes in order, or JERR_BAD_HUFF_TABLE.                                  *)
HuffSizes(t) == FlattenSeq([l \in 1..MaxLength |-> [k \in 1..t.bits[l] |-> l]])

Derived(t) ==
    LET size == HuffSizes(t)
        code[p \in 1..Len(size)] ==
          IF p = 1 THEN 0 ELSE (code[p - 1] + 1) * 2^(size[p] - size[p - 1])
    IN [size |-> size, code |-> [p \in 1..Len(size) |-> code[p]],
        legal |-> /\ Len(size) <= LastSymbol + 1
                  /\ \A p \in 1..Len(size) : code[p] + 1 < 2^size[p]
                  /\ Len(size) <= Len(t.huffval)
                  /\ Cardinality({t.huffval[p] : p \in 1..Len(size)}) = Len(size)]

(* ehufsi and ehufco of a symbol: where the table has it. *)
Slot(s) == CHOOSE p \in 1..Len(htbl.huffval) : htbl.huffval[p] = s

BitsOf(value, n) == [k \in 1..n |-> (value \div 2^(n - k)) % 2]
ValueOf(bits) == FoldLeft(LAMBDA v, b : 2 * v + b, 0, bits)

-----------------------------------------------------------------------------
(* The bytes of a scan. *)
AllOnes == 2^ByteBits - 1                 \* 0xFF
Eoi == 1                                  \* any code of a marker but 0 and FF

(* Mutant of Stuffed: bytes go out as they are. *)
Unstuffed(bytes) == [k \in 1..Len(bytes) |-> bytes[k]]

(* EMIT_BYTE: a byte of all ones is followed by a zero. *)
Stuffed(bytes) ==
    FlattenSeq([k \in 1..Len(bytes) |->
      IF bytes[k] = AllOnes THEN <<AllOnes, 0>> ELSE <<bytes[k]>>])

(* EMIT_BITS for every symbol, flush_bits, the marker of the file's end. *)
Encoded(symbols) ==
    LET bits == FlattenSeq([k \in 1..Len(symbols) |->
                  BitsOf(codes.code[Slot(symbols[k])], codes.size[Slot(symbols[k])])])
                \o [k \in 1 .. ByteBits - 1 |-> 1]
        bytes == [k \in 1 .. Len(bits) \div ByteBits |->
                   ValueOf(SubSeq(bits, (k - 1) * ByteBits + 1, k * ByteBits))]
    IN Stuffed(bytes) \o <<AllOnes, Eoi>>

(* jpeg_fill_bit_buffer: bytes while there is room and no marker; a request *)
(* beyond the marker is met with zeros and a warning.                       *)
RECURSIVE FillBitBuffer(_, _)
FillBitBuffer(r, nbits) ==
    IF ~r.marker /\ Len(r.buffer) < MinGetBits
    THEN LET c == data[r.next] IN
         IF c # AllOnes
         THEN FillBitBuffer([r EXCEPT !.next = @ + 1, !.buffer = @ \o BitsOf(c, ByteBits)], nbits)
         ELSE LET n == CHOOSE k \in r.next + 1 .. Len(data) :
                         data[k] # AllOnes /\ \A i \in r.next .. k - 1 : data[i] = AllOnes
              IN IF data[n] = 0
                 THEN FillBitBuffer([r EXCEPT !.next = n + 1,
                                              !.buffer = @ \o BitsOf(AllOnes, ByteBits)], nbits)
                 ELSE FillBitBuffer([r EXCEPT !.next = n + 1, !.marker = TRUE], nbits)
    ELSE IF r.marker /\ nbits > Len(r.buffer)
    THEN [r EXCEPT !.warned = TRUE,
                   !.buffer = @ \o [k \in 1 .. MinGetBits - Len(@) |-> 0]]
    ELSE r

(* CHECK_BIT_BUFFER *)
Check(r, nbits) == IF Len(r.buffer) < nbits THEN FillBitBuffer(r, nbits) ELSE r

Peek(r, nbits) == ValueOf(SubSeq(r.buffer, 1, nbits))
Drop(r, nbits) == [r EXCEPT !.buffer = SubSeq(@, nbits + 1, Len(@))]

-----------------------------------------------------------------------------
(* jpeg_make_d_derived_tbl: codes of a length, their largest, the lookahead *)
(* table's entry for the next bits.                                         *)
OfLength(l) == {p \in 1..Len(codes.size) : codes.size[p] = l}
MaxCode(l) == IF OfLength(l) = {} THEN -1 ELSE codes.code[HuffMax(OfLength(l))]

ValOffset(l) == LET p == CHOOSE p \in OfLength(l) : \A q \in OfLength(l) : p <= q
                IN p - codes.code[p]

Lookup(look) ==
    {p \in 1..Len(codes.size) :
       /\ codes.size[p] <= Lookahead
       /\ look \div 2^(Lookahead - codes.size[p]) = codes.code[p]}

(* jpeg_huff_decode, when the code has at least l bits.                     *)
RECURSIVE Longer(_, _, _)
Longer(r, code, l) ==
    IF l > MaxLength THEN [r EXCEPT !.warned = TRUE, !.symbol = 0]
    ELSE IF code <= MaxCode(l) THEN [r EXCEPT !.symbol = htbl.huffval[code + ValOffset(l)]]
    ELSE LET c == Check(r, 1) IN Longer(Drop(c, 1), 2 * code + Peek(c, 1), l + 1)

HuffDecodeSlow(r, l) == LET c == Check(r, l) IN Longer(Drop(c, l), Peek(c, l), l)

(* HUFF_DECODE *)
HuffDecode(r) ==
    LET f == IF Len(r.buffer) < Lookahead THEN FillBitBuffer(r, 0) ELSE r
    IN IF Len(f.buffer) < Lookahead THEN HuffDecodeSlow(f, 1)
       ELSE LET found == Lookup(Peek(f, Lookahead)) IN
            IF found = {} THEN HuffDecodeSlow(f, Lookahead + 1)
            ELSE LET p == CHOOSE p \in found : TRUE
                 IN [Drop(f, codes.size[p]) EXCEPT !.symbol = htbl.huffval[p]]

-----------------------------------------------------------------------------
NoTable == [bits |-> [l \in 1..MaxLength |-> 0], huffval |-> <<>>]
FreshBits == [next |-> 1, marker |-> FALSE, buffer |-> <<>>, warned |-> FALSE, symbol |-> Absent]

HuffmanInit ==
    /\ counts = [s \in Symbols |-> 0]
    /\ htbl = NoTable
    /\ codes = Derived(NoTable)
    /\ scan = <<>> /\ data = <<>> /\ bitread = FreshBits /\ decoded = <<>>

Occurring == {s \in Symbols : counts[s] # 0}

(* finish_pass_gather: a table that a component of the scan uses has        *)
(* counted a symbol; start_pass_huff derives the codes.                     *)
FinishPassGather ==
    /\ Occurring = {}
    /\ counts' \in [Symbols -> Counts]
    /\ \E s \in Symbols : counts'[s] # 0
    /\ \A i \in 0..Pseudo : CodeSizes(counts')[i] <= MaxTree  \* JERR_HUFF_CLEN_OVERFLOW
    /\ htbl' = GenOptimalTable(counts')
    /\ codes' = Derived(htbl')
    /\ UNCHANGED <<scan, data, bitread, decoded>>

(* The second pass codes symbols the first has counted. *)
EncodeScan ==
    /\ codes.legal
    /\ scan = <<>>
    /\ \E n \in 1..MaxScan : scan' \in [1..n -> Occurring]
    /\ data' = Encoded(scan')
    /\ UNCHANGED <<counts, htbl, codes, bitread, decoded>>

DecodeSymbol ==
    /\ Len(decoded) < Len(scan)
    /\ bitread' = HuffDecode(bitread)
    /\ decoded' = Append(decoded, bitread'.symbol)
    /\ UNCHANGED <<counts, htbl, codes, scan, data>>

HuffmanNext == FinishPassGather \/ EncodeScan \/ DecodeSymbol

HuffmanSpec == HuffmanInit /\ [][HuffmanNext]_hvars

-----------------------------------------------------------------------------
(* Whatever the statistics, the table is legal, and the decoder, looking    *)
(* ahead or near the end of the data bit by bit, gives back the symbols the *)
(* encoder was given and finds no fault with the data.                      *)
DecodesWhatWasCoded ==
    /\ Occurring # {} => codes.legal
    /\ IsPrefix(decoded, scan)
    /\ ~bitread.warned

Cost(freqs, lengths) == FoldLeft(+, 0, [k \in 1..Len(freqs) |-> freqs[k] * lengths[k]])

Kraft(lengths) == FoldLeft(+, 0, [k \in 1..Len(lengths) |-> 2^(MaxTree - lengths[k])])

(* The cheapest prefix code for n frequencies in falling order, lengths in  *)
(* rising order: the definition Huffman's procedure is measured by.         *)
Falling(n) == {f \in [1..n -> (Counts \ {0}) \cup {1}] : \A k \in 2..n : f[k] <= f[k - 1]}
Rising(n) == {l \in [1..n -> 1..n] : /\ \A k \in 2..n : l[k] >= l[k - 1]
                                     /\ Kraft(l) <= 2^MaxTree}
CheapestCost ==
    [freqs \in UNION {Falling(n) : n \in 2 .. LastSymbol + 2} |->
       LET costs == {Cost(freqs, lengths) : lengths \in Rising(Len(freqs))}
       IN CHOOSE c \in costs : \A e \in costs : c <= e]

(* What the table's codes cost, and the all-ones code no symbol gets, which *)
(* is as long as the longest: none is cheaper, unless the longest had to    *)
(* be shortened.                                                            *)
CheapestCode ==
    LET freqs == [k \in 1 .. Len(htbl.huffval) + 1 |->
                    IF k > Len(htbl.huffval) THEN 1 ELSE counts[htbl.huffval[k]]]
        lengths == [k \in 1 .. Len(htbl.huffval) + 1 |->
                      codes.size[IF k > Len(htbl.huffval) THEN k - 1 ELSE k]]
    IN (Occurring # {} /\ scan = <<>>
        /\ \A i \in 0..Pseudo : CodeSizes(counts)[i] <= MaxLength)
       => Cost(freqs, lengths) = CheapestCost[SortSeq(freqs, LAMBDA f, g : f > g)]
=============================================================================
