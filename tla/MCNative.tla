------------------------------ MODULE MCNative ------------------------------
(* The native components one after the other, in one state graph: the one     *)
(* that is chosen at first takes the steps, the others stay as they began.    *)
EXTENDS TurboJpeg, JpegRows, JpegHuffman, JpegProgressive, JpegTransform, JpegRestart, YuvConvert

Picture(head, huge, layout, body) ==
    [head |-> head, huge |-> huge, layout |-> layout, body |-> body]
MCPictures ==
    {Picture("ok", FALSE, "yuv", "ok"), Picture("ok", FALSE, "cmyk", "ok"),
     Picture("ok", FALSE, "odd", "ok"), Picture("ok", TRUE, "yuv", "ok"),
     Picture("warns", FALSE, "yuv", "ok"), Picture("ok", FALSE, "yuv", "warns"),
     Picture("ok", FALSE, "yuv", "fails"), Picture("noSOI", FALSE, "yuv", "ok"),
     Picture("broken", FALSE, "yuv", "ok"), Picture("cut", FALSE, "yuv", "ok")}

Shape(m, height, context) == [m |-> m, height |-> height, context |-> context]
SimpleShapes == {Shape(m, h, FALSE) : m \in {1, 2, 3}, h \in 1..16}
ContextShapes == {Shape(m, h, TRUE) : m \in {2, 3}, h \in 1..20}
MCShapes == SimpleShapes \cup ContextShapes

MCCounts == {0, 1, 2, 3, 5}

Factors(hs, vs) == [hs |-> hs, vs |-> vs]
Sampling == {<<1, 1>>, <<2, 1>>, <<2, 2>>, <<1, 2>>}
Sides == {3, 4, 6, 9, 12}
MCSources ==
    {[w |-> w, h |-> h, comps |-> <<Factors(s[1], s[2]), Factors(1, 1)>>] :
       w, h \in Sides, s \in Sampling}
    \cup {[w |-> w, h |-> h, comps |-> <<Factors(1, 1)>>] : w, h \in Sides}

Transformed(op, how, gray, crop) ==
    [op |-> op, trim |-> how = "trim", perfect |-> how = "perfect", gray |-> gray, crop |-> crop]
Crop(x, y, w, h) == [x |-> x, y |-> y, w |-> w, h |-> h]
MCRequests ==
    {<<Transformed(op, how, gray, crop)>> :
       op \in TransformOps, how \in {"plain", "trim", "perfect"}, gray \in BOOLEAN,
       crop \in {NoCrop, Crop(4, 0, 3, 0), Crop(0, 4, 0, 3), Crop(4, 8, 5, 2)}}
    \cup {<<Transformed(first, "plain", FALSE, NoCrop), Transformed(second, "plain", FALSE, NoCrop)>> :
            first, second \in TransformOps}

(* Five AC coefficients behind a DC one. *)
ACs == {<<0, 0, 0, 0, 0>>, <<0, 1, 0, 2, 0>>, <<-7, 0, 0, 0, 1>>,
        <<5, 5, -6, 7, 4>>, <<0, -4, 0, 0, 2>>}
FewACs == {<<0, 0, 0, 0, 0>>, <<4, 0, -7, 0, -1>>}
DCs == <<5, -3, -8, 0, 7>>
Coefficients(s) == [i \in DOMAIN s |-> [k \in 0..5 |-> IF k = 0 THEN DCs[i] ELSE s[i][k]]]
MCOriginals == {Coefficients(s) : s \in [1..3 -> ACs] \cup [1..5 -> FewACs]}

FrameSizes == {<<4, 5>>, <<5, -5>>, <<5, 4>>, <<3, -4>>, <<1, 6>>, <<9, -1>>, <<7, 11>>, <<11, -8>>}
Cuts(w, h) == {Crop(0, 0, w, h), Crop(2, 1, 3, 2), Crop(1, 1, 2, -3), Crop(3, 2, 4, 6)}
Conversion(format, size, crop, rotation, inPlace) ==
    [format |-> format, width |-> size[1], height |-> size[2], crop |-> crop,
     rotation |-> rotation, inPlace |-> inPlace]
(* Only what the assumption on the conversions lets in. *)
MCConversions ==
    {Conversion("I420", <<4, h>>, Crop(0, 0, w, 4), 0, FALSE) : h \in {0, 4}, w \in {0, 4}}
    \cup UNION {{c \in {Conversion(f, s, crop, r, p) :
                          f \in Formats, crop \in Cuts(s[1], AbsOf(s[2])),
                          r \in {0, 90, 180, 270}, p \in BOOLEAN} : Fits(c)} : s \in FrameSizes}

VARIABLE which \* the component that is run

vars == <<tjvars, rvars, hvars, pvars, xvars, evars, yvars, which>>

(* Only the component that is run begins in every way it can. *)
Pinned ==
    /\ which = "rows" \/ shape = CHOOSE s \in Shapes : TRUE
    /\ which = "progressive" \/ original = CHOOSE s \in Originals : TRUE
    /\ which = "progressive" \/ interval = CHOOSE n \in Intervals : TRUE
    /\ which = "transform" \/ source = CHOOSE s \in Sources : TRUE
    /\ which = "convert" \/ conversion = CHOOSE c \in Conversions : TRUE

Init ==
    /\ which \in {"handle", "rows", "huffman", "progressive", "transform", "restart", "convert"}
    /\ Pinned
    /\ TurboJpegInit /\ RowsInit /\ HuffmanInit /\ ProgressiveInit /\ TransformInit /\ RestartInit /\ YuvInit

Next ==
    \/ which = "handle" /\ TurboJpegNext /\ UNCHANGED <<rvars, hvars, pvars, xvars, evars, yvars, which>>
    \/ which = "rows" /\ RowsNext /\ UNCHANGED <<tjvars, hvars, pvars, xvars, evars, yvars, which>>
    \/ which = "huffman" /\ HuffmanNext /\ UNCHANGED <<tjvars, rvars, pvars, xvars, evars, yvars, which>>
    \/ which = "progressive" /\ ProgressiveNext /\ UNCHANGED <<tjvars, rvars, hvars, xvars, evars, yvars, which>>
    \/ which = "transform" /\ TransformNext /\ UNCHANGED <<tjvars, rvars, hvars, pvars, evars, yvars, which>>
    \/ which = "restart" /\ RestartNext /\ UNCHANGED <<tjvars, rvars, hvars, pvars, xvars, yvars, which>>
    \/ which = "convert" /\ YuvNext /\ UNCHANGED <<tjvars, rvars, hvars, pvars, xvars, evars, which>>

Spec == Init /\ [][Next]_vars
=============================================================================
