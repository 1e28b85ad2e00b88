--------------------------- MODULE MCPixelShader ---------------------------
(* A draw of two triangles and three covered pixels shaded by two workers, *)
(* each with its own pixel_shader instance, over two triangle_infos.       *)
EXTENDS PixelShader, TLC

CONSTANTS w1, w2, i1, i2, s1, s2, t1, t2, p1, p2, p3

MCInst    == (w1 :> i1) @@ (w2 :> i2)
MCPixTri  == (p1 :> t1) @@ (p2 :> t1) @@ (p3 :> t2)
MCPixX    == (p1 :> 0) @@ (p2 :> 1) @@ (p3 :> 0)
MCPixY    == (p1 :> 0) @@ (p2 :> 0) @@ (p3 :> 1)

L(c, gx, gy) == [c |-> c, gx |-> gx, gy |-> gy]

\* t1: w grows to the right; t2: w grows downwards.
MCTriW == (t1 :> L(2, 1, 0)) @@ (t2 :> L(3, 0, 1))
MCTriZ == (t1 :> L(1, 1, 1)) @@ (t2 :> L(2, 0, 1))

\* Register 0 carries the homogeneous position (its w is w itself);
\* register 1 a direction whose w is 0 (the projective zero-w case).
PosReg(w) == [c \in Comps |-> IF c = "w" THEN w ELSE L(1, 2, 1)]
DirReg    == [c \in Comps |-> IF c = "w" THEN L(0, 0, 0) ELSE L(1, 0, 2)]
MCTriAttr == [t \in {t1, t2} |-> [r \in {0, 1} |->
                IF r = 0 THEN PosReg(MCTriW[t]) ELSE DirReg]]
\* Register 0 carries a direction (w = 0), register 1 the position.
MCTriAttrDirFirst == [t \in {t1, t2} |-> [r \in {0, 1} |->
                        IF r = 0 THEN DirReg ELSE PosReg(MCTriW[t])]]
MCTriFF   == (t1 :> TRUE) @@ (t2 :> FALSE)

MCUserDepths == {Rat(7, 1)}
=============================================================================
