----------------------- MODULE PixelShaderTypeProofs -----------------------
(***************************************************************************)
(* Proof that every value a callback of the user program computes is      *)
(* defined (PSTypeOK): no division of pixel_shader.cpp divides by zero.   *)
(* The reciprocal-w terms of the derivative-based texture calls divide by *)
(* position.w plus register 0's w delta, so the result needs register 0   *)
(* to carry the position; the theorem states that as its hypothesis.      *)
(***************************************************************************)
EXTENDS PixelShaderProofs

\* A well-formed fraction: integer numerator, non-zero integer denominator.
GoodRat(a) == a \in [n : Int, d : Int] /\ a.d # 0

\* A four-component vector of well-formed fractions.
GoodVec(v) == \A c \in Comps : GoodRat(v[c])

LEMMA RatLiteral ==
  ASSUME NEW n \in Int, NEW d \in Int, d # 0
  PROVE  GoodRat(Rat(n, d))
BY DEF GoodRat, Rat

\* The fraction operations keep fractions well formed; division needs a
\* non-zero numerator in the divisor.
LEMMA RatClosed ==
  ASSUME NEW a, NEW b, GoodRat(a), GoodRat(b)
  PROVE  /\ GoodRat(RAdd(a, b))
         /\ GoodRat(RSub(a, b))
         /\ GoodRat(RMul(a, b))
         /\ b.n # 0 => GoodRat(RDiv(a, b))
<1>1. /\ a.n \in Int /\ a.d \in Int /\ b.n \in Int /\ b.d \in Int
      /\ a.d # 0 /\ b.d # 0
  BY DEF GoodRat
<1>2. a.d * b.d # 0
  BY <1>1
<1>3. b.n # 0 => a.d * b.n # 0
  BY <1>1
<1> QED
  BY <1>1, <1>2, <1>3 DEF GoodRat, RAdd, RSub, RMul, RDiv, Rat

LEMMA VecClosed ==
  ASSUME NEW u, NEW v, NEW s, GoodVec(u), GoodVec(v), GoodRat(s)
  PROVE  /\ GoodVec(VAdd(u, v))
         /\ GoodVec(VSub(u, v))
         /\ GoodVec(VScale(v, s))
         /\ s.n # 0 => GoodVec(VDivS(v, s))
BY RatClosed DEF GoodVec, VAdd, VSub, VScale, VDivS

LEMMA VecLiteral ==
  ASSUME NEW x, NEW y, NEW z, NEW w,
         GoodRat(x), GoodRat(y), GoodRat(z), GoodRat(w)
  PROVE  GoodVec(Vec(x, y, z, w))
BY DEF GoodVec, Vec, Comps

\* A well-formed vector is what PSTypeOK calls defined.
LEMMA GoodVecIsVec ==
  ASSUME NEW v, GoodVec(v)
  PROVE  IsVec(v)
BY DEF GoodVec, GoodRat, IsVec, IsRat

\* A pixel's input record holds a positive w and attributes over that w.
LEMMA InputDefined ==
  ASSUME NEW p \in Pixels
  PROVE  /\ GoodRat(In(p).position.w)
         /\ In(p).position.w.n > 0
         /\ \A r \in Regs : GoodVec(In(p).attributes[r])
<1> USE PixelShaderAssumption
<1> DEFINE tp == PixTri[p]
           W  == At(TriW[tp], PixX[p], PixY[p])
<1>1. W \in Int /\ W > 0
  <2>1. At(TriW[tp], PixX[p] + 0, PixY[p] + 0) > 0
    OBVIOUS
  <2> QED
    BY <2>1 DEF At, Affine
<1>2. In(p).position.w = Rat(W, 1)
  BY DEF In
<1>3. ASSUME NEW r \in Regs, NEW c \in Comps
      PROVE  GoodRat(In(p).attributes[r][c])
  <2>1. At(TriAttr[tp][r][c], PixX[p], PixY[p]) \in Int
    BY DEF At, Affine
  <2>2. In(p).attributes[r][c] = Rat(At(TriAttr[tp][r][c], PixX[p], PixY[p]), W)
    BY DEF In
  <2> QED
    BY <1>1, <2>1, <2>2, RatLiteral
<1> QED
  BY <1>1, <1>2, <1>3, RatLiteral DEF GoodVec, Rat

\* The triangle's ddx / ddy records are integer deltas over 1.
LEMMA DeltaDefined ==
  ASSUME NEW t \in Triangles, NEW dir \in {"x", "y"}
  PROVE  /\ GoodRat(Delta(t, dir).position.w)
         /\ \A r \in Regs : GoodVec(OriginalD(t, dir, r))
<1> USE PixelShaderAssumption
<1>1. GoodRat(Delta(t, dir).position.w)
  <2>1. (IF dir = "x" THEN TriW[t].gx ELSE TriW[t].gy) \in Int
    BY DEF Affine
  <2> QED
    BY <2>1, RatLiteral DEF Delta
<1>2. ASSUME NEW r \in Regs, NEW c \in Comps
      PROVE  GoodRat(OriginalD(t, dir, r)[c])
  <2>1. (IF dir = "x" THEN TriAttr[t][r][c].gx ELSE TriAttr[t][r][c].gy) \in Int
    BY DEF Affine
  <2> QED
    BY <2>1, RatLiteral DEF Delta, OriginalD
<1> QED
  BY <1>1, <1>2 DEF GoodVec

\* ddx / ddy divide by the neighbour's w: the pixel's w plus the delta
\* of w, which is w at the right (lower) neighbour and so positive.
LEMMA NeighbourW ==
  ASSUME NEW p \in Pixels, NEW dir \in {"x", "y"}
  PROVE  RAdd(In(p).position.w, Delta(PixTri[p], dir).position.w).n > 0
<1> USE PixelShaderAssumption
<1> DEFINE tp == PixTri[p]
           xp == PixX[p]
           yp == PixY[p]
           W  == At(TriW[tp], xp, yp)
<1>1. TriW[tp] \in Affine /\ xp \in Int /\ yp \in Int
  OBVIOUS
<1>2. CASE dir = "x"
  <2>1. RAdd(In(p).position.w, Delta(tp, dir).position.w).n = W * 1 + TriW[tp].gx * 1
    BY <1>2 DEF RAdd, In, Delta, Rat
  <2>2. At(TriW[tp], xp + 1, yp + 0) > 0
    OBVIOUS
  <2>3. At(TriW[tp], xp + 1, yp) = W + TriW[tp].gx
    BY <1>1, AtStep
  <2> QED
    BY <1>1, <2>1, <2>2, <2>3 DEF At, Affine
<1>3. CASE dir = "y"
  <2>1. RAdd(In(p).position.w, Delta(tp, dir).position.w).n = W * 1 + TriW[tp].gy * 1
    BY <1>3 DEF RAdd, In, Delta, Rat
  <2>2. At(TriW[tp], xp + 0, yp + 1) > 0
    OBVIOUS
  <2>3. At(TriW[tp], xp, yp + 1) = W + TriW[tp].gy
    BY <1>1, AtStep
  <2> QED
    BY <1>1, <2>1, <2>2, <2>3 DEF At, Affine
<1> QED
  BY <1>2, <1>3

\* pixel_shader::ddx / ddy on a pixel's own input is defined: it divides
\* by the neighbour's w only.
LEMMA DDefined ==
  ASSUME NEW p \in Pixels, NEW dir \in {"x", "y"}, NEW r \in Regs
  PROVE  GoodVec(D(In(p), PixTri[p], dir, r))
<1> DEFINE in   == In(p)
           tp   == PixTri[p]
           attr == in.attributes[r]
           unproj == VAdd(VScale(attr, in.position.w), OriginalD(tp, dir, r))
           newW == RAdd(in.position.w, Delta(tp, dir).position.w)
<1>1. tp \in Triangles
  BY PixelShaderAssumption
<1>2. GoodVec(attr) /\ GoodRat(in.position.w)
  BY InputDefined
<1>3. GoodVec(unproj)
  BY <1>1, <1>2, DeltaDefined, VecClosed
<1>4. GoodRat(newW) /\ newW.n # 0
  BY <1>1, <1>2, DeltaDefined, RatClosed, NeighbourW
<1>5. GoodVec(VDivS(unproj, newW))
  BY <1>3, <1>4, VecClosed
<1> QED
  BY <1>2, <1>5, VecClosed DEF D

\* The divisors of the reciprocal-w terms are non-zero: at each shaded
\* pixel, w plus register 0's w delta to the right and downwards
\* (position.w + get_original_ddx(0).w and + get_original_ddy(0).w in
\* pixel_shader.cpp).  Nothing in the runtime checks this; it depends on
\* what the vertex shader writes into register 0.
Register0Divisors ==
  \A p \in Pixels :
    LET t == PixTri[p]
        W == At(TriW[t], PixX[p], PixY[p])
    IN  /\ W + TriAttr[t][0]["w"].gx # 0
        /\ W + TriAttr[t][0]["w"].gy # 0

\* Register 0's w, before the perspective divide, is the triangle's w:
\* register 0 holds the position, or any attribute whose w is 1.
Register0WIsW == \A t \in Triangles : TriAttr[t][0]["w"] = TriW[t]

\* Then the divisors are the neighbours' w, which are positive.
LEMMA WIsWDivisors == Register0WIsW => Register0Divisors
<1> SUFFICES ASSUME Register0WIsW, NEW p \in Pixels
             PROVE  LET t == PixTri[p]
                        W == At(TriW[t], PixX[p], PixY[p])
                    IN  /\ W + TriAttr[t][0]["w"].gx # 0
                        /\ W + TriAttr[t][0]["w"].gy # 0
  BY DEF Register0Divisors
<1> USE PixelShaderAssumption
<1> DEFINE tp == PixTri[p]
           xp == PixX[p]
           yp == PixY[p]
<1>1. TriAttr[tp][0]["w"] = TriW[tp] /\ TriW[tp] \in Affine /\ xp \in Int /\ yp \in Int
  BY DEF Register0WIsW
<1>2. At(TriW[tp], xp + 1, yp + 0) > 0 /\ At(TriW[tp], xp + 0, yp + 1) > 0
  OBVIOUS
<1>3. /\ At(TriW[tp], xp + 1, yp) = At(TriW[tp], xp, yp) + TriW[tp].gx
      /\ At(TriW[tp], xp, yp + 1) = At(TriW[tp], xp, yp) + TriW[tp].gy
  BY <1>1, AtStep
<1> QED
  BY <1>1, <1>2, <1>3 DEF At, Affine

\* With those divisors non-zero, the reciprocal-w terms the
\* derivative-based texture calls pass are defined.
LEMMA RWDefined ==
  ASSUME Register0Divisors, NEW p \in Pixels, NEW q, GoodRat(q)
  PROVE  \A k \in 1..3 : IsRat(RW(In(p), PixTri[p], q)[k])
<1> USE PixelShaderAssumption
<1> DEFINE in == In(p)
           tp == PixTri[p]
           W  == At(TriW[tp], PixX[p], PixY[p])
<1>1. tp \in Triangles /\ 0 \in Regs /\ W \in Int
  BY DEF At, Affine
<1>2. ASSUME NEW dir \in {"x", "y"}
      PROVE  GoodRat(RDiv(One, RAdd(in.position.w, OriginalD(tp, dir, 0)["w"])))
  <2>1. GoodRat(RAdd(in.position.w, OriginalD(tp, dir, 0)["w"]))
    BY <1>1, InputDefined, DeltaDefined, RatClosed DEF GoodVec, Comps
  <2>2. RAdd(in.position.w, OriginalD(tp, dir, 0)["w"]).n
          = W * 1 + (IF dir = "x" THEN TriAttr[tp][0]["w"].gx
                                  ELSE TriAttr[tp][0]["w"].gy) * 1
    BY <1>1 DEF RAdd, In, OriginalD, Delta, Rat, Comps
  <2>3. TriAttr[tp][0]["w"] \in Affine
    BY <1>1 DEF Comps
  <2>4. RAdd(in.position.w, OriginalD(tp, dir, 0)["w"]).n # 0
    BY <1>1, <2>2, <2>3 DEF Register0Divisors, Affine
  <2>5. GoodRat(One)
    BY RatLiteral DEF One
  <2> QED
    BY <2>1, <2>4, <2>5, RatClosed
<1> QED
  BY <1>2, GoodRat(q) DEF RW, IsRat, GoodRat

\* invq of the projective functions is defined whatever v.w is: the code
\* tests v.w against zero before it divides.
LEMMA InvQDefined ==
  ASSUME NEW v, GoodRat(v["w"])
  PROVE  GoodRat(InvQ(v))
<1>1. GoodRat(One)
  BY RatLiteral DEF One
<1>2. CASE RatEq(v["w"], Zero)
  BY <1>1, <1>2 DEF InvQ
<1>3. CASE ~RatEq(v["w"], Zero)
  <2>1. v["w"].n # 0
    BY <1>3 DEF RatEq, Zero, Rat, GoodRat
  <2> QED
    BY <1>1, <1>3, <2>1, RatClosed DEF InvQ
<1> QED
  BY <1>2, <1>3

\* PSTypeOK's last conjunct for one recorded callback: its value is
\* defined.
ValueDefined(op, v) ==
  IF op \in {"ddx", "ddy"} THEN IsVec(v)
  ELSE /\ IsVec(v.coord)
       /\ v.rw # Null => \A k \in 1..3 : IsRat(v.rw[k])

\* Each callback the user program may make, on the pixel being shaded and
\* its triangle, computes a defined value (ddx, ddy, and the coordinates
\* and reciprocal-w terms of the tex functions).
LEMMA CallbackDefined ==
  ASSUME Register0Divisors, NEW p \in Pixels, NEW op \in Ops, NEW r \in Regs
  PROVE  ValueDefined(op, Callback(op, In(p), PixTri[p], r))
<1> DEFINE in == In(p)
           tp == PixTri[p]
           a  == in.attributes[r]
           ox == OriginalD(tp, "x", r)
           oy == OriginalD(tp, "y", r)
           v  == Callback(op, in, tp, r)
<1>1. GoodVec(a) /\ GoodRat(in.position.w) /\ in.position.w.n # 0
  BY InputDefined
<1>2. GoodRat(One) /\ GoodRat(Zero) /\ GoodRat(Rat(2, 1))
  BY RatLiteral DEF One, Zero
<1>3. GoodRat(RDiv(One, in.position.w))
  BY <1>1, <1>2, RatClosed
<1>4. GoodRat(a["x"]) /\ GoodRat(a["y"]) /\ GoodRat(a["z"]) /\ GoodRat(a["w"])
  BY <1>1 DEF GoodVec, Comps
<1>5. GoodRat(InvQ(a))
  BY <1>4, InvQDefined
<1>6. CASE op = "ddx"
  <2>1. v = D(in, tp, "x", r)
    BY <1>6 DEF Callback
  <2> QED
    BY <1>6, <2>1, DDefined, GoodVecIsVec DEF ValueDefined
<1>7. CASE op = "ddy"
  <2>1. v = D(in, tp, "y", r)
    BY <1>7 DEF Callback
  <2> QED
    BY <1>7, <2>1, DDefined, GoodVecIsVec DEF ValueDefined
<1>8. CASE op \in {"tex2d", "texcube"}
  <2>1. v.coord = a /\ v.rw = RW(in, tp, RDiv(One, in.position.w))
    BY <1>8 DEF Callback, Tex2d, TexCube, Call
  <2> QED
    BY <1>1, <1>3, <1>8, <2>1, RWDefined, GoodVecIsVec DEF ValueDefined
<1>9. CASE op \in {"tex2dlod", "texcubelod"}
  <2>1. v.rw = Null
    BY <1>9 DEF Callback, Tex2dLod, TexCubeLod, Call
  <2>2. GoodVec(v.coord)
    <3>1. CASE op = "tex2dlod"
      <4>1. v.coord = Vec(a["x"], a["y"], Zero, a["w"])
        BY <3>1 DEF Callback, Tex2dLod, Call
      <4> QED
        BY <1>2, <1>4, <4>1, VecLiteral
    <3>2. CASE op = "texcubelod"
      BY <1>1, <3>2 DEF Callback, TexCubeLod, Call
    <3> QED
      BY <1>9, <3>1, <3>2
  <2> QED
    BY <1>9, <2>1, <2>2, GoodVecIsVec DEF ValueDefined
<1>10. CASE op = "tex2dproj"
  <2> DEFINE q     == InvQ(a)
             moved == VAdd(Vec(RMul(a["x"], q), RMul(a["y"], q), RMul(a["z"], q), Zero),
                           Vec(One, One, Zero, Zero))
             half  == VDivS(moved, Rat(2, 1))
  <2>1. v.coord = [half EXCEPT !["w"] = a["w"]] /\ v.rw = RW(in, tp, q)
    BY <1>10 DEF Callback, Tex2dProj, Call
  <2>2. GoodVec(moved)
    <3>1. GoodRat(RMul(a["x"], q)) /\ GoodRat(RMul(a["y"], q)) /\ GoodRat(RMul(a["z"], q))
      BY <1>4, <1>5, RatClosed
    <3>2. GoodVec(Vec(RMul(a["x"], q), RMul(a["y"], q), RMul(a["z"], q), Zero))
          /\ GoodVec(Vec(One, One, Zero, Zero))
      BY <1>2, <3>1, VecLiteral
    <3> QED
      BY <1>2, <3>2, VecClosed
  <2>3. GoodVec(half)
    <3>1. Rat(2, 1).n # 0
      BY DEF Rat
    <3> QED
      BY <1>2, <2>2, <3>1, VecClosed
  <2>4. GoodVec([half EXCEPT !["w"] = a["w"]])
    BY <1>4, <2>3 DEF GoodVec, VDivS
  <2> QED
    BY <1>5, <1>10, <2>1, <2>4, RWDefined, GoodVecIsVec DEF ValueDefined
<1>11. CASE op = "texcubeproj"
  <2> DEFINE q == InvQ(a)
             f == RMul(in.position.w, q)
  <2>1. v.coord = Vec(RMul(a["x"], f), RMul(a["y"], f), RMul(a["z"], f), a["w"])
        /\ v.rw = RW(in, tp, q)
    BY <1>11 DEF Callback, TexCubeProj, Call
  <2>2. GoodRat(f)
    BY <1>1, <1>5, RatClosed
  <2>3. GoodVec(v.coord)
    BY <1>4, <2>1, <2>2, RatClosed, VecLiteral
  <2> QED
    BY <1>5, <1>11, <2>1, <2>3, RWDefined, GoodVecIsVec DEF ValueDefined
<1> QED
  BY <1>6, <1>7, <1>8, <1>9, <1>10, <1>11 DEF Ops

-----------------------------------------------------------------------------
(* The invariant.                                                          *)

\* What execute() returns and what the user program writes stay outputs.
OutTypeOK ==
  /\ pending \subseteq Pixels
  /\ out \in [Workers -> Outputs]
  /\ shaded \in [Pixels -> Outputs \cup {Null}]

\* PSTypeOK strengthened: the pointer invariant, the record of the last
\* callbacks, and the outputs' type.
TInv == DInv /\ OutTypeOK

LEMMA InitTInv == PSInit => TInv
<1> SUFFICES ASSUME PSInit PROVE TInv
  OBVIOUS
<1>1. DInv
  BY InitIInv DEF PSInit, DInv, LastRecord
<1>2. [depth |-> Rat(0, 1), front_face |-> FALSE] \in Outputs
  BY DEF Outputs
<1> QED
  BY <1>1, <1>2 DEF PSInit, TInv, OutTypeOK

LEMMA NextOutTypeOK == TInv /\ [PSNext]_psVars => OutTypeOK'
<1> SUFFICES ASSUME TInv, [PSNext]_psVars PROVE OutTypeOK'
  OBVIOUS
<1>1. CASE \E s \in Slots, t \in Triangles : SetTriangle(s, t)
  BY <1>1 DEF SetTriangle, TInv, OutTypeOK
<1>2. ASSUME NEW w \in Workers, NEW p \in Pixels, NEW s \in Slots,
             BeginExecute(w, p, s)
      PROVE  OutTypeOK'
  BY <1>2 DEF BeginExecute, TInv, OutTypeOK
<1>3. ASSUME NEW w \in Workers, NEW op \in Ops, NEW r \in Regs,
             UserCallback(w, op, r)
      PROVE  OutTypeOK'
  BY <1>3 DEF UserCallback, TInv, OutTypeOK
<1>4. ASSUME NEW w \in Workers, NEW d \in UserDepths, NEW ff \in BOOLEAN,
             UserWrite(w, d, ff)
      PROVE  OutTypeOK'
  <2>1. [depth |-> d, front_face |-> ff] \in Outputs
    BY DEF Outputs
  <2> QED
    BY <1>4, <2>1 DEF UserWrite, TInv, OutTypeOK
<1>5. ASSUME NEW w \in Workers, EndExecute(w) PROVE OutTypeOK'
  <2>1. cur[w] \in Pixels
    BY <1>5 DEF EndExecute, TInv, DInv, IInv, OwnPointers
  <2>2. [depth |-> In(cur[w]).position.z, front_face |-> In(cur[w]).front_face]
          \in Outputs
    <3>1. In(cur[w]).front_face \in BOOLEAN
      BY <2>1, PixelShaderAssumption DEF In
    <3> QED
      BY <2>1, <3>1 DEF Outputs
  <2> QED
    BY <1>5, <2>1, <2>2 DEF EndExecute, TInv, OutTypeOK
<1>6. CASE UNCHANGED psVars
  BY <1>6 DEF psVars, TInv, OutTypeOK
<1> QED
  BY <1>1, <1>2, <1>3, <1>4, <1>5, <1>6 DEF PSNext

LEMMA NextTInv == TInv /\ [PSNext]_psVars => TInv'
BY NextIInv, NextLastRecord, NextOutTypeOK DEF TInv, DInv

\* With register 0's divisors non-zero, the strengthened invariant gives
\* PSTypeOK: each recorded callback is one of the worker's own pixel.
LEMMA TInvTypeOK ==
  ASSUME Register0Divisors, TInv
  PROVE  PSTypeOK
<1>1. ASSUME NEW w \in Workers, last[w] # Null
      PROVE  ValueDefined(last[w].op, last[w].value)
  <2>1. /\ cur[w] \in Pixels /\ last[w].op \in Ops /\ last[w].reg \in Regs
        /\ last[w].value = Callback(last[w].op, In(cur[w]), PixTri[cur[w]], last[w].reg)
    BY <1>1 DEF TInv, DInv, IInv, LastRecord, CallbacksReadOwnPixel
  <2> QED
    BY <2>1, CallbackDefined
<1>2. /\ slot \in [Slots -> Triangles \cup {Null}]
      /\ ptri \in [Instances -> Slots \cup {Null}]
      /\ ppxin \in [Instances -> Pixels \cup {Null}]
      /\ cur \in [Workers -> Pixels \cup {Null}]
      /\ busy \in [Workers -> BOOLEAN]
  BY DEF TInv, DInv, IInv, PtrTypeOK
<1> QED
  BY <1>1, <1>2 DEF TInv, OutTypeOK, PSTypeOK, ValueDefined

\* Whenever the mip-rate divisors of register 0 are non-zero: for any
\* workers, pixels, registers and triangles whose w is positive at each
\* shaded pixel and its right and lower neighbours, the pixel-shader
\* runtime stays well typed and no callback the user program makes (ddx,
\* ddy, tex2d, tex2dlod, tex2dproj, texcube, texcubelod, texcubeproj in
\* pixel_shader.cpp) divides by zero, however the workers interleave.
\* ddx / ddy and invq need no hypothesis: they divide by the neighbour's
\* w and test v.w against zero.
THEOREM PSTypeOKHolds == Register0Divisors => (PSSpec => []PSTypeOK)
<1> SUFFICES ASSUME Register0Divisors PROVE PSSpec => []PSTypeOK
  OBVIOUS
<1>1. PSInit => TInv
  BY InitTInv
<1>2. TInv /\ [PSNext]_psVars => TInv'
  BY NextTInv
<1>3. TInv => PSTypeOK
  BY TInvTypeOK
<1> QED
  BY <1>1, <1>2, <1>3, PTL DEF PSSpec

\* In particular, when register 0 holds the position (or an attribute
\* whose w is 1), every callback's value is defined.
COROLLARY PSTypeOKWhenRegister0WIsW == Register0WIsW => (PSSpec => []PSTypeOK)
BY WIsWDivisors, PSTypeOKHolds

=============================================================================
