------------------------- MODULE PixelShaderProofs -------------------------
(***************************************************************************)
(* Proofs about PixelShader for every value of its constants: every       *)
(* callback of the user program reads the pixel its worker is shading and *)
(* that pixel's triangle (CallbacksReadOwnPixel), whatever the other      *)
(* workers and the rasterizer's setup do in between.                      *)
(***************************************************************************)
EXTENDS PixelShader, TLAPS

\* The pointer state is well typed (out, shaded and the values of last are
\* left free: the pointers do not depend on them).
PtrTypeOK ==
  /\ slot \in [Slots -> Triangles \cup {Null}]
  /\ ptri \in [Instances -> Slots \cup {Null}]
  /\ ppxin \in [Instances -> Pixels \cup {Null}]
  /\ cur \in [Workers -> Pixels \cup {Null}]
  /\ busy \in [Workers -> BOOLEAN]
  /\ DOMAIN last = Workers

\* While worker w is inside execute(), its instance's ppxin_ points at w's
\* pixel and its ptriangleinfo_ at a triangle_info holding that pixel's
\* triangle: nobody else repoints the instance, and the rasterizer does
\* not refill a triangle_info in flight.
OwnPointers ==
  \A w \in Workers : busy[w] =>
    /\ cur[w] \in Pixels
    /\ ppxin[Inst[w]] = cur[w]
    /\ ptri[Inst[w]] \in Slots
    /\ slot[ptri[Inst[w]]] = PixTri[cur[w]]

\* CallbacksReadOwnPixel strengthened to an inductive invariant.
IInv == PtrTypeOK /\ OwnPointers /\ CallbacksReadOwnPixel

LEMMA InitIInv == PSInit => IInv
BY DEF PSInit, IInv, PtrTypeOK, OwnPointers, CallbacksReadOwnPixel

\* A step of one worker leaves every other worker's instance alone.
LEMMA OtherInstance ==
  ASSUME NEW w \in Workers, NEW v \in Workers, v # w
  PROVE  Inst[v] # Inst[w] /\ Inst[v] \in Instances
BY PixelShaderAssumption, InstancePerWorker

LEMMA NextIInv == IInv /\ [PSNext]_psVars => IInv'
<1> SUFFICES ASSUME IInv, [PSNext]_psVars PROVE IInv'
  OBVIOUS
<1>0. Inst \in [Workers -> Instances]
  BY PixelShaderAssumption
<1>1. CASE \E s \in Slots, t \in Triangles : SetTriangle(s, t)
  <2> PICK s \in Slots, t \in Triangles : SetTriangle(s, t)
    BY <1>1
  <2>1. \A w \in Workers : busy[w] => ptri[Inst[w]] # s
    BY DEF SetTriangle, InFlight
  <2>2. PtrTypeOK'
    BY DEF SetTriangle, IInv, PtrTypeOK
  <2>3. OwnPointers'
    BY <1>0, <2>1 DEF SetTriangle, IInv, PtrTypeOK, OwnPointers
  <2>4. CallbacksReadOwnPixel'
    BY DEF SetTriangle, IInv, CallbacksReadOwnPixel
  <2> QED
    BY <2>2, <2>3, <2>4 DEF IInv
<1>2. ASSUME NEW w \in Workers, NEW p \in Pixels, NEW s \in Slots,
             BeginExecute(w, p, s)
      PROVE  IInv'
  <2>1. PtrTypeOK'
    BY <1>0, <1>2 DEF BeginExecute, IInv, PtrTypeOK
  <2>2. ASSUME NEW v \in Workers, busy'[v] PROVE
          /\ cur'[v] \in Pixels
          /\ ppxin'[Inst[v]] = cur'[v]
          /\ ptri'[Inst[v]] \in Slots
          /\ slot'[ptri'[Inst[v]]] = PixTri[cur'[v]]
    <3>1. CASE v = w
      BY <1>0, <1>2, <3>1 DEF BeginExecute, IInv, PtrTypeOK
    <3>2. CASE v # w
      <4>1. Inst[v] # Inst[w] /\ Inst[v] \in Instances
        BY <3>2, OtherInstance
      <4> QED
        BY <1>0, <1>2, <2>2, <3>2, <4>1
        DEF BeginExecute, IInv, PtrTypeOK, OwnPointers
    <3> QED
      BY <3>1, <3>2
  <2>3. CallbacksReadOwnPixel'
    BY <1>2 DEF BeginExecute, IInv, PtrTypeOK, CallbacksReadOwnPixel
  <2> QED
    BY <2>1, <2>2, <2>3 DEF IInv, OwnPointers
<1>3. ASSUME NEW w \in Workers, NEW op \in Ops, NEW r \in Regs,
             UserCallback(w, op, r)
      PROVE  IInv'
  <2>1. /\ ppxin[Inst[w]] = cur[w]
        /\ slot[ptri[Inst[w]]] = PixTri[cur[w]]
    BY <1>3 DEF UserCallback, IInv, OwnPointers
  <2>2. PtrTypeOK' /\ OwnPointers'
    BY <1>3 DEF UserCallback, IInv, PtrTypeOK, OwnPointers
  <2>3. CallbacksReadOwnPixel'
    BY <1>3, <2>1 DEF UserCallback, IInv, PtrTypeOK, CallbacksReadOwnPixel
  <2> QED
    BY <2>2, <2>3 DEF IInv
<1>4. ASSUME NEW w \in Workers, NEW d \in UserDepths, NEW ff \in BOOLEAN,
             UserWrite(w, d, ff)
      PROVE  IInv'
  BY <1>4 DEF UserWrite, IInv, PtrTypeOK, OwnPointers, CallbacksReadOwnPixel
<1>5. ASSUME NEW w \in Workers, EndExecute(w)
      PROVE  IInv'
  BY <1>5 DEF EndExecute, IInv, PtrTypeOK, OwnPointers, CallbacksReadOwnPixel
<1>6. CASE UNCHANGED psVars
  BY <1>6 DEF psVars, IInv, PtrTypeOK, OwnPointers, CallbacksReadOwnPixel
<1> QED
  BY <1>1, <1>2, <1>3, <1>4, <1>5, <1>6 DEF PSNext

\* Every callback of the user program (ddx, ddy and the texture functions)
\* reads, through ppxin_ and ptriangleinfo_, the pixel its worker is
\* shading and that pixel's triangle, for any number of workers, pixels
\* and triangle_infos.
THEOREM CallbacksReadOwnPixelHolds == PSSpec => []CallbacksReadOwnPixel
<1>1. PSInit => IInv
  BY InitIInv
<1>2. IInv /\ [PSNext]_psVars => IInv'
  BY NextIInv
<1>3. IInv => CallbacksReadOwnPixel
  BY DEF IInv
<1> QED
  BY <1>1, <1>2, <1>3, PTL DEF PSSpec


-----------------------------------------------------------------------------
(* Refinement: the runtime implements ShadingSpec.                         *)

\* Each pixel a worker is inside execute() on has left pending, and no two
\* workers shade the same pixel at once.
InFlightPixels ==
  /\ pending \subseteq Pixels
  /\ cur \in [Workers -> Pixels \cup {Null}]
  /\ busy \in [Workers -> BOOLEAN]
  /\ DOMAIN shaded = Pixels
  /\ \A w \in Workers : busy[w] => cur[w] \in Pixels /\ cur[w] \notin pending
  /\ \A w, v \in Workers : w # v /\ busy[w] /\ busy[v] => cur[w] # cur[v]

LEMMA InFlightPixelsInvariant == PSSpec => []InFlightPixels
<1>1. PSInit => InFlightPixels
  BY DEF PSInit, InFlightPixels
<1>2. InFlightPixels /\ [PSNext]_psVars => InFlightPixels'
  <2> SUFFICES ASSUME InFlightPixels, [PSNext]_psVars PROVE InFlightPixels'
    OBVIOUS
  <2>1. ASSUME NEW w \in Workers, NEW p \in Pixels, NEW s \in Slots,
               BeginExecute(w, p, s)
        PROVE  InFlightPixels'
    BY <2>1 DEF BeginExecute, InFlightPixels
  <2>2. ASSUME NEW w \in Workers, EndExecute(w) PROVE InFlightPixels'
    BY <2>2 DEF EndExecute, InFlightPixels
  <2>3. CASE UNCHANGED psVars
    BY <2>3 DEF psVars, InFlightPixels
  <2> QED
    BY <2>1, <2>2, <2>3 DEF PSNext, SetTriangle, UserCallback, UserWrite,
       InFlightPixels
<1> QED
  BY <1>1, <1>2, PTL DEF PSSpec

\* Starting a pixel moves it from pending to a busy worker: what is left
\* to shade does not change.
LEMMA BeginExecuteStutters ==
  ASSUME InFlightPixels, NEW w \in Workers, NEW p \in Pixels, NEW s \in Slots,
         BeginExecute(w, p, s)
  PROVE  ToShade' = ToShade /\ shaded' = shaded
BY DEF BeginExecute, InFlightPixels, ToShade

\* Ending execute() on a pixel is the abstract step that shades it.
LEMMA EndExecuteShades ==
  ASSUME InFlightPixels, NEW w \in Workers, EndExecute(w)
  PROVE  Shading!Shade(cur[w])
<1>1. cur[w] \in Pixels /\ cur[w] \in ToShade
  BY DEF EndExecute, InFlightPixels, ToShade
<1>2. ToShade' = ToShade \ {cur[w]}
  BY DEF EndExecute, InFlightPixels, ToShade
<1>3. shaded' = [shaded EXCEPT ![cur[w]] = ExpectedOut[cur[w]]]
  BY <1>1 DEF EndExecute, ExpectedOut
<1> QED
  BY <1>1, <1>2, <1>3 DEF Shading!Shade

\* However the workers interleave, the runtime's draws are behaviours of
\* ShadingSpec: every covered pixel is shaded once, atomically, with the
\* depth and front_face of its own input (pixel_shader::execute).
THEOREM ShadingRefined == PSSpec => ShadingRefinement
<1>1. PSInit => Shading!AInit
  BY DEF PSInit, Shading!AInit, ToShade
<1>2. InFlightPixels /\ [PSNext]_psVars => [Shading!ANext]_(Shading!avars)
  <2> SUFFICES ASSUME InFlightPixels, [PSNext]_psVars
               PROVE  [Shading!ANext]_(Shading!avars)
    OBVIOUS
  <2>1. ASSUME NEW w \in Workers, NEW p \in Pixels, NEW s \in Slots,
               BeginExecute(w, p, s)
        PROVE  UNCHANGED Shading!avars
    BY <2>1, BeginExecuteStutters DEF Shading!avars
  <2>2. ASSUME NEW w \in Workers, EndExecute(w)
        PROVE  Shading!ANext
    <3>1. cur[w] \in Pixels
      BY <2>2 DEF EndExecute, InFlightPixels
    <3> QED
      BY <2>2, <3>1, EndExecuteShades DEF Shading!ANext
  <2>3. CASE \/ \E s \in Slots, t \in Triangles : SetTriangle(s, t)
             \/ \E w \in Workers, op \in Ops, r \in Regs : UserCallback(w, op, r)
             \/ \E w \in Workers, d \in UserDepths, ff \in BOOLEAN : UserWrite(w, d, ff)
             \/ UNCHANGED psVars
    BY <2>3 DEF SetTriangle, UserCallback, UserWrite, psVars, Shading!avars, ToShade
  <2> QED
    BY <2>1, <2>2, <2>3 DEF PSNext
<1> QED
  BY <1>1, <1>2, InFlightPixelsInvariant, PTL
  DEF PSSpec, ShadingRefinement, Shading!ASpec

-----------------------------------------------------------------------------
(* DerivativeCorrect: ddx and ddy are the perspective-correct derivative.  *)

\* What a worker's last callback recorded is what that callback computes
\* for the recorded input, triangle and register, and its worker still
\* holds a pixel.
LastRecord ==
  \A w \in Workers : last[w] # Null =>
    /\ cur[w] \in Pixels
    /\ last[w].op \in Ops
    /\ last[w].reg \in Regs
    /\ last[w].value = Callback(last[w].op, In(last[w].px), last[w].tri, last[w].reg)

DInv == IInv /\ LastRecord
\* The algebra of pixel_shader::ddx / ddy on one component: re-homogenise
\* A / W by W, add the attribute's delta gA, divide by the neighbour's
\* W + gW, subtract A / W.  As fractions this is (A + gA) / (W + gW) - A / W
\* whatever the integers are (the cross-multiplied sides are equal
\* polynomials).
LEMMA RehomogeniseIdentity ==
  ASSUME NEW A \in Int, NEW W \in Int, NEW gA \in Int, NEW gW \in Int
  PROVE  RatEq(RSub(RDiv(RAdd(RMul(Rat(A, W), Rat(W, 1)), Rat(gA, 1)),
                         RAdd(Rat(W, 1), Rat(gW, 1))),
                    Rat(A, W)),
               RSub(Rat(A + gA, W + gW), Rat(A, W)))
BY DEF RatEq, RSub, RDiv, RAdd, RMul, Rat
\* An affine function one pixel to the right (below) grows by its x (y)
\* gradient.
LEMMA AtStep ==
  ASSUME NEW f \in Affine, NEW a \in Int, NEW b \in Int
  PROVE  /\ At(f, a + 1, b) = At(f, a, b) + f.gx
         /\ At(f, a, b + 1) = At(f, a, b) + f.gy
BY DEF At, Affine

\* ddx / ddy evaluated on pixel p's own input and triangle is spec 8's
\* reference difference between p's neighbour and p, for every register.
LEMMA DerivativeOfOwnPixel ==
  ASSUME NEW p \in Pixels, NEW dir \in {"x", "y"}, NEW r \in Regs
  PROVE  VecEq(D(In(p), PixTri[p], dir, r), RefD(p, dir, r))
<1> USE PixelShaderAssumption
<1> DEFINE tp == PixTri[p]
           xp == PixX[p]
           yp == PixY[p]
           g(f) == IF dir = "x" THEN f.gx ELSE f.gy
           nx == IF dir = "x" THEN xp + 1 ELSE xp
           ny == IF dir = "y" THEN yp + 1 ELSE yp
<1>1. /\ tp \in Triangles /\ xp \in Int /\ yp \in Int
      /\ TriW[tp] \in Affine /\ TriAttr[tp][r] \in [Comps -> Affine]
  OBVIOUS
<1>2. SUFFICES ASSUME NEW c \in Comps
               PROVE  RatEq(D(In(p), tp, dir, r)[c], RefD(p, dir, r)[c])
  BY DEF VecEq
<1> DEFINE la == TriAttr[tp][r][c]
           A == At(la, xp, yp)
           W == At(TriW[tp], xp, yp)
<1>3. la \in Affine
  BY <1>1
<1>4. /\ A \in Int /\ W \in Int /\ g(la) \in Int /\ g(TriW[tp]) \in Int
  BY <1>1, <1>3 DEF At, Affine
<1>5. D(In(p), tp, dir, r)[c] =
        RSub(RDiv(RAdd(RMul(Rat(A, W), Rat(W, 1)), Rat(g(la), 1)),
                  RAdd(Rat(W, 1), Rat(g(TriW[tp]), 1))),
             Rat(A, W))
  BY DEF D, In, OriginalD, Delta, VAdd, VSub, VScale, VDivS
<1>6. /\ At(la, nx, ny) = A + g(la)
      /\ At(TriW[tp], nx, ny) = W + g(TriW[tp])
  <2>1. CASE dir = "x"
    <3>1. nx = xp + 1 /\ ny = yp /\ g(la) = la.gx /\ g(TriW[tp]) = TriW[tp].gx
      BY <2>1
    <3> QED
      BY <1>1, <1>3, <3>1, AtStep
  <2>2. CASE dir = "y"
    <3>1. nx = xp /\ ny = yp + 1 /\ g(la) = la.gy /\ g(TriW[tp]) = TriW[tp].gy
      BY <2>2
    <3> QED
      BY <1>1, <1>3, <3>1, AtStep
  <2> QED
    BY <2>1, <2>2
<1>7. RefD(p, dir, r)[c] = RSub(Rat(A + g(la), W + g(TriW[tp])), Rat(A, W))
  BY <1>6 DEF RefD
<1>8. RatEq(RSub(RDiv(RAdd(RMul(Rat(A, W), Rat(W, 1)), Rat(g(la), 1)),
                      RAdd(Rat(W, 1), Rat(g(TriW[tp]), 1))),
                 Rat(A, W)),
            RSub(Rat(A + g(la), W + g(TriW[tp])), Rat(A, W)))
  BY <1>4, RehomogeniseIdentity
<1> QED
  BY <1>5, <1>7, <1>8
LEMMA NextLastRecord == DInv /\ [PSNext]_psVars => LastRecord'
<1> SUFFICES ASSUME DInv, [PSNext]_psVars PROVE LastRecord'
  OBVIOUS
<1>1. CASE \E s \in Slots, t \in Triangles : SetTriangle(s, t)
  BY <1>1 DEF SetTriangle, DInv, LastRecord
<1>2. ASSUME NEW w \in Workers, NEW p \in Pixels, NEW s \in Slots,
             BeginExecute(w, p, s)
      PROVE  LastRecord'
  BY <1>2 DEF BeginExecute, DInv, IInv, PtrTypeOK, LastRecord
<1>3. ASSUME NEW w \in Workers, NEW op \in Ops, NEW r \in Regs,
             UserCallback(w, op, r)
      PROVE  LastRecord'
  <2>1. cur[w] \in Pixels
    BY <1>3 DEF UserCallback, DInv, IInv, OwnPointers
  <2> QED
    BY <1>3, <2>1 DEF UserCallback, DInv, IInv, PtrTypeOK, LastRecord
<1>4. ASSUME NEW w \in Workers, NEW d \in UserDepths, NEW ff \in BOOLEAN,
             UserWrite(w, d, ff)
      PROVE  LastRecord'
  BY <1>4 DEF UserWrite, DInv, LastRecord
<1>5. ASSUME NEW w \in Workers, EndExecute(w) PROVE LastRecord'
  BY <1>5 DEF EndExecute, DInv, LastRecord
<1>6. CASE UNCHANGED psVars
  BY <1>6 DEF psVars, DInv, LastRecord
<1> QED
  BY <1>1, <1>2, <1>3, <1>4, <1>5, <1>6 DEF PSNext

\* A recorded ddx or ddy of the worker's own pixel is the reference.
LEMMA DInvDerivative == DInv => DerivativeCorrect
<1> SUFFICES ASSUME DInv, NEW w \in Workers, last[w] # Null,
                    last[w].op \in {"ddx", "ddy"}
             PROVE  VecEq(last[w].value,
                          RefD(cur[w], IF last[w].op = "ddx" THEN "x" ELSE "y",
                               last[w].reg))
  BY DEF DerivativeCorrect
<1>1. /\ cur[w] \in Pixels /\ last[w].reg \in Regs
      /\ last[w].px = cur[w] /\ last[w].tri = PixTri[cur[w]]
      /\ last[w].value = Callback(last[w].op, In(cur[w]), PixTri[cur[w]], last[w].reg)
  BY DEF DInv, IInv, LastRecord, CallbacksReadOwnPixel
<1>2. CASE last[w].op = "ddx"
  <2>1. last[w].value = D(In(cur[w]), PixTri[cur[w]], "x", last[w].reg)
    BY <1>1, <1>2 DEF Callback
  <2> QED
    BY <1>1, <1>2, <2>1, DerivativeOfOwnPixel
<1>3. CASE last[w].op = "ddy"
  <2>1. last[w].value = D(In(cur[w]), PixTri[cur[w]], "y", last[w].reg)
    BY <1>1, <1>3 DEF Callback
  <2> QED
    BY <1>1, <1>3, <2>1, DerivativeOfOwnPixel
<1> QED
  BY <1>2, <1>3

\* For any workers, pixels, registers and affine triangles (the identity
\* needs no sign of w; PixelShaderAssumption's w > 0 is what makes both
\* sides proper fractions): every ddx / ddy the user program calls returns, for the pixel being
\* shaded, spec 8's perspective-correct difference of the attribute
\* between the right (lower) neighbour and the pixel, although other
\* workers run in between (pixel_shader::ddx / ddy).
THEOREM DerivativeCorrectHolds == PSSpec => []DerivativeCorrect
<1>1. PSInit => DInv
  BY InitIInv DEF PSInit, DInv, LastRecord
<1>2. DInv /\ [PSNext]_psVars => DInv'
  BY NextIInv, NextLastRecord DEF DInv
<1>3. DInv => DerivativeCorrect
  BY DInvDerivative
<1> QED
  BY <1>1, <1>2, <1>3, PTL DEF PSSpec

=============================================================================
