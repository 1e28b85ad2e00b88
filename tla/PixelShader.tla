---------------------------- MODULE PixelShader ----------------------------
(***************************************************************************)
(* The pixel-shader runtime of salviar (src/salviar/src/pixel_shader.cpp)  *)
(* and the triangle_info objects it reads.  Rasterizer workers shade the  *)
(* pixels of a draw concurrently; each worker runs its own pixel_shader   *)
(* instance.  execute() points the instance at the pixel's input record   *)
(* (ppxin_), runs the user program, and overwrites depth and front_face.  *)
(* While the user program runs it calls back into the runtime: ddx/ddy   *)
(* and the texture functions, which read the input through ppxin_ and the *)
(* triangle's neighbour records through ptriangleinfo_.                   *)
(*                                                                         *)
(* Floats are abstracted to exact rationals: the model checks the algebra *)
(* of the derivative and sampling code, not its rounding.  A triangle's   *)
(* homogeneous w and un-divided attributes are affine in screen space;    *)
(* a pixel's input holds w and the attributes divided by w (perspective-  *)
(* correct interpolation), and the triangle's ddx/ddy records hold the    *)
(* un-divided one-pixel deltas.                                            *)
(***************************************************************************)
EXTENDS Integers

CONSTANTS
  Workers,     \* rasterizer threads shading pixels
  Instances,   \* pixel_shader objects
  Inst,        \* Inst[w]: the pixel_shader instance worker w runs
  Slots,       \* triangle_info objects the rasterizer fills per triangle
  Triangles,   \* triangles of the draw
  Pixels,      \* covered pixels (their vs_output input records)
  PixTri,      \* PixTri[p]: the triangle p belongs to
  PixX, PixY,  \* PixX[p], PixY[p]: p's screen position
  Regs,        \* attribute registers
  TriW,        \* TriW[t]: t's homogeneous w as an affine function
  TriZ,        \* TriZ[t]: t's un-divided z as an affine function
  TriAttr,     \* TriAttr[t][r][c]: component c of register r, un-divided
  TriFF,       \* TriFF[t]: t's front_face flag
  UserDepths,  \* depths a user program may write into out.depth
  Null

Comps == {"x", "y", "z", "w"}

\* An affine function of the screen position: c + gx * x + gy * y.
Affine == [c: Int, gx: Int, gy: Int]
At(l, x, y) == l.c + l.gx * x + l.gy * y

ASSUME PixelShaderAssumption ==
  /\ Inst \in [Workers -> Instances]
  /\ PixTri \in [Pixels -> Triangles]
  /\ PixX \in [Pixels -> Int] /\ PixY \in [Pixels -> Int]
  /\ Regs \subseteq Nat /\ 0 \in Regs
  /\ TriW \in [Triangles -> Affine] /\ TriZ \in [Triangles -> Affine]
  /\ TriAttr \in [Triangles -> [Regs -> [Comps -> Affine]]]
  /\ TriFF \in [Triangles -> BOOLEAN]
  \* w is positive at every shaded pixel and at its right and lower
  \* neighbours: clipping has removed everything behind the eye.
  /\ \A p \in Pixels : \A dx, dy \in {0, 1} :
       At(TriW[PixTri[p]], PixX[p] + dx, PixY[p] + dy) > 0

\* Each worker runs its own pixel_shader instance (spec section 5): the
\* rasterizer, not in this repository, gives every thread its own copy.
ASSUME InstancePerWorker ==
  \A w, v \in Workers : w # v => Inst[w] # Inst[v]

-----------------------------------------------------------------------------
(* Exact arithmetic standing for the float arithmetic of eflib::vec4.      *)

Rat(n, d)    == [n |-> n, d |-> d]
IsRat(a)     == a.d # 0
RatEq(a, b)  == a.n * b.d = b.n * a.d
RAdd(a, b)   == Rat(a.n * b.d + b.n * a.d, a.d * b.d)
RSub(a, b)   == Rat(a.n * b.d - b.n * a.d, a.d * b.d)
RMul(a, b)   == Rat(a.n * b.n, a.d * b.d)
RDiv(a, b)   == Rat(a.n * b.d, a.d * b.n)
One          == Rat(1, 1)
Zero         == Rat(0, 1)

Vec(x, y, z, w) == [c \in Comps |-> CASE c = "x" -> x [] c = "y" -> y
                                      [] c = "z" -> z [] c = "w" -> w]
VAdd(u, v)   == [c \in Comps |-> RAdd(u[c], v[c])]
VSub(u, v)   == [c \in Comps |-> RSub(u[c], v[c])]
VScale(v, s) == [c \in Comps |-> RMul(v[c], s)]
VDivS(v, s)  == [c \in Comps |-> RDiv(v[c], s)]
IsVec(v)     == \A c \in Comps : IsRat(v[c])
VecEq(u, v)  == \A c \in Comps : RatEq(u[c], v[c])

-----------------------------------------------------------------------------
(* The records the rasterizer produces (read-only to the runtime).         *)

\* The vs_output a pixel is shaded with: w, z / w, attributes / w.
In(p) ==
  LET t == PixTri[p]
      w == At(TriW[t], PixX[p], PixY[p])
  IN  [position   |-> [z |-> Rat(At(TriZ[t], PixX[p], PixY[p]), w),
                       w |-> Rat(w, 1)],
       attributes |-> [r \in Regs |->
                         [c \in Comps |-> Rat(At(TriAttr[t][r][c], PixX[p], PixY[p]), w)]],
       front_face |-> TriFF[t]]

\* The ddx (dir = "x") or ddy (dir = "y") record of triangle t: the
\* un-divided change of w and of each attribute over one pixel.
Delta(t, dir) ==
  LET g(l) == IF dir = "x" THEN l.gx ELSE l.gy
  IN  [position   |-> [w |-> Rat(g(TriW[t]), 1)],
       attributes |-> [r \in Regs |-> [c \in Comps |-> Rat(g(TriAttr[t][r][c]), 1)]]]

-----------------------------------------------------------------------------
(* The runtime's computations.  in is the record ppxin_ points at and t    *)
(* the triangle whose records ptriangleinfo_ points at.                    *)

\* get_original_ddx / get_original_ddy
OriginalD(t, dir, r) == Delta(t, dir).attributes[r]

\* Mutant of D: the x derivative divides by the y neighbour's w.
DWrongNeighbourW(in, t, dir, r) ==
  LET attr   == in.attributes[r]
      unproj == VAdd(VScale(attr, in.position.w), OriginalD(t, dir, r))
      newW   == RAdd(in.position.w, Delta(t, "y").position.w)
  IN  VSub(VDivS(unproj, newW), attr)

\* pixel_shader::ddx / ddy: re-homogenise, step to the neighbour, divide.
D(in, t, dir, r) ==
  LET attr   == in.attributes[r]
      unproj == VAdd(VScale(attr, in.position.w), OriginalD(t, dir, r))
      newW   == RAdd(in.position.w, Delta(t, dir).position.w)
  IN  VSub(VDivS(unproj, newW), attr)

\* A call of the sampler: the function, its coordinate, derivatives and
\* the three reciprocal-w terms (Null where the call has none).
Call(fn, coord, dx, dy, rw) ==
  [fn |-> fn, coord |-> coord, ddx |-> dx, ddy |-> dy, rw |-> rw]

\* The reciprocal-w terms of the derivative-based calls, always from
\* register 0, with the given third term.
RW(in, t, third) ==
  <<RDiv(One, RAdd(in.position.w, OriginalD(t, "x", 0)["w"])),
    RDiv(One, RAdd(in.position.w, OriginalD(t, "y", 0)["w"])),
    third>>

\* tex2d(s, coord, ddx, ddy, bias) and texcube(s, coord, ddx, ddy, bias)
Tex2d(in, t, coord, dx, dy)   == Call("sample_2d", coord, dx, dy, RW(in, t, RDiv(One, in.position.w)))
TexCube(in, t, coord, dx, dy) == Call("sample_cube", coord, dx, dy, RW(in, t, RDiv(One, in.position.w)))

\* Mutant of InvQ: no guard against a zero w.
InvQNoZeroCheck(v) == RDiv(One, v["w"])

\* invq of the projective functions: 1 / v.w, or 1 when v.w is zero.
InvQ(v) == IF RatEq(v["w"], Zero) THEN One ELSE RDiv(One, v["w"])

\* tex2dproj(s, v, ddx, ddy): (v * invq).xyz, plus (1, 1, 0, 0), halved,
\* then w set to v.w (what w held before is overwritten); invq replaces
\* 1 / w as the third term.
Tex2dProj(in, t, v, dx, dy) ==
  LET q     == InvQ(v)
      moved == VAdd(Vec(RMul(v["x"], q), RMul(v["y"], q), RMul(v["z"], q), Zero),
                    Vec(One, One, Zero, Zero))
      half  == VDivS(moved, Rat(2, 1))
  IN  Call("sample_2d", [half EXCEPT !["w"] = v["w"]], dx, dy, RW(in, t, q))

\* texcubeproj(s, v, ddx, ddy): xyz scaled by position.w * invq.
TexCubeProj(in, t, v, dx, dy) ==
  LET q == InvQ(v)
      f == RMul(in.position.w, q)
  IN  Call("sample_cube", Vec(RMul(v["x"], f), RMul(v["y"], f), RMul(v["z"], f), v["w"]),
           dx, dy, RW(in, t, q))

\* The explicit-LOD calls: sample(x, y, lod) and sample_cube(x, y, z, lod).
Tex2dLod(in, r) ==
  LET a == in.attributes[r] IN Call("sample", Vec(a["x"], a["y"], Zero, a["w"]), Null, Null, Null)
TexCubeLod(in, r) ==
  LET a == in.attributes[r] IN Call("sample_cube_lod", a, Null, Null, Null)

\* What each callback the user program may make returns (the register
\* forms pass the register's attribute and its original derivatives).
Ops == {"ddx", "ddy", "tex2d", "tex2dlod", "tex2dproj",
        "texcube", "texcubelod", "texcubeproj"}

Callback(op, in, t, r) ==
  LET a  == in.attributes[r]
      ox == OriginalD(t, "x", r)
      oy == OriginalD(t, "y", r)
  IN  CASE op = "ddx"         -> D(in, t, "x", r)
        [] op = "ddy"         -> D(in, t, "y", r)
        [] op = "tex2d"       -> Tex2d(in, t, a, ox, oy)
        [] op = "tex2dlod"    -> Tex2dLod(in, r)
        [] op = "tex2dproj"   -> Tex2dProj(in, t, a, ox, oy)
        [] op = "texcube"     -> TexCube(in, t, a, ox, oy)
        [] op = "texcubelod"  -> TexCubeLod(in, r)
        [] op = "texcubeproj" -> TexCubeProj(in, t, a, ox, oy)

-----------------------------------------------------------------------------
VARIABLES
  slot,      \* slot[s]: the triangle whose records triangle_info s points at
  ptri,      \* ptri[i]: the triangle_info instance i's ptriangleinfo_ is at
  ppxin,     \* ppxin[i]: the input record instance i's ppxin_ points at
  pending,   \* covered pixels not yet handed to a worker
  cur,       \* cur[w]: the pixel worker w is shading, or last shaded
  busy,      \* busy[w]: worker w is inside execute()
  out,       \* out[w]: the ps_output worker w is filling
  last,      \* last[w]: the last callback of w's user program and its result
  shaded     \* shaded[p]: the ps_output execute() returned for p

psVars == <<slot, ptri, ppxin, pending, cur, busy, out, last, shaded>>

Outputs == [depth: UserDepths \cup {Rat(0, 1)} \cup {In(p).position.z : p \in Pixels},
            front_face: BOOLEAN]

PSTypeOK ==
  /\ slot \in [Slots -> Triangles \cup {Null}]
  /\ ptri \in [Instances -> Slots \cup {Null}]
  /\ ppxin \in [Instances -> Pixels \cup {Null}]
  /\ pending \subseteq Pixels
  /\ cur \in [Workers -> Pixels \cup {Null}]
  /\ busy \in [Workers -> BOOLEAN]
  /\ out \in [Workers -> Outputs]
  /\ shaded \in [Pixels -> Outputs \cup {Null}]
  \* every value a callback computed is defined: no division by zero
  /\ \A w \in Workers : last[w] # Null =>
       LET v == last[w].value IN
       IF last[w].op \in {"ddx", "ddy"} THEN IsVec(v)
       ELSE /\ IsVec(v.coord)
            /\ v.rw # Null => \A k \in 1..3 : IsRat(v.rw[k])

PSInit ==
  /\ slot = [s \in Slots |-> Null]
  /\ ptri = [i \in Instances |-> Null]
  /\ ppxin = [i \in Instances |-> Null]
  /\ pending = Pixels
  /\ cur = [w \in Workers |-> Null]
  /\ busy = [w \in Workers |-> FALSE]
  /\ out = [w \in Workers |-> [depth |-> Rat(0, 1), front_face |-> FALSE]]
  /\ last = [w \in Workers |-> Null]
  /\ shaded = [p \in Pixels |-> Null]

\* The triangle_info s is being read by a worker inside execute().
InFlight(s) == \E w \in Workers : busy[w] /\ ptri[Inst[w]] = s

\* Mutant of SetTriangle: refills a triangle_info while it is being read.
SetTriangleInFlight(s, t) ==
  /\ t \in {PixTri[p] : p \in pending}
  /\ slot' = [slot EXCEPT ![s] = t]
  /\ UNCHANGED <<ptri, ppxin, pending, cur, busy, out, last, shaded>>

\* triangle_info::set(base_vert, ddx, ddy): the rasterizer's setup points a
\* triangle_info at a triangle's records, once no worker still reads it.
SetTriangle(s, t) ==
  /\ ~InFlight(s)
  /\ t \in {PixTri[p] : p \in pending}
  /\ slot' = [slot EXCEPT ![s] = t]
  /\ UNCHANGED <<ptri, ppxin, pending, cur, busy, out, last, shaded>>

\* Mutant of BeginExecute: ppxin_ is set only on the instance's first use.
BeginExecuteNoRepoint(w, p, s) ==
  /\ ~busy[w] /\ p \in pending /\ slot[s] = PixTri[p]
  /\ ptri' = [ptri EXCEPT ![Inst[w]] = s]
  /\ ppxin' = [ppxin EXCEPT ![Inst[w]] = IF @ = Null THEN p ELSE @]
  /\ pending' = pending \ {p}
  /\ cur' = [cur EXCEPT ![w] = p]
  /\ busy' = [busy EXCEPT ![w] = TRUE]
  /\ last' = [last EXCEPT ![w] = Null]
  /\ UNCHANGED <<slot, out, shaded>>

\* The rasterizer hands worker w the covered pixel p with the triangle_info
\* s of p's triangle; execute(in, out) asserts ptriangleinfo_ is set and
\* points ppxin_ at in.
BeginExecute(w, p, s) ==
  /\ ~busy[w] /\ p \in pending /\ slot[s] = PixTri[p]
  /\ ptri' = [ptri EXCEPT ![Inst[w]] = s]
  /\ ppxin' = [ppxin EXCEPT ![Inst[w]] = p]
  /\ pending' = pending \ {p}
  /\ cur' = [cur EXCEPT ![w] = p]
  /\ busy' = [busy EXCEPT ![w] = TRUE]
  /\ last' = [last EXCEPT ![w] = Null]
  /\ UNCHANGED <<slot, out, shaded>>

\* The user program calls op on register r: the runtime reads the input
\* through ppxin_ and the triangle through ptriangleinfo_.
UserCallback(w, op, r) ==
  /\ busy[w]
  /\ LET i == Inst[w]
         p == ppxin[i]
         t == slot[ptri[i]]
     IN  last' = [last EXCEPT ![w] =
                    [op |-> op, reg |-> r, px |-> p, tri |-> t,
                     value |-> Callback(op, In(p), t, r)]]
  /\ UNCHANGED <<slot, ptri, ppxin, pending, cur, busy, out, shaded>>

\* The user program writes depth and front_face itself.
UserWrite(w, d, ff) ==
  /\ busy[w]
  /\ out' = [out EXCEPT ![w] = [depth |-> d, front_face |-> ff]]
  /\ UNCHANGED <<slot, ptri, ppxin, pending, cur, busy, last, shaded>>

\* Mutant of EndExecute: front_face is left as the user program wrote it.
EndExecuteKeepFrontFace(w) ==
  /\ busy[w]
  /\ LET o == [out[w] EXCEPT !.depth = In(cur[w]).position.z]
     IN  /\ out' = [out EXCEPT ![w] = o]
         /\ shaded' = [shaded EXCEPT ![cur[w]] = o]
  /\ busy' = [busy EXCEPT ![w] = FALSE]
  /\ UNCHANGED <<slot, ptri, ppxin, pending, cur, last>>

\* shader_prog returns; execute overwrites out.depth with in.position.z and
\* out.front_face with in.front_face, and returns out to the rasterizer.
EndExecute(w) ==
  /\ busy[w]
  /\ LET o == [depth |-> In(cur[w]).position.z, front_face |-> In(cur[w]).front_face]
     IN  /\ out' = [out EXCEPT ![w] = o]
         /\ shaded' = [shaded EXCEPT ![cur[w]] = o]
  /\ busy' = [busy EXCEPT ![w] = FALSE]
  /\ UNCHANGED <<slot, ptri, ppxin, pending, cur, last>>

PSNext ==
  \/ \E s \in Slots, t \in Triangles : SetTriangle(s, t)
  \/ \E w \in Workers :
       \/ \E p \in Pixels, s \in Slots : BeginExecute(w, p, s)
       \/ \E op \in Ops, r \in Regs : UserCallback(w, op, r)
       \/ \E d \in UserDepths, ff \in BOOLEAN : UserWrite(w, d, ff)
       \/ EndExecute(w)

PSSpec == PSInit /\ [][PSNext]_psVars

-----------------------------------------------------------------------------
(* Properties.                                                             *)

\* The reference of spec section 8: the perspective-correct difference of
\* attribute r between p's right (or lower) neighbour and p itself.
RefD(p, dir, r) ==
  LET t  == PixTri[p]
      x  == PixX[p]
      y  == PixY[p]
      nx == IF dir = "x" THEN x + 1 ELSE x
      ny == IF dir = "y" THEN y + 1 ELSE y
  IN  [c \in Comps |->
         RSub(Rat(At(TriAttr[t][r][c], nx, ny), At(TriW[t], nx, ny)),
              Rat(At(TriAttr[t][r][c], x, y), At(TriW[t], x, y)))]

\* Every callback the user program makes reads the pixel being shaded and
\* that pixel's triangle, though other workers repoint their own
\* instances and the rasterizer refills triangle_infos meanwhile
\* (ppxin_ and ptriangleinfo_ read in ddx, ddy and the tex functions).
CallbacksReadOwnPixel ==
  \A w \in Workers : last[w] # Null =>
    /\ last[w].px = cur[w]
    /\ last[w].tri = PixTri[cur[w]]

\* ddx and ddy return the perspective-correct screen-space derivative of
\* the pixel being shaded (pixel_shader::ddx / ddy, spec section 8).
DerivativeCorrect ==
  \A w \in Workers : last[w] # Null /\ last[w].op \in {"ddx", "ddy"} =>
    VecEq(last[w].value,
          RefD(cur[w], IF last[w].op = "ddx" THEN "x" ELSE "y", last[w].reg))

\* The output execute() must return for p: the depth and front_face of
\* p's own input record.
ExpectedOut == [p \in Pixels |-> [depth |-> In(p).position.z,
                                   front_face |-> In(p).front_face]]

\* The refinement mapping: a pixel is still to be shaded while it is
\* pending or a worker is inside execute() on it.
ToShade == pending \cup {cur[w] : w \in {v \in Workers : busy[v]}}

Shading == INSTANCE ShadingSpec WITH
             todo <- ToShade,
             done <- shaded,
             Expected <- ExpectedOut

\* The concurrent runtime implements atomic per-pixel shading: however the
\* workers' execute() calls interleave, each covered pixel is shaded once
\* and execute() returns it the depth and front_face of its own input,
\* whatever the user program wrote (pixel_shader::execute).
ShadingRefinement == Shading!ASpec

\* tex2d(s, register) hands the sampler the register's derivatives
\* computed by 4.2's algorithm (spec 4.2, tex2d).
Tex2dPassesDerivatives ==
  \A w \in Workers : last[w] # Null /\ last[w].op = "tex2d" =>
    /\ VecEq(last[w].value.ddx, RefD(cur[w], "x", last[w].reg))
    /\ VecEq(last[w].value.ddy, RefD(cur[w], "y", last[w].reg))

\* The mip-rate terms the derivative-based samples pass are the reciprocal
\* w of the pixel's right and lower neighbours (spec 4.2: "mip rate
\* approximated from position derivatives").
MipRateFromPosition ==
  \A w \in Workers :
    last[w] # Null /\ last[w].op \notin {"ddx", "ddy"} /\ last[w].value.rw # Null =>
    LET p == cur[w]
        t == PixTri[p]
    IN  /\ RatEq(last[w].value.rw[1], Rat(1, At(TriW[t], PixX[p] + 1, PixY[p])))
        /\ RatEq(last[w].value.rw[2], Rat(1, At(TriW[t], PixX[p], PixY[p] + 1)))

=============================================================================
