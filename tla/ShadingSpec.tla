---------------------------- MODULE ShadingSpec ----------------------------
(***************************************************************************)
(* What the pixel-shader runtime promises a draw (spec sections 4.2 and   *)
(* 5), with no workers, instances or triangle_infos: every covered pixel  *)
(* is shaded exactly once, in one atomic step, and the output the         *)
(* rasterizer gets back carries that pixel's own depth and front_face.    *)
(* PixelShader implements this specification under a refinement mapping. *)
(***************************************************************************)
CONSTANTS
  Pixels,     \* the covered pixels of the draw
  Expected,   \* Expected[p]: the output p's input determines
  Null

VARIABLES
  todo,       \* the pixels not yet shaded
  done        \* done[p]: the output returned for p, or Null

avars == <<todo, done>>

AInit ==
  /\ todo = Pixels
  /\ done = [p \in Pixels |-> Null]

\* Pixel p is shaded: it leaves todo and its output is its expected one.
Shade(p) ==
  /\ p \in todo
  /\ todo' = todo \ {p}
  /\ done' = [done EXCEPT ![p] = Expected[p]]

ANext == \E p \in Pixels : Shade(p)

ASpec == AInit /\ [][ANext]_avars

=============================================================================
