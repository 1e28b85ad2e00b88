---------------------------- MODULE MCRenderCore ----------------------------
(***************************************************************************)
(* A small instance of RenderCore for TLC: one vertex and one pixel       *)
(* shader instance; three cbuffers (cb1 holds an array a of 4, a scalar b *)
(* and a sampler; cb2 an array a of 1 and another sampler; cb3 a variable *)
(* c that no shader reflection knows); two surfaces; and the render       *)
(* states a renderer would submit.                                         *)
(***************************************************************************)
EXTENDS RenderCore, TLC

CONSTANTS vp, pp, cb1, cb2, cb3, a, b, c, smp, smp1, smp2, t1, t2, c1, c2

MCCmdIds == {"draw", "draw_index", "clear_color", "clear_depth_stencil",
             "out_of_range"}

MCCBVars    == (cb1 :> {a, b}) @@ (cb2 :> {a}) @@ (cb3 :> {c})
MCCBLen     == [cb \in {cb1, cb2, cb3} |->
                 [v \in {a, b, c} |-> IF cb = cb1 /\ v = a THEN 4 ELSE 1]]
MCCBSamplers == (cb1 :> {smp}) @@ (cb2 :> {smp}) @@ (cb3 :> {})
MCCBSampler == (cb1 :> (smp :> smp1)) @@ (cb2 :> (smp :> smp2)) @@ (cb3 :> (smp :> smp1))

\* A render state with the fields a given command does not read set to
\* their defaults.
St(cmd, vs, ps, vx, px, ct, dst, col, z, s) ==
  [cmd |-> cmd, vs_proto |-> vs, ps_proto |-> ps,
   vx_cbuffer |-> vx, px_cbuffer |-> px,
   clear_color_target |-> ct, clear_ds_target |-> dst,
   clear_color |-> col, clear_z |-> z, clear_stencil |-> s]

\* Draws: with or without a pixel shader, each stage with either cbuffer.
MCDrawStates ==
  {St(cmd, vp, ps, vx, px, Null, Null, c1, 0, 0) :
     cmd \in {"draw", "draw_index"}, ps \in {pp, Null},
     vx \in {cb1, cb2}, px \in {cb1, cb2}}

\* Clears of either surface with either value, the state naming the
\* other surface as the other kind of target; one unknown command.
Other(t) == IF t = t1 THEN t2 ELSE t1

MCClearStates ==
  {St("clear_color", Null, Null, Null, Null, t, Other(t), col, 0, 0) :
     t \in {t1, t2}, col \in {c1, c2}}
  \cup
  {St("clear_depth_stencil", Null, Null, Null, Null, Other(t), t, c1, z, s) :
     t \in {t1, t2}, z \in {0, 1}, s \in {0, 255}}
  \cup
  {St("out_of_range", vp, pp, cb1, cb1, t1, t2, c1, 0, 0)}

MCStates == MCDrawStates \cup MCClearStates

\* For the runs about faults: clears whose target is unbound.
MCUnboundClearStates ==
  MCStates \cup
  {St("clear_color", Null, Null, Null, Null, Null, Null, c1, 0, 0),
   St("clear_depth_stencil", Null, Null, Null, Null, Null, Null, c1, 0, 0)}

\* For the run through the fault paths: besides the unbound clears,
\* draws whose bound shader has no cbuffer, and one whose vertex cbuffer
\* holds a variable c the shader's reflection has no sv_layout for.
MCFaultStates ==
  MCUnboundClearStates \cup
  {St("draw", vp, Null, Null, Null, Null, Null, c1, 0, 0),
   St("draw", vp, pp, cb1, Null, Null, Null, c1, 0, 0),
   St("draw", vp, Null, cb3, Null, Null, Null, c1, 0, 0)}

=============================================================================
