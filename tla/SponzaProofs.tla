----------------------------- MODULE SponzaProofs -----------------------------
(***************************************************************************)
(* Proofs about BenchmarkSponza's frame loop (SponzaFrame) for every      *)
(* number of frames and meshes: every draw reads vertex-shader variables  *)
(* that point at storage alive during the draw.                            *)
(***************************************************************************)
EXTENDS SponzaFrame, TLAPS

\* From the moment render_frame binds the frame state until it returns,
\* its locals are alive and the vertex-shader variables point at them.
FrameLocalsBound ==
  /\ pc \in {"bind_frame", "mesh", "render"} => Locals(frame) \subseteq live
  /\ pc \in {"mesh", "render"} =>
       \A n \in VSVarNames : vsVar[n] = <<LocalOf[n], frame>>

LInv == FrameLocalsBound /\ DrawsReadLiveVariables

LEMMA InitLInv == SFInit => LInv
BY DEF SFInit, LInv, FrameLocalsBound, DrawsReadLiveVariables

\* A vertex-shader variable bound to frame f's local points into Locals(f).
LEMMA LocalInLocals ==
  ASSUME NEW f, NEW n \in VSVarNames
  PROVE  <<LocalOf[n], f>> \in Locals(f)
BY DEF Locals

LEMMA NextLInv == LInv /\ [SFNext]_sfVars => LInv'
<1> SUFFICES ASSUME LInv, [SFNext]_sfVars PROVE LInv'
  OBVIOUS
<1>1. CASE Initialize
  BY <1>1 DEF Initialize, LInv, FrameLocalsBound, DrawsReadLiveVariables
<1>2. CASE BeginFrame
  BY <1>2 DEF BeginFrame, LInv, FrameLocalsBound, DrawsReadLiveVariables
<1>3. CASE BindFrameState
  BY <1>3 DEF BindFrameState, LInv, FrameLocalsBound, DrawsReadLiveVariables
<1>4. CASE BindMaterial
  BY <1>4 DEF BindMaterial, LInv, FrameLocalsBound, DrawsReadLiveVariables
<1>5. CASE Render
  <2>1. \A n \in VSVarNames : vsVar[n] \in live
    BY <1>5, LocalInLocals DEF Render, LInv, FrameLocalsBound
  <2>2. DrawsReadLiveVariables'
    BY <1>5, <2>1 DEF Render, DrawsReadLiveVariables
  <2>3. FrameLocalsBound'
    BY <1>5 DEF Render, LInv, FrameLocalsBound
  <2> QED
    BY <2>2, <2>3 DEF LInv
<1>6. CASE EndFrame
  BY <1>6 DEF EndFrame, LInv, FrameLocalsBound, DrawsReadLiveVariables
<1>7. CASE SaveFrame
  BY <1>7 DEF SaveFrame, LInv, FrameLocalsBound, DrawsReadLiveVariables
<1>8. CASE UNCHANGED sfVars
  BY <1>8 DEF sfVars, LInv, FrameLocalsBound, DrawsReadLiveVariables
<1> QED
  BY <1>1, <1>2, <1>3, <1>4, <1>5, <1>6, <1>7, <1>8 DEF SFNext

\* For any number of frames and meshes: the raw addresses set_vs_variable
\* keeps for wvpMatrix, eyePos and lightPos point, at every render(), at
\* locals of the render_frame call still running, although the bindings
\* outlive each frame.
THEOREM DrawsReadLiveVariablesHolds == SFSpec => []DrawsReadLiveVariables
<1>1. SFInit => LInv
  BY InitLInv
<1>2. LInv /\ [SFNext]_sfVars => LInv'
  BY NextLInv
<1>3. LInv => DrawsReadLiveVariables
  BY DEF LInv
<1> QED
  BY <1>1, <1>2, <1>3, PTL DEF SFSpec

=============================================================================
