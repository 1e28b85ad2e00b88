---------------------------- MODULE SponzaFrame ----------------------------
(***************************************************************************)
(* The frame loop of the BenchmarkSponza sample                            *)
(* (src/samples/BenchmarkSponza/BenchmarkSponza.cpp): initialize(), then   *)
(* NFrames times render_frame(), then save_frame().  render_frame clears  *)
(* the targets, binds the frame's transform and light as vertex-shader    *)
(* variables, and per mesh binds the mesh's material constants and a new  *)
(* sampler into the C++ pixel shader before rendering the mesh.           *)
(*                                                                         *)
(* The renderer keeps what it is given (raw pointers for variables and    *)
(* constants); a draw reads them.  A pointer is modelled by the storage   *)
(* it points at: a local of render_frame for frame f, <<name, f>>, or a   *)
(* field of mesh m's material, <<"mtl", m, field>>.  live holds the       *)
(* storage that exists at the moment.                                      *)
(***************************************************************************)
EXTENDS Naturals

CONSTANTS
  NFrames,   \* frames rendered by run() (60 in the code)
  NMeshes,   \* meshes create_mesh_from_obj loads
  Null

ASSUME SponzaAssumption == NFrames \in Nat \ {0} /\ NMeshes \in Nat \ {0}

Meshes == 1..NMeshes
Frames == 1..NFrames

\* The vertex-shader variables render_frame binds, and the locals of
\* render_frame they point at.
VSVarNames == {"wvpMatrix", "eyePos", "lightPos"}
LocalOf == [n \in VSVarNames |->
              CASE n = "wvpMatrix" -> "wvp"
                [] n = "eyePos"    -> "camera_pos"
                [] n = "lightPos"  -> "lightPos"]
Locals(f) == {<<LocalOf[n], f>> : n \in VSVarNames}

\* The constants benchmark_ps declares, and the material field each one
\* means (obj_material's ambient, diffuse, specular, shininess).
PSConstNames == {"Ambient", "Diffuse", "Specular", "Shininess"}
FieldOf == [n \in PSConstNames |->
              CASE n = "Ambient"   -> "ambient"
                [] n = "Diffuse"   -> "diffuse"
                [] n = "Specular"  -> "specular"
                [] n = "Shininess" -> "shininess"]
Material(m) == {<<"mtl", m, FieldOf[n]>> : n \in PSConstNames}

VARIABLES
  pc,        \* where run() is
  frame,     \* the loop index of run(), plus one
  mesh,      \* the loop index of render_frame's mesh loop, plus one
  vsVar,     \* vsVar[n]: what set_vs_variable last bound n to
  psConst,   \* psConst[n]: what cpp_ps->set_constant last bound n to
  sampler,   \* the sampler cpp_ps->set_sampler last bound: <<m, f>>
  live,      \* the storage that exists
  drawn      \* what the last render() read

sfVars == <<pc, frame, mesh, vsVar, psConst, sampler, live, drawn>>

SFInit ==
  /\ pc = "initialize"
  /\ frame = 1
  /\ mesh = 1
  /\ vsVar = [n \in VSVarNames |-> Null]
  /\ psConst = [n \in PSConstNames |-> Null]
  /\ sampler = Null
  /\ live = {}
  /\ drawn = Null

\* initialize(): render targets, viewport, raster state, the compiled
\* vertex shader, the meshes and their materials, the C++ shaders.
Initialize ==
  /\ pc = "initialize"
  /\ live' = UNION {Material(m) : m \in Meshes}
  /\ pc' = "frame"
  /\ UNCHANGED <<frame, mesh, vsVar, psConst, sampler, drawn>>

\* run()'s loop: begin_frame(), then render_frame() clears the colour and
\* depth-stencil surfaces and its locals come into existence.
BeginFrame ==
  /\ pc = "frame"
  /\ frame <= NFrames
  /\ live' = live \cup Locals(frame)
  /\ pc' = "bind_frame"
  /\ UNCHANGED <<frame, mesh, vsVar, psConst, sampler, drawn>>

\* Mutant of BindFrameState: the transform and light are bound once, in
\* the first frame only.
BindFrameStateFirstOnly ==
  /\ pc = "bind_frame"
  /\ vsVar' = IF frame = 1 THEN [n \in VSVarNames |-> <<LocalOf[n], frame>>]
              ELSE vsVar
  /\ mesh' = 1
  /\ pc' = "mesh"
  /\ UNCHANGED <<frame, psConst, sampler, live, drawn>>

\* set_pixel_shader, set_blend_shader, set_rasterizer_state,
\* set_vertex_shader_code, then set_vs_variable for wvpMatrix, eyePos and
\* lightPos, each the address of a local of this frame.
BindFrameState ==
  /\ pc = "bind_frame"
  /\ vsVar' = [n \in VSVarNames |-> <<LocalOf[n], frame>>]
  /\ mesh' = 1
  /\ pc' = "mesh"
  /\ UNCHANGED <<frame, psConst, sampler, live, drawn>>

\* The material bindings of mesh m, as the code writes them: Shininess is
\* given the address of the material's ambient colour.
MaterialBinding(m) ==
  [n \in PSConstNames |->
     IF n = "Shininess" THEN <<"mtl", m, "ambient">> ELSE <<"mtl", m, FieldOf[n]>>]

\* The mesh loop: set_constant for the four material constants, a new
\* sampler over the material's texture, then render().
BindMaterial ==
  /\ pc = "mesh"
  /\ mesh <= NMeshes
  /\ psConst' = MaterialBinding(mesh)
  /\ sampler' = <<mesh, frame>>
  /\ pc' = "render"
  /\ UNCHANGED <<frame, mesh, vsVar, live, drawn>>

Render ==
  /\ pc = "render"
  /\ drawn' = [mesh |-> mesh, frame |-> frame, vs |-> vsVar,
               ps |-> psConst, sampler |-> sampler, live |-> live]
  /\ mesh' = mesh + 1
  /\ pc' = "mesh"
  /\ UNCHANGED <<frame, vsVar, psConst, sampler, live>>

\* render_frame returns: its locals cease to exist; end_frame().
EndFrame ==
  /\ pc = "mesh"
  /\ mesh > NMeshes
  /\ live' = live \ Locals(frame)
  /\ frame' = frame + 1
  /\ pc' = "frame"
  /\ UNCHANGED <<mesh, vsVar, psConst, sampler, drawn>>

\* After the last frame: save_frame, end_bench, save_results.
SaveFrame ==
  /\ pc = "frame"
  /\ frame > NFrames
  /\ pc' = "done"
  /\ UNCHANGED <<frame, mesh, vsVar, psConst, sampler, live, drawn>>

SFNext ==
  \/ Initialize \/ BeginFrame \/ BindFrameState \/ BindMaterial
  \/ Render \/ EndFrame \/ SaveFrame

SFSpec == SFInit /\ [][SFNext]_sfVars

-----------------------------------------------------------------------------
(* Properties.                                                             *)

\* Every draw reads vertex-shader variables that point at storage that
\* exists during the draw: set_vs_variable holds raw addresses of
\* render_frame's locals, which die when the frame returns.
DrawsReadLiveVariables ==
  drawn # Null => \A n \in VSVarNames : drawn.vs[n] \in drawn.live

\* Every draw of mesh m reads m's material: each pixel-shader constant is
\* bound to the material field it names, and the sampler is the one made
\* for this mesh in this frame.
DrawsReadOwnMaterial ==
  drawn # Null =>
    /\ \A n \in PSConstNames : drawn.ps[n] = <<"mtl", drawn.mesh, FieldOf[n]>>
    /\ drawn.sampler = <<drawn.mesh, drawn.frame>>

=============================================================================
