----------------------------- MODULE RenderCore -----------------------------
(***************************************************************************)
(* The command dispatcher of salviar, render_core                         *)
(* (src/salviar/src/render_core.cpp).  It holds one render state, set by  *)
(* update(), and execute() dispatches that state's command: a draw pushes *)
(* the state into the five pipeline stages, binds the constant buffers    *)
(* into the vertex and pixel shader instances (apply_shader_cbuffer), and *)
(* then transforms vertices and rasterizes; a clear fills a surface.      *)
(*                                                                         *)
(* The stages themselves are external: a stage is modelled by the state   *)
(* pointer it was last given, and a shader instance by its table of       *)
(* constant and sampler slots.  What vertex transformation and            *)
(* rasterization read during a draw is recorded in the history variable   *)
(* used.  A null dereference is undefined behaviour that crashes the      *)
(* process on the platforms the code is built for: it sets crashed, and a *)
(* crashed process takes no further step.                                 *)
(***************************************************************************)
EXTENDS Integers

CONSTANTS
  CmdIds,        \* the values a command_id can hold
  VSProtos,      \* vertex shader instances (state_->vs_proto)
  PSProtos,      \* pixel shader instances (state_->ps_proto)
  CBuffers,      \* shader_cbuffer objects
  Vars,          \* names of cbuffer variables
  SamplerNames,  \* names of cbuffer samplers
  Samplers,      \* sampler objects
  Targets,       \* surfaces a clear may fill
  Colors,        \* clear colours
  Depths,        \* clear depth values
  Stencils,      \* clear stencil values (uint32_t)
  CBVars,        \* CBVars[cb]: the names in cb->variables()
  CBLen,         \* CBLen[cb][v]: var_data.length of v in cb
  CBSamplers,    \* CBSamplers[cb]: the names in cb->samplers()
  CBSampler,     \* CBSampler[cb][n]: the sampler cb holds under name n
  Reflected,     \* names the vertex shader's reflection has an sv_layout for
  ArrayVars,     \* names whose sv_layout has agg_type == aggt_array
  States,        \* the render states callers hand to update()
  Null           \* the null pointer

DrawCmds  == {"draw", "draw_index"}
KnownCmds == DrawCmds \cup {"clear_color", "clear_depth_stencil"}

\* The members of render_core::stages_ that draw() updates.
Stages == {"assembler", "ras", "vert_cache", "host", "backend"}

Protos == VSProtos \cup PSProtos

RenderStates ==
  [cmd: CmdIds,
   vs_proto: VSProtos \cup {Null}, ps_proto: PSProtos \cup {Null},
   vx_cbuffer: CBuffers \cup {Null}, px_cbuffer: CBuffers \cup {Null},
   clear_color_target: Targets \cup {Null}, clear_ds_target: Targets \cup {Null},
   clear_color: Colors, clear_z: Depths, clear_stencil: Stencils]

ASSUME ConstantsAssumption ==
  /\ KnownCmds \subseteq CmdIds
  /\ VSProtos \cap PSProtos = {}
  /\ Null \notin Protos \cup CBuffers \cup Targets \cup Samplers \cup Colors
  /\ Null \notin Depths /\ Null # "ok" /\ Null # "failed"
  /\ Stencils \subseteq Nat
  /\ CBVars \in [CBuffers -> SUBSET Vars]
  /\ CBLen \in [CBuffers -> [Vars -> Nat \ {0}]]
  /\ CBSamplers \in [CBuffers -> SUBSET SamplerNames]
  /\ CBSampler \in [CBuffers -> [SamplerNames -> Samplers]]
  /\ Reflected \subseteq Vars
  /\ ArrayVars \subseteq Vars
  /\ States \subseteq RenderStates

-----------------------------------------------------------------------------
(* Data written by the operations.                                         *)

\* No length given: what set_variable leaves in the length of a slot.
NoLen == -1

\* cb->data_pointer(var_data): the address of v in cb's backing store.
Address(cb, v) == <<cb, v>>

\* shader->set_variable(name, addr) and set_variable_pointer(name, addr, len).
SetVariable(cb, v)        == [addr |-> Address(cb, v), len |-> NoLen]
\* Mutant of SetVariablePointer: passes the last index, not the count.
SetVariablePointerLastIndex(cb, v) ==
  [addr |-> Address(cb, v), len |-> CBLen[cb][v] - 1]

SetVariablePointer(cb, v) == [addr |-> Address(cb, v), len |-> CBLen[cb][v]]

Bindings == [addr: CBuffers \X Vars, len: (Nat \ {0}) \cup {NoLen}]

\* *reinterpret_cast<float*>(&clear_stencil): the float whose bit pattern
\* is the stencil value's 32 bits (not the float nearest the value).
FloatFromBits(s) == [bits |-> s]

\* color_rgba32f(clear_z, <stencil as float>, 0.0f, 0.0f)
DSTexel(z, s) == <<z, FloatFromBits(s), 0, 0>>

Texels == Colors \cup {DSTexel(z, s) : z \in Depths, s \in Stencils}

-----------------------------------------------------------------------------
VARIABLES
  state_,     \* render_core::state_
  stage,      \* stage[g]: the render state stage g was last updated with
  varSlot,    \* varSlot[p][v]: what shader instance p has bound for v
  sampSlot,   \* sampSlot[p][n]: the sampler instance p has bound for n
  texels,     \* texels[t]: the value a clear last filled surface t with
  ret,        \* what the last call returned (Null for update())
  crashed,    \* the process has dereferenced a null pointer
  used        \* what the last draw's vertex transform and rasterizer read

vars == <<state_, stage, varSlot, sampSlot, texels, ret, crashed, used>>

\* What shader instance p exposes: its slot table, or Null with no instance.
ViewOf(tbl, p) == IF p = Null THEN Null ELSE tbl[p]

UsedRecords ==
  [drawn: RenderStates, stages: [Stages -> RenderStates],
   vs: [Vars -> Bindings \cup {Null}] \cup {Null},
   vsSamp: [SamplerNames -> Samplers \cup {Null}] \cup {Null},
   ps: [Vars -> Bindings \cup {Null}] \cup {Null},
   psSamp: [SamplerNames -> Samplers \cup {Null}] \cup {Null}]

TypeOK ==
  /\ state_ \in States \cup {Null}
  /\ stage \in [Stages -> States \cup {Null}]
  /\ varSlot \in [Protos -> [Vars -> Bindings \cup {Null}]]
  /\ sampSlot \in [Protos -> [SamplerNames -> Samplers \cup {Null}]]
  /\ texels \in [Targets -> Texels \cup {Null}]
  /\ ret \in {"ok", "failed", Null}
  /\ crashed \in BOOLEAN
  /\ used \in UsedRecords \cup {Null}

\* After construction: the stages are created and wired, nothing is bound.
Init ==
  /\ state_ = Null
  /\ stage = [g \in Stages |-> Null]
  /\ varSlot = [p \in Protos |-> [v \in Vars |-> Null]]
  /\ sampSlot = [p \in Protos |-> [n \in SamplerNames |-> Null]]
  /\ texels = [t \in Targets |-> Null]
  /\ ret = Null
  /\ crashed = FALSE
  /\ used = Null

-----------------------------------------------------------------------------
(* apply_shader_cbuffer                                                    *)

\* The vertex-stage loop over vx_cbuffer->variables(): an array is bound
\* with its address and length, anything else with its address.
BindVSVars(tbl, cb) ==
  [v \in Vars |->
     IF v \notin CBVars[cb] THEN tbl[v]
     ELSE IF v \in ArrayVars THEN SetVariablePointer(cb, v)
     ELSE SetVariable(cb, v)]

\* The pixel-stage loop over px_cbuffer->variables(): address only.
BindPSVars(tbl, cb) ==
  [v \in Vars |-> IF v \in CBVars[cb] THEN SetVariable(cb, v) ELSE tbl[v]]

\* The loops over cb->samplers(), the same for both stages.
BindSamplers(tbl, cb) ==
  [n \in SamplerNames |-> IF n \in CBSamplers[cb] THEN CBSampler[cb][n] ELSE tbl[n]]

\* A null dereference inside apply_shader_cbuffer: a bound shader whose
\* cbuffer is null, or a variable the reflection has no sv_layout for.  A
\* null get_reflection() faults at the first variable just as a reflection
\* with no layouts does, so it is the case of a cbuffer outside Reflected.
CBufferFault(st) ==
  \/ st.vs_proto # Null /\ st.vx_cbuffer = Null
  \/ /\ st.vs_proto # Null /\ st.vx_cbuffer # Null
     /\ ~(CBVars[st.vx_cbuffer] \subseteq Reflected)
  \/ st.ps_proto # Null /\ st.px_cbuffer = Null

\* Both stages' bindings, each done only when the stage has an instance.
ApplyVars(tbl, st) ==
  LET afterVS == IF st.vs_proto = Null THEN tbl
                 ELSE [tbl EXCEPT ![st.vs_proto] = BindVSVars(@, st.vx_cbuffer)]
  IN  IF st.ps_proto = Null THEN afterVS
      ELSE [afterVS EXCEPT ![st.ps_proto] = BindPSVars(@, st.px_cbuffer)]

ApplySamplers(tbl, st) ==
  LET afterVS == IF st.vs_proto = Null THEN tbl
                 ELSE [tbl EXCEPT ![st.vs_proto] = BindSamplers(@, st.vx_cbuffer)]
  IN  IF st.ps_proto = Null THEN afterVS
      ELSE [afterVS EXCEPT ![st.ps_proto] = BindSamplers(@, st.px_cbuffer)]

-----------------------------------------------------------------------------
(* The operations.                                                         *)

\* The five stages_.X->update(state_.get()) calls of draw().
UpdateStages(stg, st) == [g \in Stages |-> st]

\* render_core::update(state): state_ = state.
Update(s) ==
  /\ ~crashed
  /\ state_' = s
  /\ ret' = Null
  /\ UNCHANGED <<stage, varSlot, sampSlot, texels, crashed, used>>

\* execute() with no state set: state_->cmd dereferences null.
ExecuteNoState ==
  /\ ~crashed
  /\ state_ = Null
  /\ crashed' = TRUE
  /\ UNCHANGED <<state_, stage, varSlot, sampSlot, texels, ret, used>>

\* draw(): update the stages, bind the cbuffers, transform, rasterize.
\* Vertex transformation and rasterization read the stages and the
\* bindings after both; used records what they read.  A fault inside
\* apply_shader_cbuffer leaves the process dead after the stage updates.
DoDraw ==
  LET st  == state_
      stg == UpdateStages(stage, st)
  IN  /\ stage' = stg
      /\ \/ /\ CBufferFault(st)
            /\ crashed' = TRUE
            /\ UNCHANGED <<state_, varSlot, sampSlot, texels, ret, used>>
         \/ /\ ~CBufferFault(st)
            /\ varSlot' = ApplyVars(varSlot, st)
            /\ sampSlot' = ApplySamplers(sampSlot, st)
            /\ used' = [drawn |-> st, stages |-> stg,
                        vs |-> ViewOf(varSlot', st.vs_proto),
                        vsSamp |-> ViewOf(sampSlot', st.vs_proto),
                        ps |-> ViewOf(varSlot', st.ps_proto),
                        psSamp |-> ViewOf(sampSlot', st.ps_proto)]
            /\ ret' = "ok"
            /\ UNCHANGED <<state_, texels, crashed>>

\* clear_color(): clear_color_target->fill_texels(clear_color).
DoClearColor ==
  LET t == state_.clear_color_target
  IN  \/ /\ t = Null
         /\ crashed' = TRUE
         /\ UNCHANGED <<state_, stage, varSlot, sampSlot, texels, ret, used>>
      \/ /\ t # Null
         /\ texels' = [texels EXCEPT ![t] = state_.clear_color]
         /\ ret' = "ok"
         /\ UNCHANGED <<state_, stage, varSlot, sampSlot, crashed, used>>

\* Mutant of DoClearDepthStencil: fills clear_color_target instead.
DoClearDepthStencilWrongTarget ==
  LET t == state_.clear_color_target
  IN  \/ /\ t = Null
         /\ crashed' = TRUE
         /\ UNCHANGED <<state_, stage, varSlot, sampSlot, texels, ret, used>>
      \/ /\ t # Null
         /\ texels' = [texels EXCEPT ![t] =
                         DSTexel(state_.clear_z, state_.clear_stencil)]
         /\ ret' = "ok"
         /\ UNCHANGED <<state_, stage, varSlot, sampSlot, crashed, used>>

\* clear_depth_stencil(): clear_ds_target->fill_texels(ds_color).
DoClearDepthStencil ==
  LET t == state_.clear_ds_target
  IN  \/ /\ t = Null
         /\ crashed' = TRUE
         /\ UNCHANGED <<state_, stage, varSlot, sampSlot, texels, ret, used>>
      \/ /\ t # Null
         /\ texels' = [texels EXCEPT ![t] =
                         DSTexel(state_.clear_z, state_.clear_stencil)]
         /\ ret' = "ok"
         /\ UNCHANGED <<state_, stage, varSlot, sampSlot, crashed, used>>

\* The switch of execute(), one action per arm.
ExecuteDraw ==
  /\ ~crashed /\ state_ # Null /\ state_.cmd \in DrawCmds
  /\ DoDraw

ExecuteClearColor ==
  /\ ~crashed /\ state_ # Null /\ state_.cmd = "clear_color"
  /\ DoClearColor

ExecuteClearDepthStencil ==
  /\ ~crashed /\ state_ # Null /\ state_.cmd = "clear_depth_stencil"
  /\ DoClearDepthStencil

\* A command outside the switch: return result::failed.
ExecuteUnknown ==
  /\ ~crashed /\ state_ # Null /\ state_.cmd \notin KnownCmds
  /\ ret' = "failed"
  /\ UNCHANGED <<state_, stage, varSlot, sampSlot, texels, crashed, used>>

Execute ==
  \/ ExecuteNoState
  \/ ExecuteDraw
  \/ ExecuteClearColor
  \/ ExecuteClearDepthStencil
  \/ ExecuteUnknown

Next ==
  \/ \E s \in States : Update(s)
  \/ Execute

Spec == Init /\ [][Next]_vars

-----------------------------------------------------------------------------
(* Properties.                                                             *)

\* The surface a clear command fills.
ClearTarget(st) ==
  IF st.cmd = "clear_color" THEN st.clear_color_target ELSE st.clear_ds_target

ClearCmds == {"clear_color", "clear_depth_stencil"}

\* Every execute() that returns does what its command documents
\* (spec 8, command dispatch totality): a draw returns ok and writes no
\* surface itself; a clear returns ok, leaves stages and shader bindings
\* alone and changes no surface but its own target; any other command
\* returns failed and changes nothing.
CommandEffect ==
  ret' # Null =>
    \/ /\ state_.cmd \in DrawCmds
       /\ ret' = "ok"
       /\ texels' = texels
    \/ /\ state_.cmd \in ClearCmds
       /\ ret' = "ok"
       /\ UNCHANGED <<stage, varSlot, sampSlot, used>>
       /\ \A t \in Targets : texels'[t] # texels[t] => t = ClearTarget(state_)
    \/ /\ state_.cmd \notin KnownCmds
       /\ ret' = "failed"
       /\ UNCHANGED <<stage, varSlot, sampSlot, texels, used>>

\* Every step of the dispatcher, execute() and update() alike, keeps to
\* CommandEffect: no execute() returns a result its command does not document.
CommandEffects == [][CommandEffect]_vars

\* Spec 7: execute() issued before any update() reports failure through
\* its result instead of faulting (render_core::execute reads state_->cmd).
ExecuteWithoutStateFails ==
  [][~crashed /\ state_ = Null => ~crashed']_vars

\* Spec 7: a clear against an unbound target reports failure instead of
\* faulting (clear_color / clear_depth_stencil call fill_texels on it).
UnboundClearFails ==
  [][(/\ ~crashed /\ state_ # Null /\ state_.cmd \in ClearCmds
      /\ ClearTarget(state_) = Null) => ~crashed']_vars

\* Spec 8, constant binding determinism: rebinding a different cbuffer
\* replaces the prior bindings with no residue, so every variable slot a
\* draw's shaders read points into that draw's own cbuffer.
NoResidue ==
  used # Null =>
    /\ used.drawn.vs_proto # Null =>
         \A v \in Vars : used.vs[v] # Null =>
           used.vs[v].addr[1] = used.drawn.vx_cbuffer
    /\ used.drawn.ps_proto # Null =>
         \A v \in Vars : used.ps[v] # Null =>
           used.ps[v].addr[1] = used.drawn.px_cbuffer

\* Spec 4.3: in every stage, a variable the reflection calls an array is
\* bound with its element count as well as its address.
ArraysBoundWithLength ==
  used # Null =>
    /\ used.drawn.vs_proto # Null =>
         \A v \in CBVars[used.drawn.vx_cbuffer] \cap ArrayVars :
           used.vs[v].len = CBLen[used.drawn.vx_cbuffer][v]
    /\ used.drawn.ps_proto # Null =>
         \A v \in CBVars[used.drawn.px_cbuffer] \cap ArrayVars :
           used.ps[v].len = CBLen[used.drawn.px_cbuffer][v]

=============================================================================
