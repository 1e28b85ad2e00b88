-------------------------- MODULE RenderCoreProofs --------------------------
(***************************************************************************)
(* Proofs about RenderCore for every value of its constants: the type     *)
(* invariant, the lemmas on the binding loops of apply_shader_cbuffer,    *)
(* and that every execute() keeps to what its command documents           *)
(* (CommandEffects).                                                       *)
(***************************************************************************)
EXTENDS RenderCore, TLAPS

VarTable  == [Vars -> Bindings \cup {Null}]
SampTable == [SamplerNames -> Samplers \cup {Null}]

-----------------------------------------------------------------------------
(* The binding loops.                                                      *)

\* Each loop of apply_shader_cbuffer keeps a slot table well typed.
LEMMA BindVSVarsType ==
  ASSUME NEW tbl \in VarTable, NEW cb \in CBuffers
  PROVE  BindVSVars(tbl, cb) \in VarTable
<1>1. \A v \in Vars : CBLen[cb][v] \in Nat \ {0}
  BY ConstantsAssumption
<1>2. \A v \in Vars : SetVariable(cb, v) \in Bindings
                      /\ SetVariablePointer(cb, v) \in Bindings
  BY <1>1 DEF SetVariable, SetVariablePointer, Bindings, Address, NoLen
<1>. QED
  BY <1>2 DEF BindVSVars, VarTable

LEMMA BindPSVarsType ==
  ASSUME NEW tbl \in VarTable, NEW cb \in CBuffers
  PROVE  BindPSVars(tbl, cb) \in VarTable
<1>1. \A v \in Vars : SetVariable(cb, v) \in Bindings
  BY DEF SetVariable, Bindings, Address, NoLen
<1>. QED
  BY <1>1 DEF BindPSVars, VarTable

LEMMA BindSamplersType ==
  ASSUME NEW tbl \in SampTable, NEW cb \in CBuffers
  PROVE  BindSamplers(tbl, cb) \in SampTable
BY ConstantsAssumption DEF BindSamplers, SampTable

\* Binding the same cbuffer twice in a row leaves what binding it once
\* leaves (spec 8, constant binding determinism).
LEMMA BindVSVarsIdempotent ==
  ASSUME NEW tbl \in VarTable, NEW cb \in CBuffers
  PROVE  BindVSVars(BindVSVars(tbl, cb), cb) = BindVSVars(tbl, cb)
BY DEF BindVSVars, VarTable

LEMMA BindPSVarsIdempotent ==
  ASSUME NEW tbl \in VarTable, NEW cb \in CBuffers
  PROVE  BindPSVars(BindPSVars(tbl, cb), cb) = BindPSVars(tbl, cb)
BY DEF BindPSVars, VarTable

\* With no fault, a bound shader's cbuffer is not null.
LEMMA NoFaultCBuffers ==
  ASSUME NEW st \in RenderStates, ~CBufferFault(st)
  PROVE  /\ st.vs_proto # Null => st.vx_cbuffer \in CBuffers
         /\ st.ps_proto # Null => st.px_cbuffer \in CBuffers
BY DEF CBufferFault, RenderStates

\* apply_shader_cbuffer leaves each instance's table well typed, and the
\* vertex and pixel instances each hold their own stage's loop result:
\* the pixel loop does not overwrite the vertex instance.
LEMMA ApplyVarsFacts ==
  ASSUME NEW tbl \in [Protos -> VarTable], NEW st \in RenderStates,
         ~CBufferFault(st)
  PROVE  /\ ApplyVars(tbl, st) \in [Protos -> VarTable]
         /\ st.vs_proto # Null =>
              ApplyVars(tbl, st)[st.vs_proto]
                = BindVSVars(tbl[st.vs_proto], st.vx_cbuffer)
         /\ st.ps_proto # Null =>
              ApplyVars(tbl, st)[st.ps_proto]
                = BindPSVars(tbl[st.ps_proto], st.px_cbuffer)
<1>1. /\ st.vs_proto # Null => st.vx_cbuffer \in CBuffers
      /\ st.ps_proto # Null => st.px_cbuffer \in CBuffers
  BY NoFaultCBuffers
<1>2. /\ st.vs_proto \in VSProtos \cup {Null}
      /\ st.ps_proto \in PSProtos \cup {Null}
  BY DEF RenderStates
<1>3. st.vs_proto # Null /\ st.ps_proto # Null => st.vs_proto # st.ps_proto
  BY <1>2, ConstantsAssumption
<1>. DEFINE afterVS == IF st.vs_proto = Null THEN tbl
                       ELSE [tbl EXCEPT ![st.vs_proto] =
                               BindVSVars(@, st.vx_cbuffer)]
<1>4. /\ afterVS \in [Protos -> VarTable]
      /\ st.vs_proto # Null =>
           afterVS[st.vs_proto] = BindVSVars(tbl[st.vs_proto], st.vx_cbuffer)
      /\ st.ps_proto # Null => afterVS[st.ps_proto] = tbl[st.ps_proto]
  <2>1. CASE st.vs_proto = Null
    BY <2>1
  <2>2. CASE st.vs_proto # Null
    <3>1. BindVSVars(tbl[st.vs_proto], st.vx_cbuffer) \in VarTable
      BY <2>2, <1>1, <1>2, BindVSVarsType DEF Protos
    <3>. QED
      BY <2>2, <3>1, <1>2, <1>3 DEF Protos
  <2>. QED
    BY <2>1, <2>2
<1>5. ApplyVars(tbl, st) = IF st.ps_proto = Null THEN afterVS
                           ELSE [afterVS EXCEPT ![st.ps_proto] =
                                   BindPSVars(@, st.px_cbuffer)]
  BY DEF ApplyVars
<1>6. CASE st.ps_proto = Null
  BY <1>4, <1>5, <1>6
<1>7. CASE st.ps_proto # Null
  <2>1. BindPSVars(afterVS[st.ps_proto], st.px_cbuffer) \in VarTable
    BY <1>7, <1>1, <1>2, <1>4, BindPSVarsType DEF Protos
  <2>. QED
    BY <1>7, <2>1, <1>2, <1>3, <1>4, <1>5 DEF Protos
<1>. QED
  BY <1>6, <1>7

LEMMA ApplySamplersFacts ==
  ASSUME NEW tbl \in [Protos -> SampTable], NEW st \in RenderStates,
         ~CBufferFault(st)
  PROVE  /\ ApplySamplers(tbl, st) \in [Protos -> SampTable]
         /\ st.vs_proto # Null =>
              ApplySamplers(tbl, st)[st.vs_proto]
                = BindSamplers(tbl[st.vs_proto], st.vx_cbuffer)
         /\ st.ps_proto # Null =>
              ApplySamplers(tbl, st)[st.ps_proto]
                = BindSamplers(tbl[st.ps_proto], st.px_cbuffer)
<1>1. /\ st.vs_proto # Null => st.vx_cbuffer \in CBuffers
      /\ st.ps_proto # Null => st.px_cbuffer \in CBuffers
  BY NoFaultCBuffers
<1>2. /\ st.vs_proto \in VSProtos \cup {Null}
      /\ st.ps_proto \in PSProtos \cup {Null}
  BY DEF RenderStates
<1>3. st.vs_proto # Null /\ st.ps_proto # Null => st.vs_proto # st.ps_proto
  BY <1>2, ConstantsAssumption
<1>. DEFINE afterVS == IF st.vs_proto = Null THEN tbl
                       ELSE [tbl EXCEPT ![st.vs_proto] =
                               BindSamplers(@, st.vx_cbuffer)]
<1>4. /\ afterVS \in [Protos -> SampTable]
      /\ st.vs_proto # Null =>
           afterVS[st.vs_proto] = BindSamplers(tbl[st.vs_proto], st.vx_cbuffer)
      /\ st.ps_proto # Null => afterVS[st.ps_proto] = tbl[st.ps_proto]
  <2>1. CASE st.vs_proto = Null
    BY <2>1
  <2>2. CASE st.vs_proto # Null
    <3>1. BindSamplers(tbl[st.vs_proto], st.vx_cbuffer) \in SampTable
      BY <2>2, <1>1, <1>2, BindSamplersType DEF Protos
    <3>. QED
      BY <2>2, <3>1, <1>2, <1>3 DEF Protos
  <2>. QED
    BY <2>1, <2>2
<1>5. ApplySamplers(tbl, st) = IF st.ps_proto = Null THEN afterVS
                               ELSE [afterVS EXCEPT ![st.ps_proto] =
                                       BindSamplers(@, st.px_cbuffer)]
  BY DEF ApplySamplers
<1>6. CASE st.ps_proto = Null
  BY <1>4, <1>5, <1>6
<1>7. CASE st.ps_proto # Null
  <2>1. BindSamplers(afterVS[st.ps_proto], st.px_cbuffer) \in SampTable
    BY <1>7, <1>1, <1>2, <1>4, BindSamplersType DEF Protos
  <2>. QED
    BY <1>7, <2>1, <1>2, <1>3, <1>4, <1>5 DEF Protos
<1>. QED
  BY <1>6, <1>7

-----------------------------------------------------------------------------
(* Type correctness.                                                       *)

LEMMA InitTypeOK == Init => TypeOK
BY DEF Init, TypeOK, Protos

\* The facts about one draw that do not fault, used by both invariants.
LEMMA DrawStepFacts ==
  ASSUME TypeOK, ExecuteDraw, ~CBufferFault(state_)
  PROVE  /\ state_ \in States
         /\ varSlot' = ApplyVars(varSlot, state_)
         /\ sampSlot' = ApplySamplers(sampSlot, state_)
         /\ used' = [drawn |-> state_, stages |-> [g \in Stages |-> state_],
                     vs |-> ViewOf(varSlot', state_.vs_proto),
                     vsSamp |-> ViewOf(sampSlot', state_.vs_proto),
                     ps |-> ViewOf(varSlot', state_.ps_proto),
                     psSamp |-> ViewOf(sampSlot', state_.ps_proto)]
         /\ stage' = [g \in Stages |-> state_]
         /\ UNCHANGED <<state_, texels, crashed>>
         /\ ret' = "ok"
BY DEF TypeOK, ExecuteDraw, DoDraw, UpdateStages

LEMMA DrawTypeOK ==
  ASSUME TypeOK, ExecuteDraw
  PROVE  TypeOK'
<1>1. state_ \in States /\ state_ \in RenderStates
  BY ConstantsAssumption DEF TypeOK, ExecuteDraw
<1>2. CASE CBufferFault(state_)
  BY <1>1, <1>2 DEF TypeOK, ExecuteDraw, DoDraw, UpdateStages
<1>3. CASE ~CBufferFault(state_)
  <2>1. varSlot \in [Protos -> VarTable] /\ sampSlot \in [Protos -> SampTable]
    BY DEF TypeOK, VarTable, SampTable
  <2>2. varSlot' \in [Protos -> VarTable] /\ sampSlot' \in [Protos -> SampTable]
    BY <1>1, <1>3, <2>1, DrawStepFacts, ApplyVarsFacts, ApplySamplersFacts
  <2>3. /\ state_.vs_proto \in VSProtos \cup {Null}
        /\ state_.ps_proto \in PSProtos \cup {Null}
    BY <1>1 DEF RenderStates
  <2>4. /\ ViewOf(varSlot', state_.vs_proto) \in VarTable \cup {Null}
        /\ ViewOf(varSlot', state_.ps_proto) \in VarTable \cup {Null}
        /\ ViewOf(sampSlot', state_.vs_proto) \in SampTable \cup {Null}
        /\ ViewOf(sampSlot', state_.ps_proto) \in SampTable \cup {Null}
    BY <2>2, <2>3 DEF ViewOf, Protos
  <2>5. used' \in UsedRecords
    BY <1>1, <1>3, <2>4, DrawStepFacts DEF UsedRecords, VarTable, SampTable
  <2>. QED
    BY <1>1, <1>3, <2>2, <2>5, DrawStepFacts DEF TypeOK, VarTable, SampTable
<1>. QED
  BY <1>2, <1>3

LEMMA ClearTypeOK ==
  ASSUME TypeOK, ExecuteClearColor \/ ExecuteClearDepthStencil
  PROVE  TypeOK'
<1>1. state_ \in RenderStates
  BY ConstantsAssumption DEF TypeOK, ExecuteClearColor, ExecuteClearDepthStencil
<1>2. /\ state_.clear_color \in Colors
      /\ DSTexel(state_.clear_z, state_.clear_stencil) \in Texels
      /\ state_.clear_color_target \in Targets \cup {Null}
      /\ state_.clear_ds_target \in Targets \cup {Null}
  BY <1>1 DEF RenderStates, Texels
<1>3. CASE ExecuteClearColor
  <2>1. CASE state_.clear_color_target = Null
    BY <1>3, <2>1 DEF TypeOK, ExecuteClearColor, DoClearColor
  <2>2. CASE state_.clear_color_target # Null
    <3>1. texels' = [texels EXCEPT ![state_.clear_color_target] = state_.clear_color]
      BY <1>3, <2>2 DEF ExecuteClearColor, DoClearColor
    <3>2. state_.clear_color \in Texels
      BY <1>2 DEF Texels
    <3>3. texels' \in [Targets -> Texels \cup {Null}]
      BY <3>1, <3>2, <2>2, <1>2 DEF TypeOK
    <3>. QED
      BY <1>3, <2>2, <3>3 DEF TypeOK, ExecuteClearColor, DoClearColor
  <2>. QED
    BY <2>1, <2>2
<1>4. CASE ExecuteClearDepthStencil
  <2>1. CASE state_.clear_ds_target = Null
    BY <1>4, <2>1 DEF TypeOK, ExecuteClearDepthStencil, DoClearDepthStencil
  <2>2. CASE state_.clear_ds_target # Null
    <3>1. texels' = [texels EXCEPT ![state_.clear_ds_target] =
                       DSTexel(state_.clear_z, state_.clear_stencil)]
      BY <1>4, <2>2 DEF ExecuteClearDepthStencil, DoClearDepthStencil
    <3>2. texels' \in [Targets -> Texels \cup {Null}]
      BY <3>1, <2>2, <1>2 DEF TypeOK
    <3>. QED
      BY <1>4, <2>2, <3>2 DEF TypeOK, ExecuteClearDepthStencil, DoClearDepthStencil
  <2>. QED
    BY <2>1, <2>2
<1>. QED
  BY <1>3, <1>4

LEMMA NextTypeOK == TypeOK /\ [Next]_vars => TypeOK'
<1> SUFFICES ASSUME TypeOK, [Next]_vars PROVE TypeOK'
  OBVIOUS
<1>1. ASSUME NEW s \in States, Update(s) PROVE TypeOK'
  BY <1>1 DEF Update, TypeOK
<1>2. CASE ExecuteNoState
  BY <1>2 DEF ExecuteNoState, TypeOK
<1>3. CASE ExecuteDraw
  BY <1>3, DrawTypeOK
<1>4. CASE ExecuteClearColor \/ ExecuteClearDepthStencil
  BY <1>4, ClearTypeOK
<1>5. CASE ExecuteUnknown
  BY <1>5 DEF ExecuteUnknown, TypeOK
<1>6. CASE UNCHANGED vars
  BY <1>6 DEF vars, TypeOK
<1>. QED
  BY <1>1, <1>2, <1>3, <1>4, <1>5, <1>6 DEF Next, Execute

\* Every reachable state of the dispatcher is well typed.
THEOREM TypeCorrect == Spec => []TypeOK
BY InitTypeOK, NextTypeOK, PTL DEF Spec

-----------------------------------------------------------------------------
(* The action property CommandEffects.                                     *)

\* What ret holds always belongs to the current state_: update() resets it,
\* and execute() either returns the result of state_'s own command or
\* crashes leaving it alone.  Without this, a draw or clear that crashes
\* after an earlier execute() of the same state would seem to "return".
RetMatches ==
  /\ state_ = Null => ret = Null
  /\ ret = "ok" => state_.cmd \in KnownCmds
  /\ ret = "failed" => state_.cmd \notin KnownCmds

EInv == TypeOK /\ RetMatches
LEMMA InitEInv == Init => EInv
BY InitTypeOK, ConstantsAssumption DEF Init, EInv, RetMatches

\* RetMatches survives every step: the next state's ret is Null, the
\* result of state_'s own command, or the ret left by a crash.
LEMMA NextRetMatches == EInv /\ [Next]_vars => RetMatches'
<1> SUFFICES ASSUME EInv, [Next]_vars PROVE RetMatches'
  OBVIOUS
<1> USE ConstantsAssumption
<1>1. ASSUME NEW s \in States, Update(s) PROVE RetMatches'
  BY <1>1 DEF Update, RetMatches
<1>2. CASE ExecuteNoState
  BY <1>2 DEF ExecuteNoState, EInv, RetMatches
<1>3. CASE ExecuteDraw
  BY <1>3 DEF ExecuteDraw, DoDraw, EInv, RetMatches, KnownCmds
<1>4. CASE ExecuteClearColor
  BY <1>4 DEF ExecuteClearColor, DoClearColor, EInv, RetMatches, KnownCmds
<1>5. CASE ExecuteClearDepthStencil
  BY <1>5 DEF ExecuteClearDepthStencil, DoClearDepthStencil, EInv, RetMatches,
     KnownCmds
<1>6. CASE ExecuteUnknown
  BY <1>6 DEF ExecuteUnknown, RetMatches
<1>7. CASE UNCHANGED vars
  BY <1>7 DEF vars, EInv, RetMatches
<1> QED
  BY <1>1, <1>2, <1>3, <1>4, <1>5, <1>6, <1>7 DEF Next, Execute

LEMMA NextEInv == EInv /\ [Next]_vars => EInv'
BY NextTypeOK, NextRetMatches DEF EInv

\* A clear that fills target t changes no other surface.
LEMMA FillOnlyTarget ==
  ASSUME TypeOK, NEW t \in Targets, NEW x,
         texels' = [texels EXCEPT ![t] = x]
  PROVE  \A u \in Targets : texels'[u] # texels[u] => u = t
BY DEF TypeOK

\* Every step keeps to CommandEffect.
LEMMA StepEffect == EInv /\ [Next]_vars => [CommandEffect]_vars
<1> SUFFICES ASSUME EInv, [Next]_vars PROVE [CommandEffect]_vars
  OBVIOUS
<1> USE ConstantsAssumption
<1>1. CASE \E s \in States : Update(s)
  BY <1>1 DEF Update, CommandEffect
<1>2. CASE ExecuteNoState
  BY <1>2 DEF ExecuteNoState, EInv, RetMatches, CommandEffect
<1>3. CASE ExecuteDraw
  <2>1. state_.cmd \in DrawCmds /\ ret # "failed"
    BY <1>3 DEF ExecuteDraw, EInv, RetMatches, KnownCmds
  <2> QED
    BY <1>3, <2>1 DEF ExecuteDraw, DoDraw, CommandEffect, EInv, TypeOK
<1>4. CASE ExecuteClearColor
  <2>1. state_.cmd = "clear_color" /\ ret # "failed"
    BY <1>4 DEF ExecuteClearColor, EInv, RetMatches, KnownCmds
  <2>2. state_.clear_color_target \in Targets \cup {Null}
    <3>1. state_ \in RenderStates
      BY <1>4 DEF ExecuteClearColor, EInv, TypeOK
    <3> QED
      BY <3>1 DEF RenderStates
  <2>3. CASE state_.clear_color_target = Null
    BY <1>4, <2>1, <2>3 DEF ExecuteClearColor, DoClearColor, CommandEffect,
       ClearCmds, EInv, TypeOK
  <2>4. CASE state_.clear_color_target # Null
    <3>1. \A u \in Targets : texels'[u] # texels[u] =>
            u = state_.clear_color_target
      BY <1>4, <2>2, <2>4, FillOnlyTarget DEF ExecuteClearColor, DoClearColor,
         EInv
    <3> QED
      BY <1>4, <2>1, <2>4, <3>1 DEF ExecuteClearColor, DoClearColor,
         CommandEffect, ClearCmds, ClearTarget
  <2> QED
    BY <2>3, <2>4
<1>5. CASE ExecuteClearDepthStencil
  <2>1. state_.cmd = "clear_depth_stencil" /\ ret # "failed"
    BY <1>5 DEF ExecuteClearDepthStencil, EInv, RetMatches, KnownCmds
  <2>2. state_.clear_ds_target \in Targets \cup {Null}
    <3>1. state_ \in RenderStates
      BY <1>5 DEF ExecuteClearDepthStencil, EInv, TypeOK
    <3> QED
      BY <3>1 DEF RenderStates
  <2>3. CASE state_.clear_ds_target = Null
    BY <1>5, <2>1, <2>3 DEF ExecuteClearDepthStencil, DoClearDepthStencil,
       CommandEffect, ClearCmds, EInv, TypeOK
  <2>4. CASE state_.clear_ds_target # Null
    <3>1. \A u \in Targets : texels'[u] # texels[u] =>
            u = state_.clear_ds_target
      BY <1>5, <2>2, <2>4, FillOnlyTarget DEF ExecuteClearDepthStencil,
         DoClearDepthStencil, EInv
    <3> QED
      BY <1>5, <2>1, <2>4, <3>1 DEF ExecuteClearDepthStencil,
         DoClearDepthStencil, CommandEffect, ClearCmds, ClearTarget
  <2> QED
    BY <2>3, <2>4
<1>6. CASE ExecuteUnknown
  BY <1>6 DEF ExecuteUnknown, CommandEffect
<1>7. CASE UNCHANGED vars
  BY <1>7, Zenon
<1> QED
  BY <1>1, <1>2, <1>3, <1>4, <1>5, <1>6, <1>7 DEF Next, Execute

\* For every value of the constants: every execute() that returns does what
\* its command documents -- a draw returns ok and fills no surface, a clear
\* returns ok and fills only its own target, any other command returns
\* failed and changes nothing (render_core::execute and its arms).
THEOREM CommandEffectsHolds == Spec => CommandEffects
<1>1. Init => EInv
  BY InitEInv
<1>2. EInv /\ [Next]_vars => EInv'
  BY NextEInv
<1>3. EInv /\ [Next]_vars => [CommandEffect]_vars
  BY StepEffect
<1> QED
  BY <1>1, <1>2, <1>3, PTL DEF Spec, CommandEffects

=============================================================================
