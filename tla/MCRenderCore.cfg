\* Render core dispatcher: draws and clears, with well-formed states and with states that fault (unbound clears, draws with a null cbuffer or a variable without sv_layout); the properties hold on every path up to a crash.
CONSTANTS
  vp = vp  pp = pp  cb1 = cb1  cb2 = cb2  cb3 = cb3  a = a  b = b  c = c
  smp = smp  smp1 = smp1  smp2 = smp2  t1 = t1  t2 = t2  c1 = c1  c2 = c2
  Null = Null
  CmdIds <- MCCmdIds
  VSProtos = {vp}
  PSProtos = {pp}
  CBuffers = {cb1, cb2, cb3}
  Vars = {a, b, c}
  SamplerNames = {smp}
  Samplers = {smp1, smp2}
  Targets = {t1, t2}
  Colors = {c1, c2}
  Depths = {0, 1}
  Stencils = {0, 255}
  CBVars <- MCCBVars
  CBLen <- MCCBLen
  CBSamplers <- MCCBSamplers
  CBSampler <- MCCBSampler
  Reflected = {a, b}
  ArrayVars = {a}
  States <- MCFaultStates
INIT Init
NEXT Next
\* The only states without a successor follow a null dereference.
CHECK_DEADLOCK FALSE
INVARIANT TypeOK
PROPERTY CommandEffects
