\* Spec 7: execute() before any update() reports failure.
CONSTANTS
  vp = vp  pp = pp  cb1 = cb1  cb2 = cb2  cb3 = cb3  a = a  b = b  c = c
  smp = smp  smp1 = smp1  smp2 = smp2  t1 = t1  t2 = t2  c1 = c1  c2 = c2
  Null = Null
  CmdIds <- MCCmdIds
  VSProtos = {vp}
  PSProtos = {pp}
  CBuffers = {cb1, cb2, cb3}
  Vars = {a, b, c}
  SamplerNames = {smp}
  Samplers = {smp1, smp2}
  Targets = {t1, t2}
  Colors = {c1, c2}
  Depths = {0, 1}
  Stencils = {0, 255}
  CBVars <- MCCBVars
  CBLen <- MCCBLen
  CBSamplers <- MCCBSamplers
  CBSampler <- MCCBSampler
  Reflected = {a, b}
  ArrayVars = {a}
  States <- MCStates
INIT Init
NEXT Next
CHECK_DEADLOCK FALSE
PROPERTY ExecuteWithoutStateFails
