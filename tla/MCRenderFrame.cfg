SPECIFICATION Spec
CONSTANTS
  Workers = 2
  BoneCount = 2
  Groups <- MCGroups
  Depths = {1, 2}
INVARIANTS
  DrawsFreshBones
  SuccessIsComplete
  OutcomeIsDeterministic
  FarToNear
PROPERTIES
  RenderReturns
