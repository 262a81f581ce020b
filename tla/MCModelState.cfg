SPECIFICATION Spec
CONSTANTS
  body = body
  pair = pair
  Models = {body, pair}
  Bones <- MCBones
  Attributes <- MCAttributes
  Counts = {0, 4, 8}
  MaxVertices = 11
INVARIANTS
  ScheduleIsFresh
  ValidWhenPublished
  DrawsTheModel
