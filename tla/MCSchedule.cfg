SPECIFICATION Spec
CONSTANTS
  Models <- MCModels
  RenderLists <- MCRenderLists
  WorkerCounts = {1, 2, 3, 4}
  MaxUpdates = 2
  MaxUint32 = 63
  kMaxWorkerReadyWorkers = 3
  kBonesPerReadyWorker = 1
INVARIANTS
  TasksTileTheFrame
  OwnersMatchUpdate
  FailsOnlyAtLimits
CHECK_DEADLOCK FALSE
