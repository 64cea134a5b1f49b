SPECIFICATION Spec
CONSTANTS
  w1 = w1
  w2 = w2
  p1 = p1
  p2 = p2
  p3 = p3
  old1 = old1
  old2 = old2
  Worker <- MCWorker
  Particle <- MCParticle
  OldParticle <- MCOldParticle
  Place <- MCPlace
  Total <- MCTotal
  Leftover = {}
  MaxStep = 4
  MaxRetries = 2
  MaxPolls = 3
INVARIANTS
  TypeOK
  LostOnlyOutside
  CollectsThisStep
  FramesInOrder
  RetryBudget
PROPERTIES
  OnlyWholeSteps
  SyncSpec
  StepDecided
