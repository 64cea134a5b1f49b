SPECIFICATION Spec
CONSTANTS
  w1 = w1
  w2 = w2
  p1 = p1
  p2 = p2
  p3 = p3
  old1 = old1
  old2 = old2
  Worker <- MCWorker
  Particle <- MCParticle
  OldParticle <- MCOldParticle
  Place <- MCPlace
  Total <- MCTotal
  Leftover <- MCLeftover
  MaxStep = 2
  MaxRetries = 1
  MaxPolls = 1
INVARIANTS
  OnlyThisRun
