SPECIFICATION Spec
CONSTANT
  MaxWorkers = 64
INVARIANTS
  TypeOK
  Disjoint
  CoveredIffCube
