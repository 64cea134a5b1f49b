SPECIFICATION Spec
CONSTANTS
  Client = {"c1", "c2"}
  MaxT = 2
INVARIANTS
  TypeOK
  SetIsCurrent
PROPERTIES
  FrameForAll
  SignalEnds
