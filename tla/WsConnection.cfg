SPECIFICATION Spec
CONSTANTS
  Incoming = 2
  Outgoing = 2
INVARIANTS TypeOK NoStall WrittenInOrder NothingAfterClose NeverDeaf
PROPERTY LifeSpec
