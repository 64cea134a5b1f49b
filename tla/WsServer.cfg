SPECIFICATION Spec
CONSTANT
  Client = {"c1", "c2", "c3"}
INVARIANTS TypeOK NoGhosts ServedWhileOpen NothingLeftOpen
PROPERTIES ClosedForgotten ShutdownReturns
