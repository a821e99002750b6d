CONSTANTS
  Addr = {a1, a2, a3}
  Prof = {p1, p2}
  Timeout = {1, 2}
  QueueMax = 2
  NoAddr = NoAddr
SYMMETRY Symmetry
SPECIFICATION Spec
INVARIANTS TypeOK ListWellFormed PoolExact
PROPERTY ImplementsTodo
CHECK_DEADLOCK FALSE
