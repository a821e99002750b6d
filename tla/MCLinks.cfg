CONSTANTS
  Phones = {p1, p2, p3}
  NoAddr = NoAddr
  MaxBr = 2
  MaxLe = 2
  MaxPoints = 2
  Sass = TRUE
SPECIFICATION Spec
INVARIANTS TypeOK PointsMatchLinks LinksHavePoints CountsExact PowerHeld CallHoldsSniff SniffFreed
SYMMETRY Symmetry
