SPECIFICATION Spec
CONSTANTS
  a = a
  b = b
  c = c
  u = u
  v = v
  Points <- ThreePoints
  Grid <- TwoPositions
  Units <- Rounding
  Home = a
  Nowhere = Nowhere
  Somewhere = Somewhere
  MaxElements = 6
INVARIANTS
  CutsAreDrawn
