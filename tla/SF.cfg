SPECIFICATION Spec
CONSTANTS
  Parts = 2
  Pens = 1
  Limit = 1
  Foreign <- OneForeign
  MaxSaved = 2
INVARIANTS
  TypeOK
  LoadedWhole
  PanelShowsPens
