SPECIFICATION Spec
CONSTANTS
  Docs = {d1, d2}
  Edited = {d1, d2}
  Slots = {s1, s2}
  MaxTyped = 1
  MaxForeign = 1
  MaxValidations = 1
  None = None
SYMMETRY Symmetry
CONSTRAINT Bound
INVARIANTS TypeOK EveryEditKept SavingHasASave
PROPERTIES ForeignTextSurvives
