SPECIFICATION Spec
CONSTANTS
  Paces = {1, 11, 60}
  CullR2 = 4840000
INVARIANTS
  ShortLists
  Glued
  NoneMissing
PROPERTIES
  Seamless
