CONSTANTS
  s1 = s1
  s2 = s2
  n1 = n1
  n2 = n2
  Undef = Undef
  NoName = NoName
  Objects <- MCObjects
  Names <- MCNames
  Lines <- MCLines
  Values <- MCValues
  kAvailable = 1
  MaxEntries = 2
  CtorSizes = {0, 1}
  Garbage = {0, 7}
  SelfAssign = TRUE
  StringCtor = TRUE
SPECIFICATION Spec
SYMMETRY ObjectSymmetry
VIEW SparseView
INVARIANTS TypeOK SparseMatch
