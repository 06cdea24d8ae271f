CONSTANTS
  s1 = s1
  s2 = s2
  n1 = n1
  n2 = n2
  Undef = Undef
  NoName = NoName
  Objects <- MCObjects
  Names <- MCNames1
  Lines <- MCLines1
  Values = {0, 1}
  kAvailable = 1
  MaxEntries = 2
  CtorSizes = {1, 2}
  Garbage = {0, 7}
  SelfAssign = FALSE
  StringCtor = FALSE
SPECIFICATION Spec
PROPERTY TextRoundTrip
