SPECIFICATION Spec
CONSTANTS
  Files <- MCFiles
  Names <- MCNames
  Texts <- MCTexts
  Half = 1024
  Precision = 8192
  Invalid = Invalid
  NoDigits = NoDigits
  f1 = f1
  f2 = f2
  n1 = n1
  m1 = m1
  kind1 = kind1
INVARIANTS
  LeavesClosed
