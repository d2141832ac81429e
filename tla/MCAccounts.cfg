SPECIFICATION Spec
CONSTANTS
  Ids = {i1, i2}
  Emails = {e1}
  Roles = {student, teacher}
  Student = student
  Codes = {student, teacher, unknown}
  Workers = {w1, w2}
  Null = Null
  MaxCrashes = 1
SYMMETRY Symmetry
INVARIANTS
  TypeOK
  OneAccountPerEmail
  AgreementWins
  HoldersAreMembers
