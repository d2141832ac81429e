SPECIFICATION Spec
CONSTANTS
  GroupIds = {g1, g2}
  Users = {u1, u2}
  Texts <- Spellings
  Codes <- TeacherCode
  PlainNames = {n}
  Workers = {w1}
  Null = Null
SYMMETRY Symmetry
PROPERTY
  RemovesOnlyStudents
