SPECIFICATION Spec
CONSTANTS
  Users = {u1, u2}
  Assets = {a1, a2, a3}
  Workers = {w1, w2}
  Null = Null
  NoRow = NoRow
  Failing <- Tolerated
  MaxCrashes = 1
SYMMETRY Symmetry
INVARIANTS
  TypeOK
  RowHasFile
  ServedWhole
  RemovesOnlyReplaced
PROPERTY
  AvatarsAreKept
