SPECIFICATION Spec
CONSTANTS
  Users = {u1, u2}
  Roles = {admin}
  Admin = admin
  Passwords = {p1, p2}
  Workers = {w1, w2}
  Null = Null
  AccessTTL = 1
  RefreshTTL = 2
  MaxTime = 2
  MaxPairs = 2
  MaxBars = 1
SYMMETRY Symmetry
INVARIANTS
  TypeOK
  RolesAreRecent
  DeletedAreOut
  BarredBeginNoSession
PROPERTY
  PasswordsAreHandedOn
CHECK_DEADLOCK FALSE
