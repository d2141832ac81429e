SPECIFICATION Spec
CONSTANTS
  a = a
  k = k
  Ids = {i1, i2}
  Users = {u1}
  Admins = {u1}
  Words = {a, k}
  Titles <- MCTitles
  Labels <- MCLabels
  Seeds <- MCLabels
  Dates = {d1, d2, d3, d4}
  Asked <- AnyStatus
  Workers = {w1, w2}
  Null = Null
  MaxCategories = 1
SYMMETRY Symmetry
INVARIANTS
  TypeOK
  CatalogIsSound
  PublishedHasDate
  LoneRequestsHold
  SearchIsBounded
PROPERTIES
  DraftsStayDrafts
  DatesStay
  LinksHold
