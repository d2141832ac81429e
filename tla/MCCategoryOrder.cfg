SPECIFICATION Spec
CONSTANTS
  Codes = {c1, c2, c3}
  Groups = {g1, g2}
  Seeds <- MCSeeds
  Sorts = {Null}
  Named <- MCNamed
  Workers = {w1, w2}
  Null = Null
  MaxOrder = 2
SYMMETRY Symmetry
INVARIANTS
  TypeOK
  LoneRequestsHold
PROPERTY
  DisorderIsExcused
