CONSTANTS
  i1 = i1
  i2 = i2
  p1 = p1
  p2 = p2
  u1 = u1
  u2 = u2
  None = None
  Ids = {i1, i2}
  Projects = {p1, p2}
  Urls = {u1, u2}
  HttpsUrls = {u1}
SPECIFICATION Spec
INVARIANTS
  TypeOK
  EveryoneTold
  OnlyRegistered
SYMMETRY Symmetry
