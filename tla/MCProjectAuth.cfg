CONSTANTS
  c1 = c1
  c2 = c2
  c3 = c3
  r1 = r1
  r2 = r2
  None = None
  Chars = {c1, c2, c3}
  Pairs <- MCPairs
  Requests = {r1, r2}
  TTL = 2
  MaxDelay = 1
SPECIFICATION Spec
INVARIANT
  TypeOK
PROPERTY
  VerdictFresh
SYMMETRY Symmetry
