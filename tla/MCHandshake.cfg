CONSTANTS
  p1 = p1
  p2 = p2
  s1 = s1
  s2 = s2
  s3 = s3
  k1 = k1
  k2 = k2
  k3 = k3
  w1 = w1
  w2 = w2
  f1 = f1
  f2 = f2
  r1 = r1
  r2 = r2
  a1 = a1
  a2 = a2
  id1 = id1
  id2 = id2
  iv = iv
  None = None
  IvLen = 1
  PubkeyLen = 1
  Identities = {id1, id2}
  MillisPerSecond = 1000
  Projects = {p1, p2}
  SecretsOf <- MCSecretsOf
  KeyOf <- MCKeyOf
  Wallets = {w1, w2}
  Fresh = {f1, f2}
  PublicOf <- MCPublicOf
  Requests = {r1}
  Accounts = {a1, a2}
  Tokens <- MCTokens
  Bytes <- MCBytes
  Iv <- MCIv
  MaxNow = 2
SPECIFICATION Spec
SYMMETRY MCSymmetry
INVARIANTS
  TypeOK
  ClientsConsented
  ClaimsSigned
  OnlyItsWallet
  AnsweredKeyStands
  LastResponseCurrent
