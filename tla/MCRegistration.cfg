CONSTANTS
  p1 = p1
  a1 = a1
  a2 = a2
  k1 = k1
  m1 = m1
  t1 = t1
  t3 = t3
  w1 = w1
  WS = WS
  None = None
  Projects = {p1}
  Accounts = {a1, a2}
  ValidAccounts = {a1}
  Keys = {k1, m1}
  Topics = {t1, t3}
  TopicOf <- MCTopicOf
  WalletKeys = {k1}
  Workers = {w1}
  MayFail = TRUE
SPECIFICATION Spec
INVARIANTS
  TypeOK
  ClientReachable
  WalletKnowsKey
PROPERTY
  RecordsFirst
