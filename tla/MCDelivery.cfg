CONSTANTS
  p1 = p1
  a1 = a1
  k1 = k1
  m1 = m1
  t1 = t1
  t3 = t3
  w1 = w1
  WS = WS
  None = None
  Projects = {p1}
  Sender = p1
  Accounts = {a1}
  ValidAccounts = {a1}
  Keys = {k1, m1}
  Topics = {t1, t3}
  TopicOf <- MCTopicOf
  WalletKeys = {k1}
  Workers = {w1}
  MayFail = TRUE
SPECIFICATION DeliverySpec
INVARIANTS
  DeliveryTypeOK
  UnderKnownKeys
  GoneGetsNothing
  KeptIsFound
VIEW MCView
