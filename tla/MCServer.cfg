CONSTANTS
  p1 = p1
  a1 = a1
  m1 = m1
  t3 = t3
  q1 = q1
  w1 = w1
  WS = WS
  None = None
  Projects = {p1}
  Accounts = {a1}
  ValidAccounts = {a1}
  Keys = {m1}
  Topics = {t3}
  TopicOf <- MCTopicOf
  WalletKeys = {}
  Workers = {w1}
  MayFail = TRUE
  ProjectTopics = {q1}
  BatchSize = 1
  MaxEvents = 1
  MaxFaults = 2
SPECIFICATION ServerSpec
INVARIANTS
  ServerTypeOK
  ClientServed
