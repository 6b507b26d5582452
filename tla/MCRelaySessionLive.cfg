CONSTANTS
  l1 = l1
  l2 = l2
  q1 = q1
  p1 = p1
  r1 = r1
  None = None
  LookupTopics = {l1}
  ProjectTopics = {q1}
  Projects = {p1}
  Requests = {r1}
  BatchSize = 1
  MaxEvents = 1
  MaxFaults = 2
SPECIFICATION FairSpec
PROPERTIES
  Reconnects
  EventuallyServed
