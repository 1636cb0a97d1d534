SPECIFICATION FairSpec
CONSTANTS
  m1 = m1
  m2 = m2
  i1 = i1
  i2 = i2
  r1 = r1
  Ingesters = {i1}
  Reconcilers = {}
  Mids = {m1, m2}
  Unparseable = {}
  MaxUid = 3
  MaxRenumbers = 1
  MaxStops = 0
  MaxFaults = 1
  FaultKinds = {"insert", "list", "search"}
  Redelivery = FALSE
  None = None
PROPERTY MailReachesBoard
PROPERTY PointersConverge
PROPERTY GoneMailLeavesBoard
