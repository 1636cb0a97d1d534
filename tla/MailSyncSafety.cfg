SPECIFICATION Spec
CONSTANTS
  m1 = m1
  m2 = m2
  i1 = i1
  i2 = i2
  r1 = r1
  Ingesters = {i1, i2}
  Reconcilers = {}
  Mids = {m1, m2}
  Unparseable = {m2}
  MaxUid = 2
  MaxRenumbers = 1
  MaxStops = 1
  MaxFaults = 1
  FaultKinds = {"search"}
  Redelivery = FALSE
  None = None
INVARIANT TypeOK
INVARIANT NothingBelowWatermark
INVARIANT PruneJustified
INVARIANT PointerNamesOwnMessage
PROPERTY WatermarkAdvances
SYMMETRY Interchangeable
