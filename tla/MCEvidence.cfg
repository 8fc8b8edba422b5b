SPECIFICATION Spec
CONSTANTS
  None = None
  Deliveries <- TwoSources
  Tabs = {b1, b2}
  MaxEvents = 2
  MaxPreviews = 2
  Cap = 1
  MaxSubject = 2
  Workers = {w1, w2}
  Ids = {k1, k2}
  SearchKey <- OneMerchant
  MaxRunning = 1
  MaxWindow = 2
  MaxGen = 2
SYMMETRY Interchangeable
INVARIANTS EvidenceSafe InferenceSafe ResearchSafe
  
CHECK_DEADLOCK FALSE
