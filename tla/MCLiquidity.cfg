SPECIFICATION Spec
CONSTANTS
  None = None
  Members = {r, a}
  Requester = r
  Required = 1
  Attempts = {c1, c2}
  MaxVersion = 2
  MaxPolicy = 2
  Transfers = {t1, t2}
  Linked = {t1, t2}
  Movements = {m1, m2}
  Calls = {c1, c2}
  Runtimes = {m1, m2}
  Process = process
  Keys = {k1}
  Person = person
  People = {t1, t2}
  Channels = {in_app}
  Limit = 1
  MaxPeriod = 2
SYMMETRY Interchangeable
INVARIANTS CompletionSafe TransfersSafe
PROPERTIES DispatchCurrent AnnouncementsHeld
CHECK_DEADLOCK FALSE
