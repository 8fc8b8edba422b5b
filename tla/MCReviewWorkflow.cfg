SPECIFICATION MCSpec
CONSTANTS
  None = None
  Items = {i1, i2}
  Txs = {t1, t2}
  Categories = {x1, x2}
  Classifiers = {m1}
  Revisions = {v1}
  Reviewers = {a1, a2}
  Required = 2
  Requests = {q1, q2}
  Proposals = {p1}
  MaxVersion = 4
SYMMETRY Interchangeable
INVARIANTS ItemsSafe
PROPERTIES NoBlindOverturn CellSpec
CHECK_DEADLOCK FALSE
