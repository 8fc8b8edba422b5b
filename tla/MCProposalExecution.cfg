SPECIFICATION MCSpec
CONSTANTS
  None = None
  p1 = p1
  p2 = p2
  c1 = c1
  c2 = c2
  t1 = t1
  b1 = b1
  r1 = r1
  x1 = x1
  x2 = x2
  e1 = e1
  Proposals = {p1, p2}
  Budgets = {b1}
  Txs = {t1}
  BudgetOf <- MCBudgetOf
  TxOf <- MCTxOf
  Categories = {x1, x2}
  CategoryOf <- MCCategoryOf
  Reviews = {r1}
  ReviewOf <- MCReviewOf
  Approvers = {a1}
  Required = 1
  Calls = {c1, c2}
  Actors = {e1}
  ActorOf <- MCActorOf
  Keys = {k1, k2}
  MaxReviewVersion = 2
  MaxDisruptions = 1
SYMMETRY Interchangeable
INVARIANTS TypeOK FenceInvariant OneUnresolvedWrite ReviewAppliedOnce
PROPERTIES ClaimsAreFinal OwnerSpec
CHECK_DEADLOCK FALSE
