SPECIFICATION FairSpec
CONSTANTS
  w1 = w1 w2 = w2 g1 = g1 g2 = g2 p1 = p1 p2 = p2 p3 = p3 p4 = p4 d1 = d1 d2 = d2 r1 = r1 r2 = r2 r3 = r3
  r4 = r4 a1 = a1 a2 = a2 a3 = a3 a4 = a4 t1 = t1 t2 = t2 q1 = q1 q2 = q2 h1 = h1 None = None
  Grant = {g1, g2}
  Pair = {p1, p2, p3}
  Resource = {d1}
  RunId = {r1, r2, r3}
  FirstId = {a1, a2, a3}
  TakeoverId = {t1, t2}
  ReconcileId = {q1}
  AbandonId = {h1}
  MaxOps = 2
  Worker = {w1, w2}
  Revocable = {}
  Expirable = {}
  MaxRestarts = 1
  GrantOf <- RelayGrantOf
  Resources <- RelayResources
  OpCount <- RelayOpCount
  ConfigCost <- RelayConfigCost
  Allowance <- RelayAllowance
  Admissions <- RelayAdmissions
  Takeovers <- RelayTakeovers
  Abandonments <- RelayAbandonments
  Reconciliations <- RelayReconciliations
  TasksMayDie = FALSE
INVARIANTS
  InheritedLeasesHeld
PROPERTIES
  LeasesChangeHandsByTakeover
  KeepsCustody
  DispatchSettles
  ReconciliationSettles
CHECK_DEADLOCK FALSE
