SPECIFICATION Spec
CONSTANTS
  Plans = {p1}
  Contents = {x, y}
  Principals = {a, b, c}
  Reviewing = {r1, r2}
  NoRow = NoRow
INVARIANTS
  ApprovalsStand
  IndependentlyReviewed
CHECK_DEADLOCK FALSE
