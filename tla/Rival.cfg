SPECIFICATION Spec
CONSTANTS
  None = None
  NoOwner = NoOwner
  u1 = u1
  u2 = u2
  ns1 = ns1
  ns2 = ns2
  lim = lim
  Names = {w1,w2}
  Users = {u1, u2}
  Namespaces = {ns1}
  Limits = {lim}
  Specs <- PlainSpec
  Lagging = {"Namespace"}
  Budget <- RivalBudget
INVARIANTS StatusTruthful StrandedByRivalsOnly
PROPERTY LeaseHonoured
CHECK_DEADLOCK FALSE
