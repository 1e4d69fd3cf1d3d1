SPECIFICATION Spec
CONSTANTS
  None = None
  NoOwner = NoOwner
  u1 = u1
  u2 = u2
  ns1 = ns1
  ns2 = ns2
  lim = lim
  Names = {w1}
  Users = {u1, u2}
  Namespaces = {ns1, ns2}
  Limits = {lim}
  Specs <- TwoSpecs
  Lagging = {}
  Budget <- ThrottledBudget
PROPERTY DetectorFollowsTruth
CHECK_DEADLOCK FALSE
