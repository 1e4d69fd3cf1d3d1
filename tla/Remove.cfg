SPECIFICATION HFairSpec
CONSTANTS
  None = None
  NoOwner = NoOwner
  Stranger = Stranger
  t1 = t1
  ns1 = ns1
  ns2 = ns2
  c1 = c1
  c2 = c2
  v1 = v1
  Names = {m1}
  Templates = {t1}
  Namespaces = {ns1, ns2}
  Charts = {c1, c2}
  Values = {v1}
  Specs <- OneSpec
  TemplateSpecs <- TwoTemplates
  Lagging = {"module", "release"}
  Budget <- RemoveBudget
  Recorder = TRUE
INVARIANTS Deployed FinalizerGuards UnmirroredOverlooked
PROPERTIES LifecycleHonoured Settles
CHECK_DEADLOCK FALSE
