SPECIFICATION Spec
CONSTANTS
  None = None
  Users = {u1, u2, u3}
  Trusted = {u1, u2}
  Labels = {label}
  Operator = operator
  Collector = gc
  Privileged = {root}
INVARIANTS TypeOK LabelsMirror Governed
CHECK_DEADLOCK FALSE
