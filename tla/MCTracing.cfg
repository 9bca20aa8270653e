CONSTANTS
  Contexts = {c1, c2}
  Main = c1
  MaxBegun = 3
  Limits = {1, 2}
  DropsShort = TRUE
  Preemption = {TRUE, FALSE}
  Tx = Tx
  None = None
SPECIFICATION Spec
CHECK_DEADLOCK FALSE
INVARIANTS
  TypeOK
  ActiveSpanOpen
  SettledOnce
  SpanLimit
  ParentsArrive
PROPERTIES
  CountsHonest
