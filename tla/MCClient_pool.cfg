CONSTANTS
  Processes = {p1, p2}
  Main = p1
  Threads = {t1, t2}
  None = None
SPECIFICATION Spec
CHECK_DEADLOCK FALSE
INVARIANTS
  UpdaterOwnsPool
