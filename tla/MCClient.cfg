CONSTANTS
  Processes = {p1, p2}
  Main = p1
  Threads = {t1, t2}
  None = None
  Metrics = {"timer", "histogram", "ignored"}
  Histograms = {"histogram"}
  Ignored = {"ignored"}
  LabelLimits = {1, 2}
  MaxUpdates <- MCMaxUpdates
  Children = {c1, c2}
  MaxTime = 4
SPECIFICATION MCSpec
CHECK_DEADLOCK FALSE
INVARIANTS
  TypeOK
  OneWorker
  WorkerOwnsPool
  CloseNotStuck
  WithinLabelLimit
  MeansRight
  NothingTwice
  HistogramsComplete
  LastCollection
  TimerSurvives
  SelfTime
PROPERTIES
  CancelEnds
  Recovers
