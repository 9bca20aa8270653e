CONSTANTS
  Events = {e1, e2}
  Threads = {t1, t2}
  None = None
  Metadata = Metadata
  MaxQueue = 2
  ChillUntil = 1
  MaxBuffer = 2
  FlushTimes = {TRUE, FALSE}
  LocalServer = TRUE
  Unserializable = {e2}
SPECIFICATION Spec
SYMMETRY ThreadSymmetry
INVARIANTS
  TypeOK
  Conservation
  NoMissedWakeup
  CloseDrains
  PayloadsWellFormed
PROPERTIES
  ReturnMeansRound
