CONSTANTS
  Events = {e1, e2}
  Threads = {t1}
  None = None
  Metadata = Metadata
  MaxQueue = 2
  ChillUntil = 1
  MaxBuffer = 2
  FlushTimes = {TRUE, FALSE}
  LocalServer = FALSE
  Unserializable = {}
SPECIFICATION Spec
PROPERTIES
  FlushReturnsDrained
