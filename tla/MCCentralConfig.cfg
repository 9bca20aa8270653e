CONSTANTS
  a = a
  b = b
  k = k
  x = x
  y = y
  z = z
  v1 = v1
  v2 = v2
  bad = bad
  gone = gone
  NoVersion = NoVersion
  Options = {a, b, k}
  Values = {x, y, z}
  Invalid = {z}
  Default <- MCDefault
  WithCallback = {a, b}
  First <- FirstWithOption
  Versions = {v1, v2, bad, gone}
  Remote <- MCRemote
  Programs <- MCPrograms
  RemoteOptions <- MCRemoteOptions
  Names <- MCNames
  Files <- MCFiles
SPECIFICATION MCSpec
INVARIANTS
  ToldOrComplains
  CalledOnce
  VersionHonest
  CallbacksInSync
PROPERTIES
  Converges
