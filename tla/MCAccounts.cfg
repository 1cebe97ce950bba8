SPECIFICATION FairSpec
CONSTANTS
  Threads = {t1, t2}
  NoThread = NoThread
  Devices = {d1, d2}
  NoDevice = NoDevice
  MaxUser = 2
  Refusable = {"find", "add", "link", "auth"}
  NoReq <- NoRequest
INVARIANTS
  IInv
  TokensAreOwn
PROPERTIES
  TokensAreKnown
  CallsEnd
