SPECIFICATION CalmSpec
CONSTANTS
  Threads = {t1, t2}
  NoThread = NoThread
  Devices = {d1, d2}
  NoDevice = NoDevice
  MaxUser = 2
  Refusable = {}
  NoReq <- NoRequest
PROPERTY UnauthorizedMeansUnknown
