SPECIFICATION LoadSpec
CONSTANTS
  Responses = {r1}
  DefaultResponse = ok
  NoRequest = NoRequest
  HeaderNames = {agent, custom}
  UserAgent = agent
  MaxCalls = 3
  MaxClients = 2
INVARIANTS
  HttpIInv
  TestsDoNotRace
  LibraryIsUp
PROPERTIES
  CallsAreServed
  ServerStops
CHECK_DEADLOCK FALSE
