SPECIFICATION FairSpec
CONSTANTS
  Threads = {t1, t2, t3}
  NoThread = NoThread
  Statements = {s1, s2, s3}
INVARIANTS
  IInv
  ViewIsOwners
PROPERTIES
  AllOrNothing
  ConnectionIsFreed
  ImplementsSession
