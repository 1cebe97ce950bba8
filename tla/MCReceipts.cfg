SPECIFICATION Spec
CONSTANTS
  Threads = {t1, t2}
  NoThread = NoThread
  Users = {u1, u2}
  NoUser = NoUser
  Keys = {k1, k2}
  NoKey = NoKey
  Categories = {c1}
  NoCategory = NoCategory
  LostCategory = LostCategory
  MaxReceipt = 2
  MaxRequest = 2
  MaxTxn = 1
  NoReq <- NoRequest
INVARIANTS
  IInv
  ReceiptsHaveOwners
PROPERTIES
  ScansAreWhole
SYMMETRY Symmetry
