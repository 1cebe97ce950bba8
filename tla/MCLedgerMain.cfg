SPECIFICATION Spec
CONSTANTS
  Threads = {t1, t2}
  NoThread = NoThread
  u1 = u1
  u2 = u2
  Users = {u1, u2}
  NoUser = NoUser
  Clients = {u1}
  main = main
  other = other
  Names = {main, other}
  Main = main
  NoName = NoName
  RefusedName = RefusedName
  x1 = x1
  x2 = x2
  Infos = {x1, x2}
  NoInfo = NoInfo
  RefusedInfo = RefusedInfo
  MaxTxn = 1
  MaxSplit = 1
  MaxChr = 3
  MaxCat = 0
  Ops = {"ManageCharacter", "DeleteCharacter"}
  NoReq <- EmptyRequest
  InitialDb <- WalletDb
  InitialSeq <- WalletSeq
PROPERTY MainCharacterStays
SYMMETRY Symmetry
