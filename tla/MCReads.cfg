SPECIFICATION MCReadSpec
CONSTANTS
  Threads = {t1, t2}
  NoThread = NoThread
  u1 = u1
  u2 = u2
  Users = {u1, u2}
  NoUser = NoUser
  Clients = {u1}
  main = main
  other = other
  Names = {main, other}
  Main = main
  NoName = NoName
  RefusedName = RefusedName
  Infos <- Prices
  NoInfo = NoInfo
  RefusedInfo = RefusedInfo
  MaxTxn = 3
  MaxSplit = 3
  MaxChr = 2
  MaxCat = 1
  Ops = {"CreateTransaction", "UpdateTransaction", "DeleteTransaction", "CreateSplit"}
  ReadOps = {"GetTransactions", "GetTransactionDetails", "GetStatistics"}
  MaxInt = 4
  PageSize = 3
  NoReq <- EmptyRequest
  InitialDb <- WalletDb
  InitialSeq <- WalletSeq
INVARIANT ReadInv
PROPERTIES
  DetailsAreOwn
  PagesAddUp
  ChartsAddUp
  CharactersAddUp
  ReadersAdvance
SYMMETRY Symmetry
