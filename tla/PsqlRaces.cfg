SPECIFICATION RaceSpec
CONSTANTS
  Threads = {t1, t2}
  NoThread = NoThread
  Statements = {s1}
INVARIANT TransactionsAreIsolated
