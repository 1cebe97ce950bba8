-------------------------- MODULE WalletTablesProofs --------------------------
(***************************************************************************)
(* The changes that the wallet makes to its tables keep them consistent,   *)
(* whatever the tables hold.  Stated once about a database d, and used for *)
(* the handlers (LedgerProofs.tla) as for what they promise                *)
(* (LedgerStoreProofs.tla).                                                *)
(***************************************************************************)
EXTENDS WalletTables, TLAPS

-----------------------------------------------------------------------------
(* Tables.                                                                 *)

(* A table is a function whose domain is a set of ids. *)
LEMMA TableIsFunction ==
  ASSUME NEW Ids, NEW Row, NEW f
  PROVE  f \in Table(Ids, Row) <=> /\ DOMAIN f \subseteq Ids
                                   /\ f \in [DOMAIN f -> Row]
  BY DEF Table

(* What Put does to a table. *)
LEMMA PutTable ==
  ASSUME NEW Ids, NEW Row, NEW f \in Table(Ids, Row),
         NEW i \in Ids, NEW row \in Row
  PROVE  /\ Put(f, i, row) \in Table(Ids, Row)
         /\ \A j : j \in DOMAIN Put(f, i, row) <=> j \in DOMAIN f \/ j = i
         /\ Put(f, i, row)[i] = row
         /\ \A j \in DOMAIN f \ {i} : Put(f, i, row)[j] = f[j]
  <1>1. DOMAIN f \subseteq Ids /\ f \in [DOMAIN f -> Row]
    BY TableIsFunction
  <1>2. DOMAIN Put(f, i, row) = DOMAIN f \cup {i}
    BY DEF Put
  <1>3. Put(f, i, row) \in [DOMAIN f \cup {i} -> Row]
    BY <1>1 DEF Put
  <1>4. Put(f, i, row) \in Table(Ids, Row)
    BY <1>1, <1>2, <1>3, TableIsFunction
  <1> QED BY <1>2, <1>4 DEF Put

(* What Without does to a table. *)
LEMMA WithoutTable ==
  ASSUME NEW Ids, NEW Row, NEW f \in Table(Ids, Row), NEW S
  PROVE  /\ Without(f, S) \in Table(Ids, Row)
         /\ \A j : j \in DOMAIN Without(f, S) <=> j \in DOMAIN f /\ j \notin S
         /\ \A j \in DOMAIN f \ S : Without(f, S)[j] = f[j]
  <1>1. DOMAIN f \subseteq Ids /\ f \in [DOMAIN f -> Row]
    BY TableIsFunction
  <1>2. DOMAIN Without(f, S) = DOMAIN f \ S
    BY DEF Without
  <1>3. Without(f, S) \in [DOMAIN f \ S -> Row]
    BY <1>1 DEF Without
  <1>4. Without(f, S) \in Table(Ids, Row)
    BY <1>1, <1>2, <1>3, TableIsFunction
  <1> QED BY <1>2, <1>4 DEF Without

(* Deleting rows that are not there changes nothing. *)
LEMMA WithoutNothing ==
  ASSUME NEW Ids, NEW Row, NEW f \in Table(Ids, Row), NEW S,
         DOMAIN f \cap S = {}
  PROVE  Without(f, S) = f
  <1>1. f \in [DOMAIN f -> Row]
    BY TableIsFunction
  <1>2. DOMAIN f \ S = DOMAIN f
    OBVIOUS
  <1> QED BY <1>1, <1>2 DEF Without

(* Writing a row that is already there changes nothing. *)
LEMMA PutNothing ==
  ASSUME NEW Ids, NEW Row, NEW f \in Table(Ids, Row), NEW i \in DOMAIN f
  PROVE  Put(f, i, f[i]) = f
  <1>1. f \in [DOMAIN f -> Row]
    BY TableIsFunction
  <1>2. DOMAIN f \cup {i} = DOMAIN f
    OBVIOUS
  <1> QED BY <1>1, <1>2 DEF Put

(* What Uncategorised does to the transactions. *)
LEMMA UncategorisedTable ==
  ASSUME NEW f \in Table(TxnIds, TxnRow), NEW c
  PROVE  /\ Uncategorised(f, c) \in Table(TxnIds, TxnRow)
         /\ DOMAIN Uncategorised(f, c) = DOMAIN f
         /\ \A i \in DOMAIN f :
              /\ Uncategorised(f, c)[i].user = f[i].user
              /\ Uncategorised(f, c)[i].cat
                   = IF f[i].cat = c THEN 0 ELSE f[i].cat
  <1>1. DOMAIN f \subseteq TxnIds /\ f \in [DOMAIN f -> TxnRow]
    BY TableIsFunction
  <1>2. DOMAIN Uncategorised(f, c) = DOMAIN f
    BY DEF Uncategorised
  <1>3. \A i \in DOMAIN f : [f[i] EXCEPT !.cat = 0] \in TxnRow
    BY <1>1 DEF TxnRow
  <1>4. Uncategorised(f, c) \in [DOMAIN f -> TxnRow]
    BY <1>1, <1>3 DEF Uncategorised
  <1>5. Uncategorised(f, c) \in Table(TxnIds, TxnRow)
    BY <1>1, <1>2, <1>4, TableIsFunction
  <1>6. ASSUME NEW i \in DOMAIN f
        PROVE  /\ Uncategorised(f, c)[i].user = f[i].user
               /\ Uncategorised(f, c)[i].cat
                    = IF f[i].cat = c THEN 0 ELSE f[i].cat
    <2>1. f[i] \in TxnRow
      BY <1>1
    <2>2. /\ [f[i] EXCEPT !.cat = 0].user = f[i].user
          /\ [f[i] EXCEPT !.cat = 0].cat = 0
      BY <2>1 DEF TxnRow
    <2> QED BY <2>2 DEF Uncategorised
  <1> QED BY <1>2, <1>5, <1>6

(* Taking away a category that no transaction has changes nothing. *)
LEMMA UncategorisedNothing ==
  ASSUME NEW f \in Table(TxnIds, TxnRow), NEW c,
         \A i \in DOMAIN f : f[i].cat = c => c = 0
  PROVE  Uncategorised(f, c) = f
  <1>1. f \in [DOMAIN f -> TxnRow]
    BY TableIsFunction
  <1>2. ASSUME NEW i \in DOMAIN f, f[i].cat = c
        PROVE  [f[i] EXCEPT !.cat = 0] = f[i]
    BY <1>1, <1>2 DEF TxnRow
  <1>3. Uncategorised(f, c) = [i \in DOMAIN f |-> f[i]]
    BY <1>2 DEF Uncategorised
  <1> QED BY <1>1, <1>3

-----------------------------------------------------------------------------
(* The changes of a consistent database.                                   *)

(* Replacing one table of a database leaves a database whose other tables  *)
(* are the same.                                                           *)
LEMMA ReplaceTable ==
  ASSUME NEW d \in Databases
  PROVE  /\ \A f \in Table(TxnIds, TxnRow) :
              /\ [d EXCEPT !.txn = f] \in Databases
              /\ [d EXCEPT !.txn = f].txn = f
              /\ [d EXCEPT !.txn = f].split = d.split
              /\ [d EXCEPT !.txn = f].chr = d.chr
              /\ [d EXCEPT !.txn = f].cat = d.cat
         /\ \A f \in Table(SplitIds, SplitRow) :
              /\ [d EXCEPT !.split = f] \in Databases
              /\ [d EXCEPT !.split = f].txn = d.txn
              /\ [d EXCEPT !.split = f].split = f
              /\ [d EXCEPT !.split = f].chr = d.chr
              /\ [d EXCEPT !.split = f].cat = d.cat
         /\ \A f \in Table(ChrIds, ChrRow) :
              /\ [d EXCEPT !.chr = f] \in Databases
              /\ [d EXCEPT !.chr = f].txn = d.txn
              /\ [d EXCEPT !.chr = f].split = d.split
              /\ [d EXCEPT !.chr = f].chr = f
              /\ [d EXCEPT !.chr = f].cat = d.cat
         /\ \A f \in Table(CatIds, Names) :
              /\ [d EXCEPT !.cat = f] \in Databases
              /\ [d EXCEPT !.cat = f].txn = d.txn
              /\ [d EXCEPT !.cat = f].split = d.split
              /\ [d EXCEPT !.cat = f].chr = d.chr
              /\ [d EXCEPT !.cat = f].cat = f
  BY DEF Databases

(* The rows of a consistent database. *)
LEMMA Rows ==
  ASSUME NEW d \in Databases
  PROVE  /\ d.txn \in Table(TxnIds, TxnRow)
         /\ d.split \in Table(SplitIds, SplitRow)
         /\ d.chr \in Table(ChrIds, ChrRow)
         /\ d.cat \in Table(CatIds, Names)
         /\ \A i \in DOMAIN d.txn : i \in TxnIds /\ d.txn[i] \in TxnRow
         /\ \A s \in DOMAIN d.split : s \in SplitIds /\ d.split[s] \in SplitRow
         /\ \A c \in DOMAIN d.chr : c \in ChrIds /\ d.chr[c] \in ChrRow
         /\ \A c \in DOMAIN d.cat : c \in CatIds /\ d.cat[c] \in Names
  <1>1. /\ d.txn \in Table(TxnIds, TxnRow)
        /\ d.split \in Table(SplitIds, SplitRow)
        /\ d.chr \in Table(ChrIds, ChrRow)
        /\ d.cat \in Table(CatIds, Names)
    BY DEF Databases
  <1>2. DOMAIN d.txn \subseteq TxnIds /\ d.txn \in [DOMAIN d.txn -> TxnRow]
    BY <1>1, TableIsFunction
  <1>3. /\ DOMAIN d.split \subseteq SplitIds
        /\ d.split \in [DOMAIN d.split -> SplitRow]
    BY <1>1, TableIsFunction
  <1>4. DOMAIN d.chr \subseteq ChrIds /\ d.chr \in [DOMAIN d.chr -> ChrRow]
    BY <1>1, TableIsFunction
  <1>5. DOMAIN d.cat \subseteq CatIds /\ d.cat \in [DOMAIN d.cat -> Names]
    BY <1>1, TableIsFunction
  <1> QED BY <1>1, <1>2, <1>3, <1>4, <1>5

(* A transaction is inserted, or gets new columns without changing hands. *)
LEMMA PutTxnConsistent ==
  ASSUME NEW d, Consistent(d),
         NEW i \in TxnIds, NEW u \in Users,
         NEW c \in DOMAIN d.cat \cup {0}, NEW x \in Infos,
         i \in DOMAIN d.txn => d.txn[i].user = u
  PROVE  Consistent([d EXCEPT !.txn =
                       Put(@, i, [user |-> u, cat |-> c, info |-> x])])
  <1> DEFINE row == [user |-> u, cat |-> c, info |-> x]
             f == Put(d.txn, i, row)
             e == [d EXCEPT !.txn = f]
  <1>1. d \in Databases /\ OneWallet(d) /\ CategoriesExist(d)
    BY DEF Consistent
  <1>t. /\ d.txn \in Table(TxnIds, TxnRow)
        /\ d.split \in Table(SplitIds, SplitRow)
        /\ d.chr \in Table(ChrIds, ChrRow)
        /\ d.cat \in Table(CatIds, Names)
    BY <1>1, Rows
  <1>2. row \in TxnRow
    BY <1>1, Rows DEF TxnRow
  <1>3. /\ f \in Table(TxnIds, TxnRow)
        /\ \A j : j \in DOMAIN f <=> j \in DOMAIN d.txn \/ j = i
        /\ f[i] = row
        /\ \A j \in DOMAIN d.txn \ {i} : f[j] = d.txn[j]
    BY <1>2, <1>t, PutTable
  <1> HIDE DEF f
  <1>4. /\ e \in Databases
        /\ e.txn = f /\ e.split = d.split /\ e.chr = d.chr /\ e.cat = d.cat
    BY <1>1, <1>3, ReplaceTable
  <1> HIDE DEF e
  <1>5. \A v : \A j : OwnsTxn(d, v, j) => OwnsTxn(e, v, j)
    BY <1>3, <1>4 DEF OwnsTxn
  <1>6. OneWallet(e)
    BY <1>1, <1>4, <1>5 DEF OneWallet, OwnsChr
  <1>7. CategoriesExist(e)
    BY <1>1, <1>3, <1>4 DEF CategoriesExist
  <1> QED BY <1>4, <1>6, <1>7 DEF Consistent, e, f

(* A transaction is deleted together with its splits. *)
LEMMA RemoveTxnConsistent ==
  ASSUME NEW d, Consistent(d), NEW i
  PROVE  Consistent([d EXCEPT !.txn = Without(@, {i}),
                              !.split = Without(@, SplitsOfTxn(d, i))])
  <1> DEFINE f == Without(d.txn, {i})
             g == Without(d.split, SplitsOfTxn(d, i))
             e == [d EXCEPT !.txn = f, !.split = g]
  <1>1. d \in Databases /\ OneWallet(d) /\ CategoriesExist(d)
    BY DEF Consistent
  <1>t. /\ d.txn \in Table(TxnIds, TxnRow)
        /\ d.split \in Table(SplitIds, SplitRow)
        /\ d.chr \in Table(ChrIds, ChrRow)
        /\ d.cat \in Table(CatIds, Names)
    BY <1>1, Rows
  <1>2. /\ f \in Table(TxnIds, TxnRow)
        /\ \A j : j \in DOMAIN f <=> j \in DOMAIN d.txn /\ j # i
        /\ \A j \in DOMAIN f : f[j] = d.txn[j]
    BY <1>t, WithoutTable
  <1>3. /\ g \in Table(SplitIds, SplitRow)
        /\ \A j : j \in DOMAIN g <=> j \in DOMAIN d.split /\ j \notin SplitsOfTxn(d, i)
        /\ \A s \in DOMAIN g : g[s] = d.split[s]
    BY <1>t, WithoutTable
  <1> HIDE DEF f, g
  <1>4. /\ e \in Databases
        /\ e.txn = f /\ e.split = g /\ e.chr = d.chr /\ e.cat = d.cat
    BY <1>1, <1>2, <1>3 DEF Databases
  <1> HIDE DEF e
  <1>5. OneWallet(e)
    BY <1>1, <1>2, <1>3, <1>4 DEF OneWallet, OwnsTxn, OwnsChr, SplitsOfTxn
  <1>6. CategoriesExist(e)
    BY <1>1, <1>2, <1>4 DEF CategoriesExist
  <1> QED BY <1>4, <1>5, <1>6 DEF Consistent, e, f, g

(* A split is inserted between a transaction and a character of one user,  *)
(* or gets other columns between the same two.                             *)
LEMMA PutSplitConsistent ==
  ASSUME NEW d, Consistent(d), NEW s \in SplitIds, NEW u \in Users,
         NEW i, NEW c, OwnsTxn(d, u, i), OwnsChr(d, u, c), NEW x \in Infos
  PROVE  Consistent([d EXCEPT !.split =
                       Put(@, s, [txn |-> i, chr |-> c, info |-> x])])
  <1> DEFINE row == [txn |-> i, chr |-> c, info |-> x]
             g == Put(d.split, s, row)
             e == [d EXCEPT !.split = g]
  <1>1. d \in Databases /\ OneWallet(d) /\ CategoriesExist(d)
    BY DEF Consistent
  <1>t. /\ d.txn \in Table(TxnIds, TxnRow)
        /\ d.split \in Table(SplitIds, SplitRow)
        /\ d.chr \in Table(ChrIds, ChrRow)
        /\ d.cat \in Table(CatIds, Names)
    BY <1>1, Rows
  <1>2. row \in SplitRow
    BY <1>1, Rows DEF SplitRow, OwnsTxn, OwnsChr
  <1>3. /\ g \in Table(SplitIds, SplitRow)
        /\ \A j : j \in DOMAIN g <=> j \in DOMAIN d.split \/ j = s
        /\ g[s] = row
        /\ \A r \in DOMAIN d.split \ {s} : g[r] = d.split[r]
    BY <1>2, <1>t, PutTable
  <1> HIDE DEF g
  <1>4. /\ e \in Databases
        /\ e.txn = d.txn /\ e.split = g /\ e.chr = d.chr /\ e.cat = d.cat
    BY <1>1, <1>3, ReplaceTable
  <1> HIDE DEF e
  <1>5. OneWallet(e)
    BY <1>1, <1>3, <1>4 DEF OneWallet, OwnsTxn, OwnsChr
  <1>6. CategoriesExist(e)
    BY <1>1, <1>4 DEF CategoriesExist
  <1> QED BY <1>4, <1>5, <1>6 DEF Consistent, e, g

(* Splits are deleted. *)
LEMMA RemoveSplitConsistent ==
  ASSUME NEW d, Consistent(d), NEW S
  PROVE  Consistent([d EXCEPT !.split = Without(@, S)])
  <1> DEFINE g == Without(d.split, S)
             e == [d EXCEPT !.split = g]
  <1>1. d \in Databases /\ OneWallet(d) /\ CategoriesExist(d)
    BY DEF Consistent
  <1>t. /\ d.txn \in Table(TxnIds, TxnRow)
        /\ d.split \in Table(SplitIds, SplitRow)
        /\ d.chr \in Table(ChrIds, ChrRow)
        /\ d.cat \in Table(CatIds, Names)
    BY <1>1, Rows
  <1>2. /\ g \in Table(SplitIds, SplitRow)
        /\ \A j : j \in DOMAIN g <=> j \in DOMAIN d.split /\ j \notin S
        /\ \A r \in DOMAIN g : g[r] = d.split[r]
    BY <1>t, WithoutTable
  <1> HIDE DEF g
  <1>3. /\ e \in Databases
        /\ e.txn = d.txn /\ e.split = g /\ e.chr = d.chr /\ e.cat = d.cat
    BY <1>1, <1>2, ReplaceTable
  <1> HIDE DEF e
  <1>4. OneWallet(e)
    BY <1>1, <1>2, <1>3 DEF OneWallet, OwnsTxn, OwnsChr
  <1>5. CategoriesExist(e)
    BY <1>1, <1>3 DEF CategoriesExist
  <1> QED BY <1>3, <1>4, <1>5 DEF Consistent, e, g

(* A character is inserted, or renamed without changing hands. *)
LEMMA PutChrConsistent ==
  ASSUME NEW d, Consistent(d), NEW c \in ChrIds, NEW u \in Users,
         NEW n \in Names, c \in DOMAIN d.chr => d.chr[c].user = u
  PROVE  Consistent([d EXCEPT !.chr = Put(@, c, [user |-> u, name |-> n])])
  <1> DEFINE row == [user |-> u, name |-> n]
             f == Put(d.chr, c, row)
             e == [d EXCEPT !.chr = f]
  <1>1. d \in Databases /\ OneWallet(d) /\ CategoriesExist(d)
    BY DEF Consistent
  <1>t. /\ d.txn \in Table(TxnIds, TxnRow)
        /\ d.split \in Table(SplitIds, SplitRow)
        /\ d.chr \in Table(ChrIds, ChrRow)
        /\ d.cat \in Table(CatIds, Names)
    BY <1>1, Rows
  <1>2. row \in ChrRow
    BY DEF ChrRow
  <1>3. /\ f \in Table(ChrIds, ChrRow)
        /\ \A j : j \in DOMAIN f <=> j \in DOMAIN d.chr \/ j = c
        /\ f[c] = row
        /\ \A j \in DOMAIN d.chr \ {c} : f[j] = d.chr[j]
    BY <1>2, <1>t, PutTable
  <1> HIDE DEF f
  <1>4. /\ e \in Databases
        /\ e.txn = d.txn /\ e.split = d.split /\ e.chr = f /\ e.cat = d.cat
    BY <1>1, <1>3, ReplaceTable
  <1> HIDE DEF e
  <1>5. \A v : \A j : OwnsChr(d, v, j) => OwnsChr(e, v, j)
    BY <1>3, <1>4 DEF OwnsChr
  <1>6. OneWallet(e)
    BY <1>1, <1>4, <1>5 DEF OneWallet, OwnsTxn
  <1>7. CategoriesExist(e)
    BY <1>1, <1>4 DEF CategoriesExist
  <1> QED BY <1>4, <1>6, <1>7 DEF Consistent, e, f

(* A character is deleted together with its splits. *)
LEMMA RemoveChrConsistent ==
  ASSUME NEW d, Consistent(d), NEW c
  PROVE  Consistent([d EXCEPT !.chr = Without(@, {c}),
                              !.split = Without(@, SplitsOfChr(d, c))])
  <1> DEFINE f == Without(d.chr, {c})
             g == Without(d.split, SplitsOfChr(d, c))
             e == [d EXCEPT !.chr = f, !.split = g]
  <1>1. d \in Databases /\ OneWallet(d) /\ CategoriesExist(d)
    BY DEF Consistent
  <1>t. /\ d.txn \in Table(TxnIds, TxnRow)
        /\ d.split \in Table(SplitIds, SplitRow)
        /\ d.chr \in Table(ChrIds, ChrRow)
        /\ d.cat \in Table(CatIds, Names)
    BY <1>1, Rows
  <1>2. /\ f \in Table(ChrIds, ChrRow)
        /\ \A j : j \in DOMAIN f <=> j \in DOMAIN d.chr /\ j # c
        /\ \A j \in DOMAIN f : f[j] = d.chr[j]
    BY <1>t, WithoutTable
  <1>3. /\ g \in Table(SplitIds, SplitRow)
        /\ \A j : j \in DOMAIN g <=> j \in DOMAIN d.split /\ j \notin SplitsOfChr(d, c)
        /\ \A s \in DOMAIN g : g[s] = d.split[s]
    BY <1>t, WithoutTable
  <1> HIDE DEF f, g
  <1>4. /\ e \in Databases
        /\ e.txn = d.txn /\ e.split = g /\ e.chr = f /\ e.cat = d.cat
    BY <1>1, <1>2, <1>3 DEF Databases
  <1> HIDE DEF e
  <1>5. OneWallet(e)
    BY <1>1, <1>2, <1>3, <1>4 DEF OneWallet, OwnsTxn, OwnsChr, SplitsOfChr
  <1>6. CategoriesExist(e)
    BY <1>1, <1>4 DEF CategoriesExist
  <1> QED BY <1>4, <1>5, <1>6 DEF Consistent, e, f, g

(* A category is inserted or renamed. *)
LEMMA PutCatConsistent ==
  ASSUME NEW d, Consistent(d), NEW c \in CatIds, NEW n \in Names
  PROVE  Consistent([d EXCEPT !.cat = Put(@, c, n)])
  <1> DEFINE f == Put(d.cat, c, n)
             e == [d EXCEPT !.cat = f]
  <1>1. d \in Databases /\ OneWallet(d) /\ CategoriesExist(d)
    BY DEF Consistent
  <1>t. /\ d.txn \in Table(TxnIds, TxnRow)
        /\ d.split \in Table(SplitIds, SplitRow)
        /\ d.chr \in Table(ChrIds, ChrRow)
        /\ d.cat \in Table(CatIds, Names)
    BY <1>1, Rows
  <1>2. /\ f \in Table(CatIds, Names)
        /\ \A j : j \in DOMAIN f <=> j \in DOMAIN d.cat \/ j = c
    BY <1>t, PutTable
  <1> HIDE DEF f
  <1>3. /\ e \in Databases
        /\ e.txn = d.txn /\ e.split = d.split /\ e.chr = d.chr /\ e.cat = f
    BY <1>1, <1>2, ReplaceTable
  <1> HIDE DEF e
  <1>4. OneWallet(e)
    BY <1>1, <1>3 DEF OneWallet, OwnsTxn, OwnsChr
  <1>5. CategoriesExist(e)
    BY <1>1, <1>2, <1>3 DEF CategoriesExist
  <1> QED BY <1>3, <1>4, <1>5 DEF Consistent, e, f

(* A category is deleted and taken from every transaction that had it. *)
LEMMA RemoveCatConsistent ==
  ASSUME NEW d, Consistent(d), NEW c
  PROVE  Consistent([d EXCEPT !.cat = Without(@, {c}),
                              !.txn = Uncategorised(@, c)])
  <1> DEFINE f == Without(d.cat, {c})
             g == Uncategorised(d.txn, c)
             e == [d EXCEPT !.cat = f, !.txn = g]
  <1>1. d \in Databases /\ OneWallet(d) /\ CategoriesExist(d)
    BY DEF Consistent
  <1>t. /\ d.txn \in Table(TxnIds, TxnRow)
        /\ d.split \in Table(SplitIds, SplitRow)
        /\ d.chr \in Table(ChrIds, ChrRow)
        /\ d.cat \in Table(CatIds, Names)
    BY <1>1, Rows
  <1>2. /\ f \in Table(CatIds, Names)
        /\ \A j : j \in DOMAIN f <=> j \in DOMAIN d.cat /\ j # c
    BY <1>t, WithoutTable
  <1>3. /\ g \in Table(TxnIds, TxnRow)
        /\ DOMAIN g = DOMAIN d.txn
        /\ \A i \in DOMAIN g :
             /\ g[i].user = d.txn[i].user
             /\ g[i].cat = IF d.txn[i].cat = c THEN 0 ELSE d.txn[i].cat
    BY <1>t, UncategorisedTable
  <1> HIDE DEF f, g
  <1>4. /\ e \in Databases
        /\ e.txn = g /\ e.split = d.split /\ e.chr = d.chr /\ e.cat = f
    BY <1>1, <1>2, <1>3 DEF Databases
  <1> HIDE DEF e
  <1>5. OneWallet(e)
    BY <1>1, <1>3, <1>4 DEF OneWallet, OwnsTxn, OwnsChr
  <1>6. CategoriesExist(e)
    BY <1>1, <1>2, <1>3, <1>4 DEF CategoriesExist
  <1> QED BY <1>4, <1>5, <1>6 DEF Consistent, e, f, g
=============================================================================
