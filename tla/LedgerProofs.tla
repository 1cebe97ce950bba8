----------------------------- MODULE LedgerProofs -----------------------------
(***************************************************************************)
(* For any number of users, threads, rows and names: the handlers of       *)
(* Ledger.tla change the tables only by the operations of LedgerStore.tla, *)
(* so a split never joins the wallets of two users, and a row that a       *)
(* handler has checked never becomes somebody else's before it is written. *)
(***************************************************************************)
EXTENDS Ledger, WalletTablesProofs

-----------------------------------------------------------------------------
(* LedgerStore.tla speaks of the same tables.                              *)

LEMMA SameTables ==
  /\ Store!TxnIds = TxnIds /\ Store!SplitIds = SplitIds
  /\ Store!ChrIds = ChrIds /\ Store!CatIds = CatIds
  /\ \A f, i, row : Store!Put(f, i, row) = Put(f, i, row)
  /\ \A f, S : Store!Without(f, S) = Without(f, S)
  /\ \A f, c : Store!Uncategorised(f, c) = Uncategorised(f, c)
  /\ \A d, i : Store!SplitsOfTxn(d, i) = SplitsOfTxn(d, i)
  /\ \A d, c : Store!SplitsOfChr(d, c) = SplitsOfChr(d, c)
  <1>1. /\ Store!TxnIds = TxnIds /\ Store!SplitIds = SplitIds
        /\ Store!ChrIds = ChrIds /\ Store!CatIds = CatIds
    BY DEF Store!TxnIds, TxnIds, Store!SplitIds, SplitIds, Store!ChrIds,
       ChrIds, Store!CatIds, CatIds
  <1>2. \A f, i, row : Store!Put(f, i, row) = Put(f, i, row)
    BY DEF Store!Put, Put
  <1>3. \A f, S : Store!Without(f, S) = Without(f, S)
    BY DEF Store!Without, Without
  <1>4. \A f, c : Store!Uncategorised(f, c) = Uncategorised(f, c)
    BY DEF Store!Uncategorised, Uncategorised
  <1>5. /\ \A d, i : Store!SplitsOfTxn(d, i) = SplitsOfTxn(d, i)
        /\ \A d, c : Store!SplitsOfChr(d, c) = SplitsOfChr(d, c)
    BY DEF Store!SplitsOfTxn, SplitsOfTxn, Store!SplitsOfChr, SplitsOfChr
  <1> QED BY <1>1, <1>2, <1>3, <1>4, <1>5

LEMMA SameOwners ==
  /\ \A d, u, i : Store!OwnsTxn(d, u, i) <=> OwnsTxn(d, u, i)
  /\ \A d, u, c : Store!OwnsChr(d, u, c) <=> OwnsChr(d, u, c)
  /\ \A d, u, s : Store!OwnsSplit(d, u, s) <=> OwnsSplit(d, u, s)
  BY DEF Store!OwnsTxn, OwnsTxn, Store!OwnsChr, OwnsChr, Store!OwnsSplit,
     OwnsSplit

LEMMA SameConsistency ==
  ASSUME NEW d PROVE Store!Consistent(d) <=> Consistent(d)
  <1>1. d \in Store!Databases <=> d \in Databases
    BY DEF Databases, Table, TxnIds, SplitIds, ChrIds, CatIds, TxnRow,
       SplitRow, ChrRow, Store!Databases, Store!Table, Store!TxnIds,
       Store!SplitIds, Store!ChrIds, Store!CatIds, Store!TxnRow,
       Store!SplitRow, Store!ChrRow
  <1>2. Store!OneWallet(d) <=> OneWallet(d)
    BY SameOwners DEF OneWallet, Store!OneWallet
  <1>3. Store!CategoriesExist(d) <=> CategoriesExist(d)
    BY DEF CategoriesExist, Store!CategoriesExist
  <1> QED BY <1>1, <1>2, <1>3 DEF Consistent, Store!Consistent

-----------------------------------------------------------------------------
(* The store.                                                              *)

(* Every operation preserves the consistency of the database. *)
LEMMA StoreStep == Store!StoreInv /\ [Store!StoreNext]_db => Store!StoreInv'
  <1> SUFFICES ASSUME Consistent(db), [Store!StoreNext]_db
               PROVE  Consistent(db')
    BY SameConsistency DEF Store!StoreInv
  <1>d. db \in Databases /\ OneWallet(db)
    BY DEF Consistent
  <1>1. ASSUME NEW u \in Users, Store!AddTransaction(u) PROVE Consistent(db')
    <2>1. PICK i \in TxnIds \ DOMAIN db.txn, c \in DOMAIN db.cat \cup {0},
               x \in Infos :
            db' = [db EXCEPT !.txn =
                     Put(@, i, [user |-> u, cat |-> c, info |-> x])]
      BY <1>1, SameTables, SameOwners DEF Store!AddTransaction
    <2> QED BY <2>1, PutTxnConsistent
  <1>2. ASSUME NEW u \in Users, NEW i \in TxnIds, Store!ChangeTransaction(u, i)
        PROVE  Consistent(db')
    <2>1. PICK c \in DOMAIN db.cat \cup {0}, x \in Infos :
            db' = [db EXCEPT !.txn =
                     Put(@, i, [user |-> u, cat |-> c, info |-> x])]
      BY <1>2, SameTables, SameOwners DEF Store!ChangeTransaction
    <2>2. db.txn[i].user = u
      BY <1>2, SameTables, SameOwners DEF Store!ChangeTransaction, OwnsTxn
    <2> QED BY <2>1, <2>2, PutTxnConsistent
  <1>3. ASSUME NEW u \in Users, NEW i \in TxnIds, Store!RemoveTransaction(u, i)
        PROVE  Consistent(db')
    BY <1>3, RemoveTxnConsistent, SameTables, SameOwners
    DEF Store!RemoveTransaction
  <1>4. ASSUME NEW u \in Users, NEW i \in TxnIds, NEW c \in ChrIds,
               Store!AddSplit(u, i, c)
        PROVE  Consistent(db')
    <2>1. PICK s \in SplitIds \ DOMAIN db.split, x \in Infos :
            db' = [db EXCEPT !.split =
                     Put(@, s, [txn |-> i, chr |-> c, info |-> x])]
      BY <1>4, SameTables, SameOwners DEF Store!AddSplit
    <2>2. OwnsTxn(db, u, i) /\ OwnsChr(db, u, c)
      BY <1>4, SameTables, SameOwners DEF Store!AddSplit
    <2> QED BY <2>1, <2>2, PutSplitConsistent
  <1>5. ASSUME NEW u \in Users, NEW s \in SplitIds, Store!ChangeSplit(u, s)
        PROVE  Consistent(db')
    <2>1. PICK x \in Infos :
            db' = [db EXCEPT !.split =
                     Put(@, s, [db.split[s] EXCEPT !.info = x])]
      BY <1>5, SameTables, SameOwners DEF Store!ChangeSplit
    <2>2. s \in DOMAIN db.split
      BY <1>5, SameTables, SameOwners DEF Store!ChangeSplit, OwnsSplit
    <2>3. [db.split[s] EXCEPT !.info = x]
            = [txn |-> db.split[s].txn, chr |-> db.split[s].chr, info |-> x]
      BY <1>d, <2>2, Rows DEF SplitRow
    <2>4. PICK v \in Users : /\ OwnsTxn(db, v, db.split[s].txn)
                             /\ OwnsChr(db, v, db.split[s].chr)
      BY <1>d, <2>2 DEF OneWallet
    <2> QED BY <2>1, <2>3, <2>4, PutSplitConsistent
  <1>6. ASSUME NEW u \in Users, NEW s \in SplitIds, Store!RemoveSplit(u, s)
        PROVE  Consistent(db')
    BY <1>6, RemoveSplitConsistent, SameTables, SameOwners DEF Store!RemoveSplit
  <1>7. ASSUME NEW u \in Users, NEW n \in Names, Store!AddCharacter(u, n)
        PROVE  Consistent(db')
    <2>1. PICK c \in ChrIds \ DOMAIN db.chr :
            db' = [db EXCEPT !.chr = Put(@, c, [user |-> u, name |-> n])]
      BY <1>7, SameTables, SameOwners DEF Store!AddCharacter
    <2> QED BY <2>1, PutChrConsistent
  <1>8. ASSUME NEW u \in Users, NEW n \in Names, NEW c \in ChrIds,
               Store!RenameCharacter(u, c, n)
        PROVE  Consistent(db')
    BY <1>8, PutChrConsistent, SameTables, SameOwners
    DEF Store!RenameCharacter, OwnsChr
  <1>9. ASSUME NEW u \in Users, NEW c \in ChrIds, Store!RemoveCharacter(u, c)
        PROVE  Consistent(db')
    BY <1>9, RemoveChrConsistent, SameTables, SameOwners
    DEF Store!RemoveCharacter
  <1>10. ASSUME NEW n \in Names, Store!AddCategory(n) PROVE Consistent(db')
    BY <1>10, PutCatConsistent, SameTables, SameOwners DEF Store!AddCategory
  <1>11. ASSUME NEW n \in Names, NEW c \in CatIds, Store!RenameCategory(c, n)
         PROVE  Consistent(db')
    BY <1>11, PutCatConsistent, SameTables, SameOwners DEF Store!RenameCategory
  <1>12. ASSUME NEW c \in CatIds, Store!RemoveCategory(c) PROVE Consistent(db')
    BY <1>12, RemoveCatConsistent, SameTables, SameOwners
    DEF Store!RemoveCategory
  <1>13. CASE UNCHANGED db
    BY <1>13
  <1> QED
    BY <1>1, <1>2, <1>3, <1>4, <1>5, <1>6, <1>7, <1>8, <1>9, <1>10, <1>11,
       <1>12, <1>13, SameTables DEF Store!StoreNext

(* What the ledger promises keeps every split within one wallet and every  *)
(* category of a transaction in existence.                                 *)
THEOREM StoreInvariance == Store!StoreSpec => []Store!StoreInv
  BY StoreStep, PTL DEF Store!StoreSpec

-----------------------------------------------------------------------------
(* The writes.                                                             *)

(* Rows stay with their owners: a row of the new database is an old row of *)
(* the same user (for a split: of the same transaction), or has an id that *)
(* this step drew from the sequence.                                       *)
RowsStay ==
  /\ seq' \in SeqValues
  /\ seq.txn <= seq'.txn /\ seq.split <= seq'.split
  /\ seq.chr <= seq'.chr /\ seq.cat <= seq'.cat
  /\ \A i \in DOMAIN db'.txn :
       \/ i \in DOMAIN db.txn /\ db'.txn[i].user = db.txn[i].user
       \/ i = seq.txn /\ i < seq'.txn
  /\ \A s \in DOMAIN db'.split :
       \/ s \in DOMAIN db.split /\ db'.split[s].txn = db.split[s].txn
       \/ s = seq.split /\ s < seq'.split
  /\ \A c \in DOMAIN db'.chr :
       \/ c \in DOMAIN db.chr /\ db'.chr[c].user = db.chr[c].user
       \/ c = seq.chr /\ c < seq'.chr
  /\ \A c \in DOMAIN db'.cat :
       c \in DOMAIN db.cat \/ (c = seq.cat /\ c < seq'.cat)

(* What a step does to the database. *)
Effect == /\ [Store!StoreNext]_db
          /\ Consistent(db')
          /\ RowsStay

(* Drawing from a sequence. *)
LEMMA SeqStep ==
  ASSUME seq \in SeqValues,
         \/ UNCHANGED seq
         \/ seq' = [seq EXCEPT !.txn = Nextval(@, MaxTxn)]
         \/ seq' = [seq EXCEPT !.split = Nextval(@, MaxSplit)]
         \/ seq' = [seq EXCEPT !.chr = Nextval(@, MaxChr)]
         \/ seq' = [seq EXCEPT !.cat = Nextval(@, MaxCat)]
  PROVE  /\ seq' \in SeqValues
         /\ seq.txn <= seq'.txn /\ seq.split <= seq'.split
         /\ seq.chr <= seq'.chr /\ seq.cat <= seq'.cat
  BY TablesAssumption DEF SeqValues, Nextval

(* A step that leaves the tables alone. *)
LEMMA NoWrite ==
  ASSUME IInv, UNCHANGED db, seq' \in SeqValues,
         seq.txn <= seq'.txn, seq.split <= seq'.split,
         seq.chr <= seq'.chr, seq.cat <= seq'.cat
  PROVE  Effect
  BY DEF Effect, RowsStay, Consistent, IInv, TypeOK, SplitsStayInOneWallet

(* The connection may be lost during COMMIT: the write then happened or    *)
(* it did not.                                                             *)
LEMMA WriteOutcome ==
  ASSUME NEW t, NEW newDb, NEW code, NEW id, Write(t, newDb, code, id)
  PROVE  db' = db \/ db' = newDb
  BY DEF Write

(* A transaction of a handler that only looks something up. *)
LEMMA ReadOnly ==
  ASSUME NEW t, NEW found, NEW next, Lookup(t, found, next)
  PROVE  UNCHANGED <<db, seq>>
  BY DEF Lookup, EndRead

(* What every write may rely on. *)
LEMMA Before ==
  ASSUME IInv
  PROVE  /\ Consistent(db) /\ db \in Databases /\ OneWallet(db)
         /\ CategoriesExist(db) /\ Issued(db, seq) /\ seq \in SeqValues
         /\ seq.txn \in Nat \ {0} /\ seq.split \in Nat \ {0}
         /\ seq.chr \in Nat \ {0} /\ seq.cat \in Nat \ {0}
         /\ seq.txn \notin DOMAIN db.txn /\ seq.split \notin DOMAIN db.split
         /\ seq.chr \notin DOMAIN db.chr /\ seq.cat \notin DOMAIN db.cat
  <1>1. /\ Consistent(db) /\ db \in Databases /\ OneWallet(db)
        /\ CategoriesExist(db) /\ Issued(db, seq) /\ seq \in SeqValues
    BY DEF IInv, TypeOK, SplitsStayInOneWallet, Consistent
  <1>2. /\ seq.txn \in Nat \ {0} /\ seq.split \in Nat \ {0}
        /\ seq.chr \in Nat \ {0} /\ seq.cat \in Nat \ {0}
    BY <1>1, TablesAssumption DEF SeqValues
  <1> QED BY <1>1, <1>2 DEF Issued

LEMMA CreateTransactionEffect ==
  ASSUME IInv, NEW t \in Threads, CreateTransaction(t) PROVE Effect
  <1> DEFINE r == req[t]
             i == seq.txn
             row == [user |-> r.user, cat |-> r.cat, info |-> r.info]
             f == Put(db.txn, i, row)
             new == [db EXCEPT !.txn = f]
  <1>0. At(t, "CreateTransaction", "write")
    BY DEF CreateTransaction
  <1>1. seq' = [seq EXCEPT !.txn = Nextval(@, MaxTxn)]
    BY DEF CreateTransaction
  <1>2. \/ db' = db
        \/ /\ i <= MaxTxn /\ r.cat \in DOMAIN db.cat \cup {0}
           /\ r.info \in Infos /\ db' = new
    BY WriteOutcome DEF CreateTransaction
  <1>3. CASE db' = db
    BY <1>1, <1>3, Before, SeqStep, NoWrite
  <1>4. CASE /\ i <= MaxTxn /\ r.cat \in DOMAIN db.cat \cup {0}
             /\ r.info \in Infos /\ db' = new
    <2>1. i \in TxnIds \ DOMAIN db.txn
      BY <1>4, Before, TablesAssumption DEF TxnIds
    <2>2. r.user \in Users /\ r.info \in Infos
      BY <1>0, <1>4 DEF IInv, RequestsAreComplete, At
    <2>3. Consistent(new)
      BY <1>4, <2>1, <2>2, Before, PutTxnConsistent
    <2>4. Store!AddTransaction(r.user)
      BY <1>4, <2>1, <2>2, SameTables DEF Store!AddTransaction
    <2>5. Store!StoreNext
      BY <2>2, <2>4 DEF Store!StoreNext
    <2>6. db.txn \in Table(TxnIds, TxnRow) /\ row \in TxnRow
      BY <1>4, <2>2, Before, Rows DEF TxnRow
    <2>7. /\ \A j : j \in DOMAIN f <=> j \in DOMAIN db.txn \/ j = i
          /\ \A j \in DOMAIN db.txn \ {i} : f[j] = db.txn[j]
      BY <2>1, <2>6, PutTable
    <2>8. /\ db'.txn = f /\ db'.split = db.split
          /\ db'.chr = db.chr /\ db'.cat = db.cat
      BY <1>4, Before DEF Databases
    <2>9. i < seq'.txn
      BY <1>1, <1>4, Before DEF SeqValues, Nextval
    <2> HIDE DEF f, new, i
    <2>10. RowsStay
      BY <1>1, <2>7, <2>8, <2>9, Before, SeqStep DEF RowsStay, i
    <2> QED BY <1>4, <2>3, <2>5, <2>10 DEF Effect
  <1> QED BY <1>2, <1>3, <1>4

LEMMA UpdateTransactionEffect ==
  ASSUME IInv, NEW t \in Threads, UpdateTransaction(t) PROVE Effect
  <1> DEFINE r == req[t]
             i == r.txn
             row == [user |-> db.txn[i].user, cat |-> r.cat, info |-> r.info]
             f == Put(db.txn, i, row)
             new == [db EXCEPT !.txn = f]
  <1>1. CASE UNCHANGED <<db, seq>>
    BY <1>1, Before, SeqStep, NoWrite
  <1>2. CASE /\ At(t, "UpdateTransaction", "write")
             /\ UNCHANGED seq
             /\ i \in DOMAIN db.txn /\ r.cat \in DOMAIN db.cat \cup {0}
             /\ r.info \in Infos /\ db' = new
    <2>1. r.user \in Users /\ r.info \in Infos
      BY <1>2 DEF IInv, RequestsAreComplete, At
    <2>2. OwnsTxn(db, r.user, i)
      BY <1>2 DEF IInv, CheckedRowsKeepTheirOwner, RowsChecked,
                  CheckedTxn, At
    <2>3. i \in TxnIds /\ db.txn[i].user = r.user
      BY <1>2, <2>2, Before, Rows DEF OwnsTxn
    <2>4. Consistent(new)
      BY <1>2, <2>1, <2>3, Before, PutTxnConsistent
    <2>5. Store!ChangeTransaction(r.user, i)
      BY <1>2, <2>1, <2>2, <2>3, SameTables, SameOwners
      DEF Store!ChangeTransaction
    <2>6. Store!StoreNext
      BY <2>1, <2>3, <2>5, SameTables DEF Store!StoreNext
    <2>7. db.txn \in Table(TxnIds, TxnRow) /\ row \in TxnRow
      BY <1>2, <2>1, <2>3, Before, Rows DEF TxnRow
    <2>8. /\ \A j : j \in DOMAIN f <=> j \in DOMAIN db.txn \/ j = i
          /\ f[i] = row
          /\ \A j \in DOMAIN db.txn \ {i} : f[j] = db.txn[j]
      BY <2>3, <2>7, PutTable
    <2>9. /\ db'.txn = f /\ db'.split = db.split
          /\ db'.chr = db.chr /\ db'.cat = db.cat
      BY <1>2, Before DEF Databases
    <2> HIDE DEF f, new
    <2>10. RowsStay
      BY <1>2, <2>8, <2>9, Before, SeqStep DEF RowsStay
    <2> QED BY <1>2, <2>4, <2>6, <2>10 DEF Effect
  <1> QED
    BY <1>1, <1>2, ReadOnly, WriteOutcome DEF UpdateTransaction, UpdatedTxn

LEMMA DeleteTransactionEffect ==
  ASSUME IInv, NEW t \in Threads, DeleteTransaction(t) PROVE Effect
  <1> DEFINE r == req[t]
             i == r.txn
             S == SplitsOfTxn(db, i)
             f == Without(db.txn, {i})
             g == Without(db.split, S)
             new == [db EXCEPT !.txn = f, !.split = g]
  <1>1. CASE UNCHANGED <<db, seq>>
    BY <1>1, Before, SeqStep, NoWrite
  <1>2. CASE /\ At(t, "DeleteTransaction", "write")
             /\ UNCHANGED seq
             /\ db' = WithoutTxn(db, i)
    <2>1. db' = new
      BY <1>2, Before DEF WithoutTxn, Databases
    <2>2. /\ db.txn \in Table(TxnIds, TxnRow)
          /\ db.split \in Table(SplitIds, SplitRow)
      BY Before, Rows
    <2>3. CASE i \in DOMAIN db.txn
      <3>1. r.user \in Users
        BY <1>2 DEF IInv, RequestsAreComplete, At
      <3>2. OwnsTxn(db, r.user, i)
        BY <1>2, <2>3 DEF IInv, CheckedRowsKeepTheirOwner, RowsChecked,
                          CheckedTxn, At
      <3>3. i \in TxnIds
        BY <2>3, Before, Rows
      <3>4. Consistent(db')
        BY <2>1, Before, RemoveTxnConsistent
      <3>5. Store!RemoveTransaction(r.user, i)
        BY <2>1, <3>2, SameTables, SameOwners DEF Store!RemoveTransaction
      <3>6. Store!StoreNext
        BY <3>1, <3>3, <3>5, SameTables DEF Store!StoreNext
      <3>7. /\ \A j : j \in DOMAIN f <=> j \in DOMAIN db.txn /\ j \notin {i}
            /\ \A j \in DOMAIN db.txn \ {i} : f[j] = db.txn[j]
        BY <2>2, WithoutTable
      <3>8. /\ \A s : s \in DOMAIN g <=> s \in DOMAIN db.split /\ s \notin S
            /\ \A s \in DOMAIN db.split \ S : g[s] = db.split[s]
        BY <2>2, WithoutTable
      <3>9. /\ db'.txn = f /\ db'.split = g
            /\ db'.chr = db.chr /\ db'.cat = db.cat
        BY <2>1, Before DEF Databases
      <3> HIDE DEF f, g, new
      <3>10. RowsStay
        BY <1>2, <3>7, <3>8, <3>9, Before, SeqStep DEF RowsStay
      <3> QED BY <3>4, <3>6, <3>10 DEF Effect
    <2>4. CASE i \notin DOMAIN db.txn
      <3>1. S = {}
        BY <2>4, Before DEF OneWallet, OwnsTxn, SplitsOfTxn
      <3>2. f = db.txn /\ g = db.split
        BY <2>2, <2>4, <3>1, WithoutNothing
      <3>3. db' = db
        BY <2>1, <3>2, Before DEF Databases
      <3> QED BY <1>2, <3>3, Before, SeqStep, NoWrite
    <2> QED BY <2>3, <2>4
  <1> QED BY <1>1, <1>2, ReadOnly, WriteOutcome DEF DeleteTransaction

LEMMA CreateSplitEffect ==
  ASSUME IInv, NEW t \in Threads, CreateSplit(t) PROVE Effect
  <1> DEFINE r == req[t]
             s == seq.split
             row == [txn |-> r.txn, chr |-> r.chr, info |-> r.info]
             g == Put(db.split, s, row)
             new == [db EXCEPT !.split = g]
             done == /\ s <= MaxSplit
                     /\ r.txn \in DOMAIN db.txn
                     /\ r.chr \in DOMAIN db.chr
                     /\ SplitsOfTxn(db, r.txn) \cap SplitsOfChr(db, r.chr) = {}
                     /\ r.info \in Infos
  <1>1. CASE UNCHANGED <<db, seq>>
    BY <1>1, Before, SeqStep, NoWrite
  <1>2. CASE /\ At(t, "CreateSplit", "write")
             /\ seq' = [seq EXCEPT !.split = Nextval(@, MaxSplit)]
             /\ db' = db
    BY <1>2, Before, SeqStep, NoWrite
  <1>3. CASE /\ At(t, "CreateSplit", "write")
             /\ seq' = [seq EXCEPT !.split = Nextval(@, MaxSplit)]
             /\ done /\ db' = new
    <2>1. s \in SplitIds \ DOMAIN db.split
      BY <1>3, Before, TablesAssumption DEF SplitIds
    <2>2. r.user \in Users /\ r.info \in Infos
      BY <1>3 DEF IInv, RequestsAreComplete, At
    <2>3. r.txn \in TxnIds /\ r.chr \in ChrIds /\ r.chr # 0
      BY <1>3, Before, Rows, TablesAssumption DEF ChrIds
    <2>4. OwnsTxn(db, r.user, r.txn) /\ OwnsChr(db, r.user, r.chr)
      BY <1>3, <2>3
      DEF IInv, CheckedRowsKeepTheirOwner, RowsChecked, CheckedTxn,
          CheckedChr, At
    <2>5. Consistent(new)
      BY <2>1, <2>2, <2>4, Before, PutSplitConsistent
    <2>6. Store!AddSplit(r.user, r.txn, r.chr)
      BY <1>3, <2>1, <2>2, <2>4, SameTables, SameOwners DEF Store!AddSplit
    <2>7. Store!StoreNext
      BY <2>2, <2>3, <2>6, SameTables DEF Store!StoreNext
    <2>8. db.split \in Table(SplitIds, SplitRow) /\ row \in SplitRow
      BY <2>2, <2>3, Before, Rows DEF SplitRow
    <2>9. /\ \A j : j \in DOMAIN g <=> j \in DOMAIN db.split \/ j = s
          /\ \A j \in DOMAIN db.split \ {s} : g[j] = db.split[j]
      BY <2>1, <2>8, PutTable
    <2>10. /\ db'.txn = db.txn /\ db'.split = g
           /\ db'.chr = db.chr /\ db'.cat = db.cat
      BY <1>3, Before DEF Databases
    <2>11. s < seq'.split
      BY <1>3, Before DEF SeqValues, Nextval
    <2> HIDE DEF g, new, s
    <2>12. RowsStay
      BY <1>3, <2>9, <2>10, <2>11, Before, SeqStep DEF RowsStay, s
    <2> QED BY <1>3, <2>5, <2>7, <2>12 DEF Effect
  <1> QED BY <1>1, <1>2, <1>3, ReadOnly, WriteOutcome DEF CreateSplit

LEMMA UpdateSplitEffect ==
  ASSUME IInv, NEW t \in Threads, UpdateSplit(t) PROVE Effect
  <1> DEFINE r == req[t]
             s == r.split
             old == db.split[s]
             row == [old EXCEPT !.info = r.info]
             g == Put(db.split, s, row)
             new == [db EXCEPT !.split = g]
  <1>1. CASE UNCHANGED <<db, seq>>
    BY <1>1, Before, SeqStep, NoWrite
  <1>2. CASE /\ At(t, "UpdateSplit", "write")
             /\ UNCHANGED seq
             /\ s \in DOMAIN db.split /\ r.info \in Infos
             /\ db' = new
    <2>1. r.user \in Users /\ r.info \in Infos
      BY <1>2 DEF IInv, RequestsAreComplete, At
    <2>2. OwnsSplit(db, r.user, s)
      BY <1>2 DEF IInv, CheckedRowsKeepTheirOwner, RowsChecked,
                  CheckedSplit, At
    <2>3. s \in SplitIds /\ old \in SplitRow
      BY <1>2, Before, Rows
    <2>4. /\ row = [txn |-> old.txn, chr |-> old.chr, info |-> r.info]
          /\ row \in SplitRow
      BY <2>1, <2>3 DEF SplitRow
    <2>5. PICK v \in Users : OwnsTxn(db, v, old.txn) /\ OwnsChr(db, v, old.chr)
      BY <1>2, Before DEF OneWallet
    <2>6. Consistent(new)
      BY <2>1, <2>3, <2>4, <2>5, Before, PutSplitConsistent
    <2>7. Store!ChangeSplit(r.user, s)
      BY <1>2, <2>1, <2>2, SameTables, SameOwners DEF Store!ChangeSplit
    <2>8. Store!StoreNext
      BY <2>1, <2>3, <2>7, SameTables DEF Store!StoreNext
    <2>9. db.split \in Table(SplitIds, SplitRow)
      BY Before, Rows
    <2>10. /\ \A j : j \in DOMAIN g <=> j \in DOMAIN db.split \/ j = s
           /\ g[s] = row
           /\ \A j \in DOMAIN db.split \ {s} : g[j] = db.split[j]
      BY <2>3, <2>4, <2>9, PutTable
    <2>11. g[s].txn = old.txn
      BY <2>4, <2>10
    <2>12. /\ db'.txn = db.txn /\ db'.split = g
           /\ db'.chr = db.chr /\ db'.cat = db.cat
      BY <1>2, Before DEF Databases
    <2> HIDE DEF g, new, row
    <2>13. RowsStay
      BY <1>2, <2>10, <2>11, <2>12, Before, SeqStep DEF RowsStay
    <2> QED BY <1>2, <2>6, <2>8, <2>13 DEF Effect
  <1> QED BY <1>1, <1>2, ReadOnly, WriteOutcome DEF UpdateSplit, UpdatedSplit

LEMMA DeleteSplitEffect ==
  ASSUME IInv, NEW t \in Threads, DeleteSplit(t) PROVE Effect
  <1> DEFINE r == req[t]
             s == r.split
             g == Without(db.split, {s})
             new == [db EXCEPT !.split = g]
  <1>1. CASE UNCHANGED <<db, seq>>
    BY <1>1, Before, SeqStep, NoWrite
  <1>2. CASE /\ At(t, "DeleteSplit", "write")
             /\ UNCHANGED seq
             /\ db' = new
    <2>1. db.split \in Table(SplitIds, SplitRow)
      BY Before, Rows
    <2>2. CASE s \in DOMAIN db.split
      <3>1. r.user \in Users
        BY <1>2 DEF IInv, RequestsAreComplete, At
      <3>2. OwnsSplit(db, r.user, s) /\ s \in SplitIds
        BY <1>2, <2>2, Before, Rows
        DEF IInv, CheckedRowsKeepTheirOwner, RowsChecked,
            CheckedSplit, At
      <3>3. Consistent(new)
        BY Before, RemoveSplitConsistent
      <3>4. Store!RemoveSplit(r.user, s)
        BY <1>2, <3>2, SameTables, SameOwners DEF Store!RemoveSplit
      <3>5. Store!StoreNext
        BY <3>1, <3>2, <3>4, SameTables DEF Store!StoreNext
      <3>6. /\ \A j : j \in DOMAIN g <=> j \in DOMAIN db.split /\ j \notin {s}
            /\ \A j \in DOMAIN db.split \ {s} : g[j] = db.split[j]
        BY <2>1, WithoutTable
      <3>7. /\ db'.txn = db.txn /\ db'.split = g
            /\ db'.chr = db.chr /\ db'.cat = db.cat
        BY <1>2, Before DEF Databases
      <3> HIDE DEF g, new
      <3>8. RowsStay
        BY <1>2, <3>6, <3>7, Before, SeqStep DEF RowsStay
      <3> QED BY <1>2, <3>3, <3>5, <3>8 DEF Effect
    <2>3. CASE s \notin DOMAIN db.split
      <3>1. g = db.split
        BY <2>1, <2>3, WithoutNothing
      <3>2. db' = db
        BY <1>2, <3>1, Before DEF Databases
      <3> QED BY <1>2, <3>2, Before, SeqStep, NoWrite
    <2> QED BY <2>2, <2>3
  <1> QED BY <1>1, <1>2, ReadOnly, WriteOutcome DEF DeleteSplit

LEMMA ManageCharacterEffect ==
  ASSUME IInv, NEW t \in Threads, ManageCharacter(t) PROVE Effect
  <1> DEFINE r == req[t]
             row == [user |-> r.user, name |-> r.name]
             NewChr(c) == [db EXCEPT !.chr = Put(@, c, row)]
  <1>1. CASE UNCHANGED <<db, seq>>
    BY <1>1, Before, SeqStep, NoWrite
  <1>2. CASE UNCHANGED db /\ seq' = [seq EXCEPT !.chr = Nextval(@, MaxChr)]
    BY <1>2, Before, SeqStep, NoWrite
  <1>3. ASSUME At(t, "ManageCharacter", "write"), r.name \in Names
        PROVE  r.user \in Users /\ row \in ChrRow
    BY <1>3 DEF IInv, RequestsAreComplete, At, ChrRow
  <1>4. db.chr \in Table(ChrIds, ChrRow)
    BY Before, Rows
  <1>5. ASSUME At(t, "ManageCharacter", "write"), r.name \in Names,
               NEW c \in ChrIds, db' = NewChr(c)
        PROVE  /\ \A j : j \in DOMAIN db'.chr <=> j \in DOMAIN db.chr \/ j = c
               /\ db'.chr[c] = row
               /\ \A j \in DOMAIN db.chr \ {c} : db'.chr[j] = db.chr[j]
               /\ db'.txn = db.txn /\ db'.split = db.split /\ db'.cat = db.cat
    <2> DEFINE f == Put(db.chr, c, row)
    <2>1. /\ \A j : j \in DOMAIN f <=> j \in DOMAIN db.chr \/ j = c
          /\ f[c] = row
          /\ \A j \in DOMAIN db.chr \ {c} : f[j] = db.chr[j]
      BY <1>3, <1>4, <1>5, PutTable
    <2>2. /\ db'.txn = db.txn /\ db'.split = db.split
          /\ db'.chr = f /\ db'.cat = db.cat
      BY <1>5, Before DEF Databases
    <2> QED BY <2>1, <2>2
  <1>6. CASE /\ At(t, "ManageCharacter", "write")
             /\ r.chr # 0
             /\ UNCHANGED seq
             /\ OwnsChr(db, r.user, r.chr)
             /\ ~ TakenByOther(db, r.user, r.name, r.chr) /\ r.name \in Names
             /\ db' = NewChr(r.chr)
    <2>1. /\ r.chr \in DOMAIN db.chr /\ r.chr \in ChrIds
          /\ db.chr[r.chr] \in ChrRow /\ db.chr[r.chr].user = r.user
      BY <1>6, Before, Rows DEF OwnsChr
    <2>2. CASE db.chr[r.chr] = row
      <3>1. Put(db.chr, r.chr, row) = db.chr
        BY <1>4, <1>6, <2>2, PutNothing DEF OwnsChr
      <3>2. db' = db
        BY <1>6, <3>1, Before DEF Databases
      <3> QED BY <1>1, <1>6, <3>2
    <2>3. CASE db.chr[r.chr] # row
      <3>1. Consistent(db')
        BY <1>3, <1>6, <2>1, Before, PutChrConsistent
      <3>2. \A e \in DOMAIN db.chr : db.chr[e] # row
        BY <1>6, <2>3 DEF TakenByOther
      <3>3. Store!NameIsFree(r.user, r.name)
        BY <3>2, Before, Rows DEF Store!NameIsFree, ChrRow
      <3>4. Store!RenameCharacter(r.user, r.chr, r.name)
        BY <1>6, <3>3, SameTables, SameOwners DEF Store!RenameCharacter
      <3>5. Store!StoreNext
        BY <1>3, <1>6, <2>1, <3>4, SameTables DEF Store!StoreNext
      <3>6. RowsStay
        BY <1>5, <1>6, <2>1, Before, SeqStep DEF RowsStay
      <3> QED BY <3>1, <3>5, <3>6 DEF Effect
    <2> QED BY <2>2, <2>3
  <1>7. CASE /\ At(t, "ManageCharacter", "write")
             /\ seq' = [seq EXCEPT !.chr = Nextval(@, MaxChr)]
             /\ seq.chr <= MaxChr
             /\ ~ TakenByOther(db, r.user, r.name, 0) /\ r.name \in Names
             /\ db' = NewChr(seq.chr)
    <2>1. seq.chr \in ChrIds \ DOMAIN db.chr
      BY <1>7, Before, TablesAssumption DEF ChrIds
    <2>2. Consistent(db')
      BY <1>3, <1>7, <2>1, Before, PutChrConsistent
    <2>3. \A e \in DOMAIN db.chr : e # 0 /\ db.chr[e] # row
      BY <1>7, Before, Rows, TablesAssumption DEF TakenByOther, ChrIds
    <2>4. Store!NameIsFree(r.user, r.name)
      BY <2>3, Before, Rows DEF Store!NameIsFree, ChrRow
    <2>5. Store!AddCharacter(r.user, r.name)
      BY <1>7, <2>1, <2>4, SameTables DEF Store!AddCharacter
    <2>6. Store!StoreNext
      BY <1>3, <1>7, <2>5 DEF Store!StoreNext
    <2>7. seq.chr < seq'.chr
      BY <1>7, Before DEF SeqValues, Nextval
    <2>8. RowsStay
      BY <1>5, <1>7, <2>1, <2>7, Before, SeqStep DEF RowsStay
    <2> QED BY <2>2, <2>6, <2>8 DEF Effect
  <1> QED
    BY <1>1, <1>2, <1>6, <1>7, ReadOnly, WriteOutcome
    DEF ManageCharacter, RenamedChr

LEMMA DeleteCharacterEffect ==
  ASSUME IInv, NEW t \in Threads, DeleteCharacter(t) PROVE Effect
  <1> DEFINE r == req[t]
             c == r.chr
             S == SplitsOfChr(db, c)
             f == Without(db.chr, {c})
             g == Without(db.split, S)
             new == [db EXCEPT !.chr = f, !.split = g]
  <1>1. CASE UNCHANGED <<db, seq>>
    BY <1>1, Before, SeqStep, NoWrite
  <1>2. CASE /\ At(t, "DeleteCharacter", "write")
             /\ UNCHANGED seq
             /\ db' = WithoutChr(db, r.user, c)
    <2>1. /\ db.chr \in Table(ChrIds, ChrRow)
          /\ db.split \in Table(SplitIds, SplitRow)
      BY Before, Rows
    <2>2. CASE c \in DOMAIN db.chr
      <3>1. r.user \in Users
        BY <1>2 DEF IInv, RequestsAreComplete, At
      <3>2. c \in ChrIds /\ c # 0
        BY <2>2, Before, Rows, TablesAssumption DEF ChrIds
      <3>3. OwnsChr(db, r.user, c)
        BY <1>2, <2>2, <3>2 DEF IInv, CheckedRowsKeepTheirOwner, RowsChecked,
                                CheckedChr, At
      <3>4. {e \in {c} : OwnsChr(db, r.user, e)} = {c}
        BY <3>3
      <3>5. db' = new
        BY <1>2, <3>4, Before DEF WithoutChr, Databases
      <3>6. Consistent(db')
        BY <3>5, Before, RemoveChrConsistent
      <3>7. Store!RemoveCharacter(r.user, c)
        BY <3>3, <3>5, SameTables, SameOwners DEF Store!RemoveCharacter
      <3>8. Store!StoreNext
        BY <3>1, <3>2, <3>7, SameTables DEF Store!StoreNext
      <3>9. /\ \A j : j \in DOMAIN f <=> j \in DOMAIN db.chr /\ j \notin {c}
            /\ \A j \in DOMAIN db.chr \ {c} : f[j] = db.chr[j]
        BY <2>1, WithoutTable
      <3>10. /\ \A s : s \in DOMAIN g <=> s \in DOMAIN db.split /\ s \notin S
             /\ \A s \in DOMAIN db.split \ S : g[s] = db.split[s]
        BY <2>1, WithoutTable
      <3>11. /\ db'.txn = db.txn /\ db'.split = g
             /\ db'.chr = f /\ db'.cat = db.cat
        BY <3>5, Before DEF Databases
      <3> HIDE DEF f, g, new
      <3>12. RowsStay
        BY <1>2, <3>9, <3>10, <3>11, Before, SeqStep DEF RowsStay
      <3> QED BY <3>6, <3>8, <3>12 DEF Effect
    <2>3. CASE c \notin DOMAIN db.chr
      <3>1. S = {}
        BY <2>3, Before DEF OneWallet, OwnsChr, SplitsOfChr
      <3>2. {e \in {c} : OwnsChr(db, r.user, e)} = {}
        BY <2>3 DEF OwnsChr
      <3>3. Without(db.chr, {}) = db.chr /\ g = db.split
        BY <2>1, <3>1, WithoutNothing
      <3>4. db' = db
        BY <1>2, <3>2, <3>3, Before DEF WithoutChr, Databases
      <3> QED BY <1>1, <1>2, <3>4
    <2> QED BY <2>2, <2>3
  <1>3. ASSUME At(t, "DeleteCharacter", "chr"), EndRead(t)
        PROVE  UNCHANGED <<db, seq>>
    BY <1>3 DEF EndRead
  <1> QED BY <1>1, <1>2, <1>3, WriteOutcome DEF DeleteCharacter

LEMMA ManageCategoryEffect ==
  ASSUME IInv, NEW t \in Threads, ManageCategory(t) PROVE Effect
  <1> DEFINE r == req[t]
             NewCat(c) == [db EXCEPT !.cat = Put(@, c, r.name)]
  <1>1. CASE UNCHANGED <<db, seq>>
    BY <1>1, Before, SeqStep, NoWrite
  <1>2. CASE UNCHANGED db /\ seq' = [seq EXCEPT !.cat = Nextval(@, MaxCat)]
    BY <1>2, Before, SeqStep, NoWrite
  <1>3. ASSUME At(t, "ManageCategory", "write")
        PROVE  r.user \in Users
    BY <1>3 DEF IInv, RequestsAreComplete, At
  <1>4. db.cat \in Table(CatIds, Names)
    BY Before, Rows
  <1>5. ASSUME At(t, "ManageCategory", "write"), r.name \in Names,
               NEW c \in CatIds, db' = NewCat(c)
        PROVE  /\ \A j : j \in DOMAIN db'.cat <=> j \in DOMAIN db.cat \/ j = c
               /\ db'.txn = db.txn /\ db'.split = db.split /\ db'.chr = db.chr
    <2> DEFINE f == Put(db.cat, c, r.name)
    <2>1. \A j : j \in DOMAIN f <=> j \in DOMAIN db.cat \/ j = c
      BY <1>3, <1>4, <1>5, PutTable
    <2>2. /\ db'.txn = db.txn /\ db'.split = db.split
          /\ db'.chr = db.chr /\ db'.cat = f
      BY <1>5, Before DEF Databases
    <2> QED BY <2>1, <2>2
  <1>6. CASE /\ At(t, "ManageCategory", "write")
             /\ UNCHANGED seq
             /\ r.cat \in DOMAIN db.cat
             /\ ~ CategoryTaken(db, r.name, r.cat) /\ r.name \in Names
             /\ db' = NewCat(r.cat)
    <2>1. r.cat \in CatIds
      BY <1>6, Before, Rows
    <2>2. CASE db.cat[r.cat] = r.name
      <3>1. Put(db.cat, r.cat, r.name) = db.cat
        BY <1>4, <1>6, <2>2, PutNothing
      <3>2. db' = db
        BY <1>6, <3>1, Before DEF Databases
      <3> QED BY <1>1, <1>6, <3>2
    <2>3. CASE db.cat[r.cat] # r.name
      <3>1. Consistent(db')
        BY <1>3, <1>6, <2>1, Before, PutCatConsistent
      <3>2. \A e \in DOMAIN db.cat : db.cat[e] # r.name
        BY <1>6, <2>3 DEF CategoryTaken
      <3>3. Store!RenameCategory(r.cat, r.name)
        BY <1>6, <3>2, SameTables DEF Store!RenameCategory
      <3>4. Store!StoreNext
        BY <1>3, <1>6, <2>1, <3>3, SameTables DEF Store!StoreNext
      <3>5. RowsStay
        BY <1>5, <1>6, <2>1, Before, SeqStep DEF RowsStay
      <3> QED BY <3>1, <3>4, <3>5 DEF Effect
    <2> QED BY <2>2, <2>3
  <1>7. CASE /\ At(t, "ManageCategory", "write")
             /\ seq' = [seq EXCEPT !.cat = Nextval(@, MaxCat)]
             /\ seq.cat <= MaxCat
             /\ ~ CategoryTaken(db, r.name, 0) /\ r.name \in Names
             /\ db' = NewCat(seq.cat)
    <2>1. seq.cat \in CatIds \ DOMAIN db.cat
      BY <1>7, Before, TablesAssumption DEF CatIds
    <2>2. Consistent(db')
      BY <1>3, <1>7, <2>1, Before, PutCatConsistent
    <2>3. \A e \in DOMAIN db.cat : db.cat[e] # r.name
      BY <1>7, Before, Rows, TablesAssumption DEF CategoryTaken, CatIds
    <2>4. Store!AddCategory(r.name)
      BY <1>7, <2>1, <2>3, SameTables DEF Store!AddCategory
    <2>5. Store!StoreNext
      BY <1>3, <1>7, <2>4 DEF Store!StoreNext
    <2>6. seq.cat < seq'.cat
      BY <1>7, Before DEF SeqValues, Nextval
    <2>7. RowsStay
      BY <1>5, <1>7, <2>1, <2>6, Before, SeqStep DEF RowsStay
    <2> QED BY <2>2, <2>5, <2>7 DEF Effect
  <1> QED
    BY <1>1, <1>2, <1>6, <1>7, ReadOnly, WriteOutcome
    DEF ManageCategory, RenamedCat

LEMMA DeleteCategoryEffect ==
  ASSUME IInv, NEW t \in Threads, DeleteCategory(t) PROVE Effect
  <1> DEFINE r == req[t]
             c == r.cat
             f == Without(db.cat, {c})
             g == Uncategorised(db.txn, c)
             new == [db EXCEPT !.cat = f, !.txn = g]
  <1>1. CASE UNCHANGED <<db, seq>>
    BY <1>1, Before, SeqStep, NoWrite
  <1>2. CASE /\ At(t, "DeleteCategory", "write")
             /\ UNCHANGED seq
             /\ db' = WithoutCat(db, r.user, c)
    <2>1. /\ db.txn \in Table(TxnIds, TxnRow)
          /\ db.cat \in Table(CatIds, Names)
      BY Before, Rows
    <2>2. db' = new
      BY <1>2, Before DEF WithoutCat, Databases
    <2>3. CASE c \in DOMAIN db.cat
      <3>1. c \in CatIds
        BY <2>3, Before, Rows
      <3>2. Consistent(db')
        BY <2>2, Before, RemoveCatConsistent
      <3>3. Store!RemoveCategory(c)
        BY <2>2, <2>3, SameTables DEF Store!RemoveCategory
      <3>4. Store!StoreNext
        BY <3>1, <3>3, SameTables DEF Store!StoreNext
      <3>5. \A j : j \in DOMAIN f <=> j \in DOMAIN db.cat /\ j \notin {c}
        BY <2>1, WithoutTable
      <3>6. /\ DOMAIN g = DOMAIN db.txn
            /\ \A i \in DOMAIN db.txn : g[i].user = db.txn[i].user
        BY <2>1, UncategorisedTable
      <3>7. /\ db'.txn = g /\ db'.split = db.split
            /\ db'.chr = db.chr /\ db'.cat = f
        BY <2>2, Before DEF Databases
      <3> HIDE DEF f, g, new
      <3>8. RowsStay
        BY <1>2, <3>5, <3>6, <3>7, Before, SeqStep DEF RowsStay
      <3> QED BY <3>2, <3>4, <3>8 DEF Effect
    <2>4. CASE c \notin DOMAIN db.cat
      <3>1. \A i \in DOMAIN db.txn : db.txn[i].cat = c => c = 0
        BY <2>4, Before DEF CategoriesExist
      <3>2. f = db.cat /\ g = db.txn
        BY <2>1, <2>4, <3>1, WithoutNothing, UncategorisedNothing
      <3>3. db' = db
        BY <2>2, <3>2, Before DEF Databases
      <3> QED BY <1>1, <1>2, <3>3
    <2> QED BY <2>3, <2>4
  <1> QED BY <1>1, <1>2, ReadOnly, WriteOutcome DEF DeleteCategory

(* Every step of the system changes the tables by one operation of the     *)
(* store, or not at all.                                                   *)
LEMMA NextEffect == IInv /\ [Next]_vars => Effect
  <1> SUFFICES ASSUME IInv, [Next]_vars PROVE Effect
    OBVIOUS
  <1>1. CASE UNCHANGED <<db, seq>>
    BY <1>1, Before, SeqStep, NoWrite
  <1>2. ASSUME NEW t \in Threads, Handler(t) PROVE Effect
    BY <1>2, CreateTransactionEffect, UpdateTransactionEffect,
       DeleteTransactionEffect, CreateSplitEffect, UpdateSplitEffect,
       DeleteSplitEffect, ManageCharacterEffect, DeleteCharacterEffect,
       ManageCategoryEffect, DeleteCategoryEffect
    DEF Handler
  <1>3. ASSUME NEW t \in Threads, Call(t) PROVE UNCHANGED <<db, seq>>
    BY <1>3 DEF Call
  <1>4. ASSUME NEW t \in Threads, Step(t), ~ Handler(t)
        PROVE  UNCHANGED <<db, seq>>
    BY <1>4 DEF Step, EmptyToken, Begin, Acquire, Refuse, Authenticate,
       EndRead, Crash, Terminate, NullDereference
  <1>5. CASE Environment
    BY <1>1, <1>5 DEF Environment, Drop, Start
  <1>6. CASE UNCHANGED vars
    BY <1>1, <1>6 DEF vars
  <1> QED BY <1>1, <1>2, <1>3, <1>4, <1>5, <1>6 DEF Next

-----------------------------------------------------------------------------
(* The calls.                                                              *)

(* The fields a valid request needs. *)
Complete(r) ==
  r.valid =>
    /\ r.user \in Users
    /\ r.op \in {"CreateTransaction", "UpdateTransaction", "CreateSplit",
                 "UpdateSplit"} => r.info \in AskedInfos
    /\ r.op \in {"ManageCharacter", "ManageCategory"}
         => r.name \in AskedNames
    /\ r.op = "DeleteCategory" => r.cat # 0

LEMMA EmptyRequest == /\ NoReq \in RequestType
                      /\ ~ NoReq.valid
                      /\ NoReq.op = "none"
                      /\ Complete(NoReq)
  BY LedgerAssumption DEF RequestType, Complete

(* The requests that clients send. *)
LEMMA SentRequests ==
  ASSUME NEW r \in Requests PROVE r \in RequestType /\ Complete(r)
  <1> DEFINE Good(q) == q \in RequestType /\ Complete(q)
  <1>1. CASE r \in {[NoReq EXCEPT !.user = u] : u \in Clients \cup {NoUser}}
    BY <1>1, LedgerAssumption DEF RequestType, Complete
  <1>2. ASSUME NEW u \in Clients, r \in RequestsOf(u) PROVE Good(r)
    <2>1. u \in Users
      BY LedgerAssumption
    <2>2. ASSUME NEW o \in AllOps, NEW i \in TxnIds \cup {0},
                 NEW s \in SplitIds \cup {0}, NEW c \in ChrIds \cup {0},
                 NEW k \in CatIds \cup {0}, NEW n \in AskedNames \cup {NoName},
                 NEW x \in AskedInfos \cup {NoInfo},
                 o \in {"CreateTransaction", "UpdateTransaction",
                        "CreateSplit", "UpdateSplit"} => x \in AskedInfos,
                 o \in {"ManageCharacter", "ManageCategory"} => n \in AskedNames,
                 o = "DeleteCategory" => k # 0
          PROVE  Good(Request(o, u, i, s, c, k, n, x))
      BY <2>1, <2>2 DEF Request, RequestType, Complete
    <2> HIDE DEF Good
    <2>3. /\ \A k \in CatIds \cup {0}, x \in AskedInfos :
               Good(Request("CreateTransaction", u, 0, 0, 0, k, NoName, x))
          /\ \A i \in TxnIds, k \in CatIds \cup {0}, x \in AskedInfos :
               Good(Request("UpdateTransaction", u, i, 0, 0, k, NoName, x))
          /\ \A i \in TxnIds :
               Good(Request("DeleteTransaction", u, i, 0, 0, 0, NoName, NoInfo))
      BY <2>2 DEF AllOps
    <2>4. /\ \A i \in TxnIds, c \in ChrIds, x \in AskedInfos :
               Good(Request("CreateSplit", u, i, 0, c, 0, NoName, x))
          /\ \A s \in SplitIds, x \in AskedInfos :
               Good(Request("UpdateSplit", u, 0, s, 0, 0, NoName, x))
          /\ \A s \in SplitIds :
               Good(Request("DeleteSplit", u, 0, s, 0, 0, NoName, NoInfo))
      BY <2>2 DEF AllOps
    <2>5. /\ \A c \in ChrIds \cup {0}, n \in AskedNames :
               Good(Request("ManageCharacter", u, 0, 0, c, 0, n, NoInfo))
          /\ \A c \in ChrIds :
               Good(Request("DeleteCharacter", u, 0, 0, c, 0, NoName, NoInfo))
          /\ \A k \in CatIds \cup {0}, n \in AskedNames :
               Good(Request("ManageCategory", u, 0, 0, 0, k, n, NoInfo))
          /\ \A k \in CatIds :
               Good(Request("DeleteCategory", u, 0, 0, 0, k, NoName, NoInfo))
      <3>1. \A k \in CatIds : k # 0
        BY TablesAssumption DEF CatIds
      <3> QED BY <2>2, <3>1 DEF AllOps
    <2> QED BY <1>2, <2>3, <2>4, <2>5 DEF RequestsOf
  <1>3. \/ r \in {[NoReq EXCEPT !.user = u] : u \in Clients \cup {NoUser}}
        \/ r \in UNION {RequestsOf(u) : u \in Clients}
    BY Zenon DEF Requests
  <1>4. ASSUME r \in UNION {RequestsOf(u) : u \in Clients}
        PROVE  \E u \in Clients : r \in RequestsOf(u)
    BY <1>4
  <1> QED BY <1>1, <1>2, <1>3, <1>4

(* The threads' calls: the part of the invariant that is not about the     *)
(* tables.                                                                 *)
Calls == /\ pc \in [Threads -> Stages]
         /\ req \in [Threads -> RequestType]
         /\ reply \in [to : Threads \cup {NoThread}, code : Codes, id : Ids]
         /\ \A t \in Threads :
              /\ pc[t] \notin {"idle", "auth"} => req[t].valid
              /\ Complete(req[t])

LEMMA CallsNow == ASSUME IInv PROVE Calls
  BY DEF IInv, TypeOK, RequestsAreComplete, Calls, Complete

LEMMA NoReplyType ==
  NoReply \in [to : Threads \cup {NoThread}, code : Codes, id : Ids]
  BY DEF NoReply, Codes, Ids

LEMMA GoCalls ==
  ASSUME Calls, NEW t \in Threads, NEW stage \in Stages, Go(t, stage),
         req[t].valid
  PROVE  Calls'
  BY NoReplyType DEF Calls, Go, Complete

LEMMA ReplyCalls ==
  ASSUME Calls, NEW t \in Threads, NEW code \in Codes, NEW id \in Ids,
         Reply(t, code, id)
  PROVE  Calls'
  BY EmptyRequest DEF Calls, Reply, Stages, Complete

LEMMA LostCalls ==
  ASSUME Lost PROVE Calls'
  BY EmptyRequest, NoReplyType DEF Calls, Lost, Stages, Complete

LEMMA WriteCalls ==
  ASSUME Calls, NEW t \in Threads, NEW newDb, NEW code \in Codes,
         NEW id \in Ids, Write(t, newDb, code, id)
  PROVE  Calls'
  BY ReplyCalls, LostCalls DEF Write

LEMMA LookupCalls ==
  ASSUME Calls, NEW t \in Threads, NEW found, NEW next \in Stages,
         pc[t] \notin {"idle", "auth"}, Lookup(t, found, next)
  PROVE  Calls'
  <1>1. req[t].valid
    BY DEF Calls
  <1>2. CASE Go(t, next)
    BY <1>1, <1>2, GoCalls
  <1>3. CASE Reply(t, "NOT_FOUND", 0)
    BY <1>3, ReplyCalls DEF Codes, Ids
  <1> QED BY <1>2, <1>3 DEF Lookup

LEMMA HandlerCalls ==
  ASSUME IInv, NEW t \in Threads, Handler(t) PROVE Calls'
  <1> DEFINE r == req[t]
  <1>1. Calls
    BY CallsNow
  <1>2. /\ "OK" \in Codes /\ "SERVER_ERROR" \in Codes
        /\ "INVALID_REQUEST" \in Codes /\ "NOT_FOUND" \in Codes
    BY DEF Codes
  <1>3. "write" \in Stages /\ "chr" \in Stages
    BY DEF Stages
  <1>4. /\ 0 \in Ids /\ r.chr \in Ids /\ r.cat \in Ids
        /\ seq.txn <= MaxTxn => seq.txn \in Ids
        /\ seq.split <= MaxSplit => seq.split \in Ids
        /\ seq.chr <= MaxChr => seq.chr \in Ids
        /\ seq.cat <= MaxCat => seq.cat \in Ids
    <2>1. r \in RequestType
      BY <1>1 DEF Calls
    <2>2. r.chr \in ChrIds \cup {0} /\ r.cat \in CatIds \cup {0}
      BY <2>1 DEF RequestType
    <2> QED
      BY <2>2, Before, TablesAssumption
      DEF Ids, TxnIds, SplitIds, ChrIds, CatIds
  <1>5. CASE CreateTransaction(t)
    BY <1>1, <1>2, <1>4, <1>5, WriteCalls DEF CreateTransaction
  <1>6. CASE UpdateTransaction(t)
    BY <1>1, <1>2, <1>3, <1>4, <1>6, WriteCalls, LookupCalls
    DEF UpdateTransaction, At
  <1>7. CASE DeleteTransaction(t)
    BY <1>1, <1>2, <1>3, <1>4, <1>7, WriteCalls, LookupCalls
    DEF DeleteTransaction, At
  <1>8. CASE CreateSplit(t)
    BY <1>1, <1>2, <1>3, <1>4, <1>8, WriteCalls, LookupCalls
    DEF CreateSplit, At
  <1>9. CASE UpdateSplit(t)
    BY <1>1, <1>2, <1>3, <1>4, <1>9, WriteCalls, LookupCalls
    DEF UpdateSplit, At
  <1>10. CASE DeleteSplit(t)
    BY <1>1, <1>2, <1>3, <1>4, <1>10, WriteCalls, LookupCalls
    DEF DeleteSplit, At
  <1>11. CASE ManageCharacter(t)
    BY <1>1, <1>2, <1>3, <1>4, <1>11, WriteCalls, LookupCalls
    DEF ManageCharacter, At
  <1>12. CASE DeleteCharacter(t)
    <2>1. CASE At(t, "DeleteCharacter", "chr")
      <3>1. r.valid
        BY <1>1, <2>1 DEF Calls, At
      <3> QED BY <1>1, <1>2, <1>3, <1>4, <1>12, <2>1, <3>1, GoCalls, ReplyCalls
              DEF DeleteCharacter, At
    <2>2. CASE At(t, "DeleteCharacter", "write")
      BY <1>1, <1>2, <1>4, <1>12, <2>2, WriteCalls DEF DeleteCharacter, At
    <2> QED BY <1>12, <2>1, <2>2 DEF DeleteCharacter
  <1>13. CASE ManageCategory(t)
    BY <1>1, <1>2, <1>3, <1>4, <1>13, WriteCalls, LookupCalls
    DEF ManageCategory, At
  <1>14. CASE DeleteCategory(t)
    BY <1>1, <1>2, <1>3, <1>4, <1>14, WriteCalls, LookupCalls
    DEF DeleteCategory, At
  <1> QED
    BY <1>5, <1>6, <1>7, <1>8, <1>9, <1>10, <1>11, <1>12, <1>13, <1>14
    DEF Handler

LEMMA NextCalls == IInv /\ [Next]_vars => Calls'
  <1> SUFFICES ASSUME IInv, [Next]_vars PROVE Calls'
    OBVIOUS
  <1>1. Calls
    BY CallsNow
  <1>2. ASSUME UNCHANGED <<pc, req>>, reply' = NoReply \/ UNCHANGED reply
        PROVE  Calls'
    BY <1>1, <1>2, NoReplyType DEF Calls, Complete
  <1>3. ASSUME NEW t \in Threads, Call(t) PROVE Calls'
    <2>1. PICK r \in Requests : req' = [req EXCEPT ![t] = r]
      BY <1>3 DEF Call
    <2>2. r \in RequestType /\ Complete(r)
      BY SentRequests
    <2> QED BY <1>1, <1>3, <2>1, <2>2, NoReplyType
            DEF Calls, Call, Stages, Complete
  <1>4. ASSUME NEW t \in Threads, EmptyToken(t) \/ Refuse(t) PROVE Calls'
    BY <1>1, <1>4, ReplyCalls DEF EmptyToken, Refuse, Codes, Ids
  <1>5. ASSUME NEW t \in Threads, Begin(t) PROVE Calls'
    BY <1>2, <1>5 DEF Begin
  <1>6. ASSUME NEW t \in Threads, Authenticate(t) PROVE Calls'
    <2>1. FirstStage(req[t]) \in Stages
      BY DEF FirstStage, Stages
    <2>2. CASE req[t].valid /\ Go(t, FirstStage(req[t]))
      BY <1>1, <2>1, <2>2, GoCalls
    <2>3. CASE Reply(t, "UNAUTHORIZED", 0) \/ Reply(t, "INVALID_REQUEST", 0)
      BY <1>1, <2>3, ReplyCalls DEF Codes, Ids
    <2> QED BY <1>6, <2>2, <2>3 DEF Authenticate
  <1>7. ASSUME NEW t \in Threads, Crash(t) PROVE Calls'
    BY <1>7, LostCalls DEF Crash
  <1>8. CASE Environment
    BY <1>2, <1>8 DEF Environment
  <1>9. CASE UNCHANGED vars
    BY <1>2, <1>9 DEF vars
  <1> QED
    BY <1>3, <1>4, <1>5, <1>6, <1>7, <1>8, <1>9, HandlerCalls DEF Next, Step

(* The connection is held by a thread with a call in progress. *)
Holds == /\ link \in Links
         /\ owner \in Threads \cup {NoThread}
         /\ HolderIsBusy

(* A step after which nobody holds the connection. *)
LEMMA NobodyHolds ==
  ASSUME link' \in Links, owner' = NoThread PROVE Holds'
  BY NoThreadAssumption DEF Holds, HolderIsBusy

LEMMA WriteHolds ==
  ASSUME NEW t, NEW newDb, NEW code, NEW id, link \in Links,
         Write(t, newDb, code, id)
  PROVE  Holds'
  BY NobodyHolds DEF Write, Release, InDoubt, Links

LEMMA LookupHolds ==
  ASSUME NEW t, NEW found, NEW next, link \in Links, Lookup(t, found, next)
  PROVE  Holds'
  BY NobodyHolds DEF Lookup, EndRead, Release, Links

LEMMA NextHolds == IInv /\ [Next]_vars => Holds'
  <1> SUFFICES ASSUME IInv, [Next]_vars PROVE Holds'
    OBVIOUS
  <1>1. Holds /\ link \in Links /\ pc \in [Threads -> Stages]
    BY DEF IInv, TypeOK, Holds
  <1>2. ASSUME NEW t \in Threads, Call(t) PROVE Holds'
    BY <1>1, <1>2 DEF Call, Holds, HolderIsBusy
  <1>3. ASSUME NEW t \in Threads, EmptyToken(t) \/ Refuse(t) PROVE Holds'
    BY <1>1, <1>3
    DEF EmptyToken, Refuse, Refused, Reply, Holds, HolderIsBusy
  <1>4. ASSUME NEW t \in Threads, Begin(t) PROVE Holds'
    BY <1>1, <1>4, NoThreadAssumption DEF Begin, Acquire, Holds, HolderIsBusy
  <1>5. ASSUME NEW t \in Threads, Authenticate(t) PROVE Holds'
    BY <1>1, <1>5, NobodyHolds DEF Authenticate, EndRead, Release
  <1>6. ASSUME NEW t \in Threads, Handler(t) PROVE Holds'
    BY <1>1, <1>6, NobodyHolds, WriteHolds, LookupHolds
    DEF Handler, CreateTransaction, UpdateTransaction, DeleteTransaction,
        CreateSplit, UpdateSplit, DeleteSplit, ManageCharacter,
        DeleteCharacter, ManageCategory, DeleteCategory, EndRead, Release
  <1>7. ASSUME NEW t \in Threads, Crash(t) PROVE Holds'
    BY <1>7, NobodyHolds DEF Crash, Terminate, NullDereference, Links
  <1>8. CASE Environment
    BY <1>1, <1>8 DEF Environment, Drop, Start, Links, Holds, HolderIsBusy
  <1>9. CASE UNCHANGED vars
    BY <1>1, <1>9 DEF vars, Holds, HolderIsBusy
  <1> QED
    BY <1>2, <1>3, <1>4, <1>5, <1>6, <1>7, <1>8, <1>9 DEF Next, Step

(* A transaction that was its user's is never anybody else's. *)
LEMMA CheckedTxnStays ==
  ASSUME IInv, Effect, NEW r \in RequestType, CheckedTxn(r)
  PROVE  /\ r.txn < seq'.txn
         /\ r.txn \in DOMAIN db'.txn => OwnsTxn(db', r.user, r.txn)
  <1>1. /\ r.txn \in Int /\ seq'.txn \in Int /\ RowsStay
    BY TablesAssumption DEF RequestType, TxnIds, Effect, RowsStay, SeqValues
  <1> QED BY <1>1, Before DEF CheckedTxn, RowsStay, OwnsTxn

(* What a thread has checked stays true while it waits: rows stay with     *)
(* their owners, and an id that is gone is not used again.                 *)
LEMMA WaitingRowsChecked ==
  ASSUME IInv, Effect, NEW t \in Threads,
         pc'[t] = pc[t], req'[t] = req[t]
  PROVE  RowsChecked(t)'
  <1> DEFINE r == req[t]
  <1>1. RowsChecked(t)
    BY DEF IInv, CheckedRowsKeepTheirOwner
  <1>2. /\ r.txn \in Int /\ r.split \in Int /\ r.chr \in Int
        /\ \A i \in DOMAIN db.txn : i \in Int /\ i < seq.txn
    <2>1. r \in RequestType
      BY CallsNow DEF Calls
    <2> QED BY <2>1, Before, Rows, TablesAssumption
            DEF RequestType, TxnIds, SplitIds, ChrIds, Issued
  <1>3. /\ RowsStay /\ OneWallet(db')
        /\ seq'.txn \in Int /\ seq'.split \in Int /\ seq'.chr \in Int
    BY TablesAssumption DEF Effect, Consistent, RowsStay, SeqValues
  <1> HIDE DEF r
  <1>4. CheckedTxn(r) => /\ r.txn < seq'.txn
                         /\ r.txn \in DOMAIN db'.txn
                            => OwnsTxn(db', r.user, r.txn)
    BY CheckedTxnStays, CallsNow DEF Calls, r
  <1>5. CheckedChr(r) => /\ r.chr < seq'.chr
                         /\ r.chr \in DOMAIN db'.chr
                            => OwnsChr(db', r.user, r.chr)
    BY <1>2, <1>3, Before DEF CheckedChr, RowsStay, OwnsChr
  <1>6. CheckedSplit(r) => /\ r.split < seq'.split
                           /\ r.split \in DOMAIN db'.split
                              => OwnsSplit(db', r.user, r.split)
    <2> SUFFICES ASSUME CheckedSplit(r)
                 PROVE  /\ r.split < seq'.split
                        /\ r.split \in DOMAIN db'.split
                           => OwnsSplit(db', r.user, r.split)
      OBVIOUS
    <2>1. r.split < seq.split /\ r.split < seq'.split
      BY <1>2, <1>3, Before DEF CheckedSplit, RowsStay
    <2>2. ASSUME r.split \in DOMAIN db'.split
          PROVE  OwnsSplit(db', r.user, r.split)
      <3>1. /\ r.split \in DOMAIN db.split
            /\ db'.split[r.split].txn = db.split[r.split].txn
        BY <1>2, <1>3, <2>1, <2>2, Before DEF RowsStay
      <3>2. OwnsTxn(db, r.user, db.split[r.split].txn)
        BY <3>1 DEF CheckedSplit, OwnsSplit
      <3>3. db'.split[r.split].txn \in DOMAIN db'.txn
        BY <1>3, <2>2 DEF OneWallet, OwnsTxn
      <3>4. OwnsTxn(db', r.user, db'.split[r.split].txn)
        BY <1>2, <1>3, <3>1, <3>2, <3>3, Before DEF OwnsTxn, RowsStay
      <3> QED BY <2>2, <3>4 DEF OwnsSplit
    <2> QED BY <2>1, <2>2
  <1> QED
    BY <1>1, <1>4, <1>5, <1>6
    DEF RowsChecked, CheckedTxn, CheckedSplit, CheckedChr, r

(* An access query that found the row. *)
LEMMA FoundRows ==
  ASSUME IInv, NEW t \in Threads, UNCHANGED <<db, seq, req>>
  PROVE  /\ OwnsTxn(db, req[t].user, req[t].txn) => CheckedTxn(req[t])'
         /\ OwnsSplit(db, req[t].user, req[t].split) => CheckedSplit(req[t])'
         /\ OwnsChr(db, req[t].user, req[t].chr) => CheckedChr(req[t])'
         /\ CheckedTxn(req[t]) => CheckedTxn(req[t])'
  BY Before DEF CheckedTxn, CheckedSplit, CheckedChr, OwnsTxn, OwnsSplit,
     OwnsChr, Issued

(* A thread that is not about to write has nothing to have checked. *)
LEMMA NothingChecked ==
  ASSUME NEW t, pc'[t] \notin {"chr", "write"} PROVE RowsChecked(t)'
  BY DEF RowsChecked

(* The other threads while a handler moves. *)
LEMMA OtherThreads ==
  ASSUME IInv, NEW t \in Threads, NEW x \in Threads, x # t,
         \/ \E stage : Go(t, stage)
         \/ \E code, id : Reply(t, code, id)
         \/ Lost
  PROVE  \/ pc'[x] = pc[x] /\ req'[x] = req[x]
         \/ pc'[x] = "idle"
  BY CallsNow DEF Calls, Go, Reply, Lost

(* The moves of a thread through its handler. *)
LEMMA HandlerChecks ==
  ASSUME IInv, NEW t \in Threads, Handler(t) \/ Authenticate(t)
  PROVE  RowsChecked(t)'
  <1> DEFINE r == req[t]
  <1>1. pc \in [Threads -> Stages] /\ req \in [Threads -> RequestType]
    BY CallsNow DEF Calls
  <1>2. ASSUME \E code, id : Reply(t, code, id) PROVE RowsChecked(t)'
    BY <1>1, <1>2, NothingChecked DEF Reply
  <1>3. ASSUME Lost PROVE RowsChecked(t)'
    BY <1>3, NothingChecked DEF Lost
  <1>4. ASSUME NEW newDb, NEW code, NEW id, Write(t, newDb, code, id)
        PROVE  RowsChecked(t)'
    BY <1>2, <1>3, <1>4 DEF Write
  <1>5. CASE /\ pc' = [pc EXCEPT ![t] = FirstStage(r)]
             /\ UNCHANGED req
    BY <1>1, <1>5 DEF RowsChecked, FirstStage, RequestType, AllOps
  <1>6. CASE /\ At(t, "UpdateTransaction", "txn")
                \/ At(t, "DeleteTransaction", "txn")
             /\ OwnsTxn(db, r.user, r.txn)
             /\ EndRead(t) /\ Go(t, "write")
    BY <1>1, <1>6, FoundRows DEF RowsChecked, At, EndRead, Go
  <1>7. CASE /\ At(t, "CreateSplit", "txn")
             /\ OwnsTxn(db, r.user, r.txn)
             /\ EndRead(t) /\ Go(t, "chr")
    BY <1>1, <1>7, FoundRows DEF RowsChecked, At, EndRead, Go
  <1>8. CASE /\ At(t, "CreateSplit", "chr")
             /\ OwnsChr(db, r.user, r.chr)
             /\ EndRead(t) /\ Go(t, "write")
    <2>1. CheckedTxn(r)
      BY <1>8 DEF IInv, CheckedRowsKeepTheirOwner, RowsChecked, At
    <2> QED BY <1>1, <1>8, <2>1, FoundRows DEF RowsChecked, At, EndRead, Go
  <1>9. CASE /\ At(t, "UpdateSplit", "split") \/ At(t, "DeleteSplit", "split")
             /\ OwnsSplit(db, r.user, r.split)
             /\ EndRead(t) /\ Go(t, "write")
    BY <1>1, <1>9, FoundRows DEF RowsChecked, At, EndRead, Go
  <1>10. CASE /\ At(t, "ManageCharacter", "chr")
                 \/ At(t, "DeleteCharacter", "chr")
              /\ OwnsChr(db, r.user, r.chr)
              /\ EndRead(t) /\ Go(t, "write")
    BY <1>1, <1>10, FoundRows DEF RowsChecked, At, EndRead, Go
  <1>11. CASE /\ At(t, "ManageCategory", "cat") \/ At(t, "DeleteCategory", "cat")
              /\ Go(t, "write")
    BY <1>1, <1>11 DEF RowsChecked, At, Go
  <1>12. CASE Authenticate(t)
    BY <1>2, <1>5, <1>12 DEF Authenticate, Go
  <1>13. CASE CreateTransaction(t)
    BY <1>4, <1>13 DEF CreateTransaction
  <1>14. CASE UpdateTransaction(t)
    BY <1>2, <1>4, <1>6, <1>14 DEF UpdateTransaction, Lookup
  <1>15. CASE DeleteTransaction(t)
    BY <1>2, <1>4, <1>6, <1>15 DEF DeleteTransaction, Lookup
  <1>16. CASE CreateSplit(t)
    BY <1>2, <1>4, <1>7, <1>8, <1>16 DEF CreateSplit, Lookup
  <1>17. CASE UpdateSplit(t)
    BY <1>2, <1>4, <1>9, <1>17 DEF UpdateSplit, Lookup
  <1>18. CASE DeleteSplit(t)
    BY <1>2, <1>4, <1>9, <1>18 DEF DeleteSplit, Lookup
  <1>19. CASE ManageCharacter(t)
    BY <1>2, <1>4, <1>10, <1>19 DEF ManageCharacter, Lookup
  <1>20. CASE DeleteCharacter(t)
    BY <1>2, <1>4, <1>10, <1>20 DEF DeleteCharacter
  <1>21. CASE ManageCategory(t)
    BY <1>2, <1>4, <1>11, <1>21 DEF ManageCategory, Lookup
  <1>22. CASE DeleteCategory(t)
    BY <1>2, <1>4, <1>11, <1>22 DEF DeleteCategory, Lookup
  <1> QED
    BY <1>12, <1>13, <1>14, <1>15, <1>16, <1>17, <1>18, <1>19, <1>20, <1>21,
       <1>22 DEF Handler

LEMMA NextChecks == IInv /\ [Next]_vars => CheckedRowsKeepTheirOwner'
  <1> SUFFICES ASSUME IInv, [Next]_vars, NEW x \in Threads
               PROVE  RowsChecked(x)'
    BY DEF CheckedRowsKeepTheirOwner
  <1>1. Effect /\ pc \in [Threads -> Stages] /\ req \in [Threads -> RequestType]
    BY NextEffect, CallsNow DEF Calls
  <1>2. ASSUME \/ pc'[x] = pc[x] /\ req'[x] = req[x]
               \/ pc'[x] \in {"idle", "auth"}
        PROVE  RowsChecked(x)'
    BY <1>1, <1>2, WaitingRowsChecked, NothingChecked
  <1>3. ASSUME NEW t \in Threads, Call(t) PROVE RowsChecked(x)'
    BY <1>1, <1>2, <1>3 DEF Call
  <1>4. ASSUME NEW t \in Threads, EmptyToken(t) \/ Begin(t) \/ Refuse(t) \/ Crash(t)
        PROVE  RowsChecked(x)'
    BY <1>1, <1>2, <1>4 DEF EmptyToken, Begin, Refuse, Crash, Reply, Lost
  <1>5. ASSUME NEW t \in Threads, Handler(t) \/ Authenticate(t)
        PROVE  RowsChecked(x)'
    <2>1. CASE x = t
      BY <1>5, <2>1, HandlerChecks
    <2>2. CASE x # t
      <3>1. \/ \E stage : Go(t, stage)
            \/ \E code, id : Reply(t, code, id)
            \/ Lost
        BY <1>5
        DEF Handler, Authenticate, CreateTransaction, UpdateTransaction,
            DeleteTransaction, CreateSplit, UpdateSplit, DeleteSplit,
            ManageCharacter, DeleteCharacter, ManageCategory, DeleteCategory,
            Lookup, Write
      <3> QED BY <1>2, <2>2, <3>1, OtherThreads
    <2> QED BY <2>1, <2>2
  <1>6. CASE Environment \/ UNCHANGED vars
    BY <1>2, <1>6 DEF Environment, vars
  <1> QED BY <1>3, <1>4, <1>5, <1>6 DEF Next, Step

-----------------------------------------------------------------------------
(* The theorems.                                                           *)

LEMMA InitIInv == Init => IInv
  <1> SUFFICES ASSUME Init PROVE IInv
    OBVIOUS
  <1>1. TypeOK
    BY LedgerAssumption, EmptyRequest, NoReplyType
    DEF Init, NoCalls, TypeOK, Links, Stages, Consistent
  <1>2. HolderIsBusy
    BY NoThreadAssumption DEF Init, NoCalls, HolderIsBusy
  <1>3. Issued(db, seq) /\ SplitsStayInOneWallet /\ CategoriesExist(db)
    BY LedgerAssumption DEF Init, Consistent, SplitsStayInOneWallet
  <1>4. RequestsAreComplete
    BY EmptyRequest DEF Init, NoCalls, RequestsAreComplete
  <1>5. CheckedRowsKeepTheirOwner
    BY DEF Init, NoCalls, CheckedRowsKeepTheirOwner, RowsChecked
  <1> QED BY <1>1, <1>2, <1>3, <1>4, <1>5 DEF IInv

(* The parts of a step make the invariant again. *)
LEMMA PartsIInv ==
  ASSUME IInv, Effect, Calls', Holds', CheckedRowsKeepTheirOwner'
  PROVE  IInv'
  <1>1. /\ db' \in Databases /\ seq' \in SeqValues
        /\ SplitsStayInOneWallet' /\ CategoriesExist(db)'
    BY DEF Effect, Consistent, RowsStay, SplitsStayInOneWallet,
       OneWallet, OwnsTxn, OwnsChr, CategoriesExist
  <1>2. Issued(db, seq)'
    <2>1. /\ seq.txn \in Int /\ seq.split \in Int
          /\ seq.chr \in Int /\ seq.cat \in Int
          /\ seq'.txn \in Int /\ seq'.split \in Int
          /\ seq'.chr \in Int /\ seq'.cat \in Int
      BY <1>1, Before, TablesAssumption DEF SeqValues
    <2>2. /\ \A i \in DOMAIN db.txn : i \in Int /\ i < seq.txn
          /\ \A i \in DOMAIN db.split : i \in Int /\ i < seq.split
          /\ \A i \in DOMAIN db.chr : i \in Int /\ i < seq.chr
          /\ \A i \in DOMAIN db.cat : i \in Int /\ i < seq.cat
      BY Before, Rows, TablesAssumption
      DEF Issued, TxnIds, SplitIds, ChrIds, CatIds
    <2> QED BY <2>1, <2>2 DEF Effect, RowsStay, Issued
  <1>3. TypeOK' /\ HolderIsBusy' /\ RequestsAreComplete'
    BY <1>1 DEF Calls, Holds, TypeOK, RequestsAreComplete, Complete
  <1> QED BY <1>1, <1>2, <1>3 DEF IInv

LEMMA NextIInv == IInv /\ [Next]_vars => IInv'
  BY NextEffect, NextCalls, NextHolds, NextChecks, PartsIInv

(* The invariant that every other result about the handlers rests on: rows *)
(* stay consistent, ids are never given out twice, and a thread that is    *)
(* about to write has checked what it writes. *)
THEOREM InductiveInvariant == Spec => []IInv
  BY InitIInv, NextIInv, PTL DEF Spec

(* Every variable keeps its type: in particular every row of the database  *)
(* refers to users, transactions and characters that can exist.            *)
THEOREM TypeCorrectness == Spec => []TypeOK
  BY InductiveInvariant, PTL DEF IInv

(* No interleaving of handlers, however many threads serve however many    *)
(* users, joins a transaction and a character of two users in one split.   *)
THEOREM Isolation == Spec => []SplitsStayInOneWallet
  BY InductiveInvariant, PTL DEF IInv

(* What a handler has checked of the rows that it is about to write is     *)
(* still true of those that are still there when it writes.                *)
THEOREM ChecksHold == Spec => []CheckedRowsKeepTheirOwner
  BY InductiveInvariant, PTL DEF IInv

(* The handlers, with their separate checks, threads and lost connections, *)
(* implement the store of whole operations.                                *)
THEOREM StoreRefinement == Spec => ImplementsStore
  <1>1. Init => Store!StoreInv
    BY InitIInv, Before, SameConsistency DEF Store!StoreInv
  <1>2. IInv /\ [Next]_vars => [Store!StoreNext]_db
    BY NextEffect DEF Effect
  <1> QED
    BY <1>1, <1>2, InductiveInvariant, PTL
    DEF Spec, ImplementsStore, Store!StoreSpec

-----------------------------------------------------------------------------
(* The session below.                                                      *)

(* A handler closes every transaction that it was given, and writes in no  *)
(* other way.                                                              *)
LEMMA HandlersUseSession ==
  ASSUME NEW t, Handler(t) \/ Authenticate(t)
  PROVE  Release(t) \/ InDoubt(t)
  BY DEF Handler, CreateTransaction, UpdateTransaction, DeleteTransaction,
         CreateSplit, UpdateSplit, DeleteSplit, ManageCharacter,
         DeleteCharacter, ManageCategory, DeleteCategory, Authenticate,
         Lookup, EndRead, Write

LEMMA StepsUseSession ==
  ASSUME [Next]_vars
  PROVE  [SessionNext]_sessionVars
  <1>1. ASSUME NEW t \in Threads, Handler(t) \/ Authenticate(t)
        PROVE  SessionNext
    BY <1>1, HandlersUseSession DEF SessionNext
  <1>2. ASSUME NEW t \in Threads, Begin(t) \/ Crash(t)
        PROVE  SessionNext
    BY <1>2 DEF Begin, Crash, SessionNext
  <1>3. ASSUME NEW t \in Threads, Call(t) \/ EmptyToken(t) \/ Refuse(t)
        PROVE  UNCHANGED sessionVars
    BY <1>3 DEF Call, EmptyToken, Refuse, sessionVars
  <1>4. CASE Environment
    BY <1>4 DEF Environment, SessionNext
  <1>5. CASE UNCHANGED vars
    BY <1>5 DEF vars, sessionVars
  <1> QED BY <1>1, <1>2, <1>3, <1>4, <1>5 DEF Next, Step

(* The handlers ask nothing of the database that the session, and so the   *)
(* statement-level wrapper, does not do: their steps are its steps.        *)
THEOREM UsesSession == Spec => SessionSpec
  <1>1. Init => SessionInit
    BY DEF Init, SessionInit
  <1> QED BY <1>1, StepsUseSession, PTL DEF Spec, SessionSpec

-----------------------------------------------------------------------------
(* What an acknowledged call has done.                                     *)

LEMMA PutEffect ==
  ASSUME NEW f, NEW i, NEW row
  PROVE  i \in DOMAIN Put(f, i, row) /\ Put(f, i, row)[i] = row
  BY DEF Put

(* Only the handler of the call's own operation says OK. *)
LEMMA OnlyHandlersSucceed ==
  ASSUME Next, NEW t \in Threads, Answers(t, "OK")
  PROVE  Handler(t)
  <1>1. ASSUME NEW s \in Threads, Handler(s) PROVE s = t
    <2>1. \/ \E stage : Go(s, stage)
          \/ \E code, id : Reply(s, code, id)
          \/ Lost
      BY <1>1
      DEF Handler, CreateTransaction, UpdateTransaction,
          DeleteTransaction, CreateSplit, UpdateSplit, DeleteSplit,
          ManageCharacter, DeleteCharacter, ManageCategory, DeleteCategory,
          Lookup, Write
    <2> QED BY <2>1 DEF Answers, Go, Reply, Lost, NoReply
  <1>2. ASSUME NEW s \in Threads,
               Call(s) \/ EmptyToken(s) \/ Begin(s) \/ Refuse(s) \/ Crash(s)
               \/ Authenticate(s)
        PROVE  FALSE
    BY <1>2 DEF Call, EmptyToken, Begin, Refuse, Crash, Authenticate, Go,
                Reply, Lost, NoReply, Answers
  <1>3. ~ Environment
    BY DEF Environment, NoReply, Answers
  <1> QED BY <1>1, <1>2, <1>3 DEF Next, Step

(* What is acknowledged has been committed. *)
LEMMA Acknowledged ==
  ASSUME NEW t, NEW newDb, NEW code, NEW id, Write(t, newDb, code, id),
         Answers(t, "OK")
  PROVE  db' = newDb /\ code = "OK" /\ reply'.id = id
  BY DEF Write, Reply, Lost, NoReply, Answers

(* An access query never says OK. *)
LEMMA NotAcknowledged ==
  ASSUME NEW t, NEW found, NEW next, Lookup(t, found, next), Answers(t, "OK")
  PROVE  FALSE
  BY DEF Lookup, Go, Reply, NoReply, Answers

(* For any number of threads and rows: what is said to be deleted is gone, *)
(* with everything that hung on it.                                        *)
THEOREM DeletionTheorem == Spec => DeletesAreComplete
  <1> DEFINE Gone(t) == LET r == req[t] IN
        /\ r.op = "DeleteTransaction"
           => r.txn \notin DOMAIN db'.txn /\ SplitsOfTxn(db', r.txn) = {}
        /\ r.op = "DeleteSplit" => r.split \notin DOMAIN db'.split
        /\ r.op = "DeleteCharacter"
           => r.chr \notin DOMAIN db'.chr /\ SplitsOfChr(db', r.chr) = {}
        /\ r.op = "DeleteCategory"
           => /\ r.cat \notin DOMAIN db'.cat
              /\ DOMAIN db'.txn = DOMAIN db.txn
              /\ \A i \in DOMAIN db'.txn : db'.txn[i].cat # r.cat
  <1>1. ASSUME IInv, Next, NEW t \in Threads, Answers(t, "OK")
        PROVE  Gone(t)
    <2> DEFINE r == req[t]
    <2>1. Handler(t) /\ db \in Databases
      BY <1>1, OnlyHandlersSucceed, Before
    <2>2. ASSUME r.op = "DeleteTransaction"
          PROVE  r.txn \notin DOMAIN db'.txn /\ SplitsOfTxn(db', r.txn) = {}
      <3>1. DeleteTransaction(t)
        BY <2>1, <2>2
        DEF Handler, At, CreateTransaction, UpdateTransaction, CreateSplit,
            UpdateSplit, DeleteSplit, ManageCharacter, DeleteCharacter,
            ManageCategory, DeleteCategory
      <3>2. db' = WithoutTxn(db, r.txn)
        BY <1>1, <3>1, Acknowledged, NotAcknowledged DEF DeleteTransaction
      <3>3. /\ db'.txn = Without(db.txn, {r.txn})
            /\ db'.split = Without(db.split, SplitsOfTxn(db, r.txn))
        BY <2>1, <3>2 DEF WithoutTxn, Databases
      <3> QED BY <3>3 DEF SplitsOfTxn, Without
    <2>3. ASSUME r.op = "DeleteSplit"
          PROVE  r.split \notin DOMAIN db'.split
      <3>1. DeleteSplit(t)
        BY <2>1, <2>3
        DEF Handler, At, CreateTransaction, UpdateTransaction,
            DeleteTransaction, CreateSplit, UpdateSplit, ManageCharacter,
            DeleteCharacter, ManageCategory, DeleteCategory
      <3>2. db' = [db EXCEPT !.split = Without(@, {r.split})]
        BY <1>1, <3>1, Acknowledged, NotAcknowledged DEF DeleteSplit
      <3>3. db'.split = Without(db.split, {r.split})
        BY <2>1, <3>2 DEF Databases
      <3> QED BY <3>3 DEF Without
    <2>4. ASSUME r.op = "DeleteCharacter"
          PROVE  r.chr \notin DOMAIN db'.chr /\ SplitsOfChr(db', r.chr) = {}
      <3>1. DeleteCharacter(t)
        BY <2>1, <2>4
        DEF Handler, At, CreateTransaction, UpdateTransaction,
            DeleteTransaction, CreateSplit, UpdateSplit, DeleteSplit,
            ManageCharacter, ManageCategory, DeleteCategory
      <3>2. pc[t] = "write" /\ Write(t, WithoutChr(db, r.user, r.chr), "OK", 0)
        BY <1>1, <3>1 DEF DeleteCharacter, At, Reply, Go, NoReply, Answers
      <3>3. db' = WithoutChr(db, r.user, r.chr)
        BY <1>1, <3>2, Acknowledged
      <3>4. /\ db'.split = Without(db.split, SplitsOfChr(db, r.chr))
            /\ db'.chr = Without(db.chr, {e \in {r.chr} : OwnsChr(db, r.user, e)})
        BY <2>1, <3>3 DEF WithoutChr, Databases
      <3>5. r.chr \in DOMAIN db.chr => OwnsChr(db, r.user, r.chr)
        <4>1. r.chr \in DOMAIN db.chr => r.chr # 0
          BY <2>1, Rows, TablesAssumption DEF ChrIds
        <4> QED BY <1>1, <2>4, <3>2, <4>1
                DEF IInv, CheckedRowsKeepTheirOwner, RowsChecked, CheckedChr
      <3> QED BY <3>4, <3>5 DEF SplitsOfChr, Without
    <2>5. ASSUME r.op = "DeleteCategory"
          PROVE  /\ r.cat \notin DOMAIN db'.cat
                 /\ DOMAIN db'.txn = DOMAIN db.txn
                 /\ \A i \in DOMAIN db'.txn : db'.txn[i].cat # r.cat
      <3>1. DeleteCategory(t)
        BY <2>1, <2>5
        DEF Handler, At, CreateTransaction, UpdateTransaction,
            DeleteTransaction, CreateSplit, UpdateSplit, DeleteSplit,
            ManageCharacter, DeleteCharacter, ManageCategory
      <3>2. pc[t] = "write" /\ db' = WithoutCat(db, r.user, r.cat)
        BY <1>1, <3>1, Acknowledged, NotAcknowledged DEF DeleteCategory, At
      <3>3. /\ db'.txn = Uncategorised(db.txn, r.cat)
            /\ db'.cat = Without(db.cat, {r.cat})
        BY <2>1, <3>2 DEF WithoutCat, Databases
      <3>4. r.cat # 0
        BY <1>1, <2>5, <3>2 DEF IInv, RequestsAreComplete
      <3>5. db.txn \in Table(TxnIds, TxnRow)
        BY <2>1, Rows
      <3>6. /\ DOMAIN db'.txn = DOMAIN db.txn
            /\ \A i \in DOMAIN db.txn :
                 db'.txn[i].cat = IF db.txn[i].cat = r.cat THEN 0
                                  ELSE db.txn[i].cat
        BY <3>3, <3>5, UncategorisedTable
      <3> QED BY <3>3, <3>4, <3>6 DEF Without
    <2> QED BY <2>2, <2>3, <2>4, <2>5
  <1>2. IInv /\ [Next]_vars =>
          [\A t \in Threads : Answers(t, "OK") => Gone(t)]_vars
    BY <1>1
  <1> QED BY <1>2, InductiveInvariant, PTL DEF Spec, DeletesAreComplete

(* For any number of threads and rows: the id that is answered is that of  *)
(* a new row, which holds what this call asked for.                        *)
THEOREM CreationTheorem == Spec => CreatesAreStored
  <1> DEFINE Made(t) ==
        LET r == req[t]
            i == reply'.id
        IN
        /\ r.op = "CreateTransaction"
           => /\ i \in DOMAIN db'.txn \ DOMAIN db.txn
              /\ db'.txn[i] = [user |-> r.user, cat |-> r.cat, info |-> r.info]
        /\ r.op = "CreateSplit"
           => /\ i \in DOMAIN db'.split \ DOMAIN db.split
              /\ db'.split[i] = [txn |-> r.txn, chr |-> r.chr, info |-> r.info]
        /\ r.op = "ManageCharacter" /\ r.chr = 0
           => /\ i \in DOMAIN db'.chr \ DOMAIN db.chr
              /\ db'.chr[i] = [user |-> r.user, name |-> r.name]
        /\ r.op = "ManageCategory" /\ r.cat = 0
           => /\ i \in DOMAIN db'.cat \ DOMAIN db.cat
              /\ db'.cat[i] = r.name
  <1>1. ASSUME IInv, Next, NEW t \in Threads, Answers(t, "OK")
        PROVE  Made(t)
    <2> DEFINE r == req[t]
               i == reply'.id
    <2>1. Handler(t) /\ db \in Databases
      BY <1>1, OnlyHandlersSucceed, Before
    <2>2. ASSUME r.op = "CreateTransaction"
          PROVE  /\ i \in DOMAIN db'.txn \ DOMAIN db.txn
                 /\ db'.txn[i] = [user |-> r.user, cat |-> r.cat, info |-> r.info]
      <3> DEFINE row == [user |-> r.user, cat |-> r.cat, info |-> r.info]
      <3>1. CreateTransaction(t)
        BY <2>1, <2>2
        DEF Handler, At, UpdateTransaction, DeleteTransaction, CreateSplit,
            UpdateSplit, DeleteSplit, ManageCharacter, DeleteCharacter,
            ManageCategory, DeleteCategory
      <3>2. i = seq.txn /\ db' = [db EXCEPT !.txn = Put(@, seq.txn, row)]
        BY <1>1, <3>1, Acknowledged DEF CreateTransaction
      <3>3. db'.txn = Put(db.txn, seq.txn, row)
        BY <2>1, <3>2 DEF Databases
      <3> HIDE DEF row
      <3>4. i \in DOMAIN db'.txn \ DOMAIN db.txn /\ db'.txn[i] = row
        BY <1>1, <3>2, <3>3, PutEffect, Before
      <3> QED BY <3>4 DEF row
    <2>3. ASSUME r.op = "CreateSplit"
          PROVE  /\ i \in DOMAIN db'.split \ DOMAIN db.split
                 /\ db'.split[i] = [txn |-> r.txn, chr |-> r.chr, info |-> r.info]
      <3> DEFINE row == [txn |-> r.txn, chr |-> r.chr, info |-> r.info]
      <3>1. CreateSplit(t)
        BY <2>1, <2>3
        DEF Handler, At, CreateTransaction, UpdateTransaction,
            DeleteTransaction, UpdateSplit, DeleteSplit, ManageCharacter,
            DeleteCharacter, ManageCategory, DeleteCategory
      <3>2. i = seq.split /\ db' = [db EXCEPT !.split = Put(@, seq.split, row)]
        BY <1>1, <3>1, Acknowledged, NotAcknowledged DEF CreateSplit
      <3>3. db'.split = Put(db.split, seq.split, row)
        BY <2>1, <3>2 DEF Databases
      <3> HIDE DEF row
      <3>4. i \in DOMAIN db'.split \ DOMAIN db.split /\ db'.split[i] = row
        BY <1>1, <3>2, <3>3, PutEffect, Before
      <3> QED BY <3>4 DEF row
    <2>4. ASSUME r.op = "ManageCharacter", r.chr = 0
          PROVE  /\ i \in DOMAIN db'.chr \ DOMAIN db.chr
                 /\ db'.chr[i] = [user |-> r.user, name |-> r.name]
      <3> DEFINE row == [user |-> r.user, name |-> r.name]
      <3>1. ManageCharacter(t)
        BY <2>1, <2>4
        DEF Handler, At, CreateTransaction, UpdateTransaction,
            DeleteTransaction, CreateSplit, UpdateSplit, DeleteSplit,
            DeleteCharacter, ManageCategory, DeleteCategory
      <3>2. i = seq.chr /\ db' = [db EXCEPT !.chr = Put(@, seq.chr, row)]
        BY <1>1, <2>4, <3>1, Acknowledged, NotAcknowledged DEF ManageCharacter
      <3>3. db'.chr = Put(db.chr, seq.chr, row)
        BY <2>1, <3>2 DEF Databases
      <3> HIDE DEF row
      <3>4. i \in DOMAIN db'.chr \ DOMAIN db.chr /\ db'.chr[i] = row
        BY <1>1, <3>2, <3>3, PutEffect, Before
      <3> QED BY <3>4 DEF row
    <2>5. ASSUME r.op = "ManageCategory", r.cat = 0
          PROVE  /\ i \in DOMAIN db'.cat \ DOMAIN db.cat
                 /\ db'.cat[i] = r.name
      <3>1. ManageCategory(t)
        BY <2>1, <2>5
        DEF Handler, At, CreateTransaction, UpdateTransaction,
            DeleteTransaction, CreateSplit, UpdateSplit, DeleteSplit,
            ManageCharacter, DeleteCharacter, DeleteCategory
      <3>2. i = seq.cat /\ db' = [db EXCEPT !.cat = Put(@, seq.cat, r.name)]
        BY <1>1, <2>5, <3>1, Acknowledged, NotAcknowledged DEF ManageCategory
      <3>3. db'.cat = Put(db.cat, seq.cat, r.name)
        BY <2>1, <3>2 DEF Databases
      <3> QED BY <1>1, <3>2, <3>3, PutEffect, Before
    <2> QED BY <2>2, <2>3, <2>4, <2>5
  <1>2. IInv /\ [Next]_vars =>
          [\A t \in Threads : Answers(t, "OK") => Made(t)]_vars
    BY <1>1
  <1> QED BY <1>2, InductiveInvariant, PTL DEF Spec, CreatesAreStored

(* For any number of threads and rows: an acknowledged update of a row     *)
(* that is still there changes the caller's row, and does all that was     *)
(* asked, unless PostgreSQL refused the UPDATE (its category or receipt    *)
(* is not there, its name is taken or too long, a column is refused); then *)
(* the row is as it was.                                                   *)
THEOREM UpdateTheorem == Spec => UpdatesAreDoneOrOvertaken
  <1> DEFINE
        TxnDone(r) ==
          /\ OwnsTxn(db', r.user, r.txn)
          /\ db'.txn[r.txn] =
               IF r.cat \in DOMAIN db.cat \cup {0} /\ r.info \in Infos
               THEN [user |-> r.user, cat |-> r.cat, info |-> r.info]
               ELSE db.txn[r.txn]
        SplitDone(r) ==
          /\ OwnsSplit(db', r.user, r.split)
          /\ db'.split[r.split] =
               IF r.info \in Infos
               THEN [db.split[r.split] EXCEPT !.info = r.info]
               ELSE db.split[r.split]
        ChrDone(r) ==
          /\ OwnsChr(db', r.user, r.chr)
          /\ \/ db'.chr[r.chr].name = r.name
             \/ db'.chr[r.chr] = db.chr[r.chr]
                /\ (TakenByOther(db, r.user, r.name, r.chr)
                    \/ r.name \notin Names)
        CatDone(r) ==
          \/ db'.cat[r.cat] = r.name
          \/ db'.cat[r.cat] = db.cat[r.cat]
             /\ (CategoryTaken(db, r.name, r.cat) \/ r.name \notin Names)
        Done(t) ==
          LET r == req[t] IN
          /\ r.op = "UpdateTransaction" /\ r.txn \in DOMAIN db.txn
             => TxnDone(r)
          /\ r.op = "UpdateSplit" /\ r.split \in DOMAIN db.split
             => SplitDone(r)
          /\ r.op = "ManageCharacter" /\ r.chr \in DOMAIN db.chr
             => ChrDone(r)
          /\ r.op = "ManageCategory" /\ r.cat \in DOMAIN db.cat
             => CatDone(r)
  <1>1. ASSUME IInv, Next, NEW t \in Threads, Answers(t, "OK")
        PROVE  Done(t)
    <2> DEFINE r == req[t]
    <2>1. Handler(t) /\ db \in Databases
      BY <1>1, OnlyHandlersSucceed, Before
    <2>2. ASSUME r.op = "UpdateTransaction", r.txn \in DOMAIN db.txn
          PROVE  TxnDone(r)
      <3> DEFINE row == [user |-> db.txn[r.txn].user, cat |-> r.cat,
                         info |-> r.info]
      <3>1. UpdateTransaction(t)
        BY <2>1, <2>2
        DEF Handler, At, CreateTransaction, DeleteTransaction, CreateSplit,
            UpdateSplit, DeleteSplit, ManageCharacter, DeleteCharacter,
            ManageCategory, DeleteCategory
      <3>2. pc[t] = "write" /\ db' = UpdatedTxn(db, r)
        BY <1>1, <3>1, Acknowledged, NotAcknowledged DEF UpdateTransaction, At
      <3>3. OwnsTxn(db, r.user, r.txn)
        BY <1>1, <2>2, <3>2
        DEF IInv, CheckedRowsKeepTheirOwner, RowsChecked, CheckedTxn
      <3>4. CASE r.cat \in DOMAIN db.cat \cup {0} /\ r.info \in Infos
        <4>1. db'.txn = Put(db.txn, r.txn, row)
          BY <2>1, <2>2, <3>2, <3>4 DEF UpdatedTxn, Databases
        <4>2. row = [user |-> r.user, cat |-> r.cat, info |-> r.info]
          BY <3>3 DEF OwnsTxn
        <4> HIDE DEF row
        <4>3. r.txn \in DOMAIN db'.txn /\ db'.txn[r.txn] = row
          BY <4>1, PutEffect
        <4> QED BY <3>4, <4>2, <4>3 DEF OwnsTxn
      <3>5. CASE ~ (r.cat \in DOMAIN db.cat \cup {0} /\ r.info \in Infos)
        <4>1. db' = db
          BY <3>2, <3>5 DEF UpdatedTxn
        <4> QED BY <3>3, <3>5, <4>1
      <3> QED BY <3>4, <3>5
    <2>3. ASSUME r.op = "UpdateSplit", r.split \in DOMAIN db.split
          PROVE  SplitDone(r)
      <3> DEFINE row == [db.split[r.split] EXCEPT !.info = r.info]
      <3>1. UpdateSplit(t)
        BY <2>1, <2>3
        DEF Handler, At, CreateTransaction, UpdateTransaction,
            DeleteTransaction, CreateSplit, DeleteSplit, ManageCharacter,
            DeleteCharacter, ManageCategory, DeleteCategory
      <3>2. pc[t] = "write" /\ db' = UpdatedSplit(db, r)
        BY <1>1, <3>1, Acknowledged, NotAcknowledged DEF UpdateSplit, At
      <3>3. OwnsSplit(db, r.user, r.split)
        BY <1>1, <2>3, <3>2
        DEF IInv, CheckedRowsKeepTheirOwner, RowsChecked, CheckedSplit
      <3>4. CASE r.info \in Infos
        <4>1. db.split[r.split] \in SplitRow
          BY <2>1, <2>3, Rows
        <4>2. row.txn = db.split[r.split].txn
          BY <4>1 DEF SplitRow
        <4>3. db'.split = Put(db.split, r.split, row) /\ db'.txn = db.txn
          BY <2>1, <2>3, <3>2, <3>4 DEF UpdatedSplit, Databases
        <4> HIDE DEF row
        <4>4. r.split \in DOMAIN db'.split /\ db'.split[r.split] = row
          BY <4>3, PutEffect
        <4>5. OwnsSplit(db', r.user, r.split)
          BY <3>3, <4>2, <4>3, <4>4 DEF OwnsSplit, OwnsTxn
        <4> QED BY <3>4, <4>4, <4>5 DEF row
      <3>5. CASE r.info \notin Infos
        <4>1. db' = db
          BY <3>2, <3>5 DEF UpdatedSplit
        <4> QED BY <3>3, <3>5, <4>1
      <3> QED BY <3>4, <3>5
    <2>4. ASSUME r.op = "ManageCharacter", r.chr \in DOMAIN db.chr
          PROVE  ChrDone(r)
      <3> DEFINE row == [user |-> r.user, name |-> r.name]
                 Free == /\ ~ TakenByOther(db, r.user, r.name, r.chr)
                         /\ r.name \in Names
      <3>1. ManageCharacter(t)
        BY <2>1, <2>4
        DEF Handler, At, CreateTransaction, UpdateTransaction,
            DeleteTransaction, CreateSplit, UpdateSplit, DeleteSplit,
            DeleteCharacter, ManageCategory, DeleteCategory
      <3>2. r.chr # 0
        BY <2>1, <2>4, Rows, TablesAssumption DEF ChrIds
      <3>3. pc[t] = "write" /\ db' = RenamedChr(db, r)
        BY <1>1, <3>1, <3>2, Acknowledged, NotAcknowledged
        DEF ManageCharacter, At
      <3>4. OwnsChr(db, r.user, r.chr)
        BY <1>1, <2>4, <3>2, <3>3
        DEF IInv, CheckedRowsKeepTheirOwner, RowsChecked, CheckedChr
      <3>5. CASE Free
        <4>1. db'.chr = Put(db.chr, r.chr, row)
          BY <2>1, <2>4, <3>3, <3>4, <3>5 DEF RenamedChr, Databases
        <4>2. row.user = r.user /\ row.name = r.name
          OBVIOUS
        <4> HIDE DEF row
        <4>3. r.chr \in DOMAIN db'.chr /\ db'.chr[r.chr] = row
          BY <4>1, PutEffect
        <4> QED BY <4>2, <4>3 DEF OwnsChr
      <3>6. CASE ~ Free
        <4>1. db' = db
          BY <3>3, <3>6 DEF RenamedChr
        <4> QED BY <3>4, <3>6, <4>1
      <3> QED BY <3>5, <3>6
    <2>5. ASSUME r.op = "ManageCategory", r.cat \in DOMAIN db.cat
          PROVE  CatDone(r)
      <3> DEFINE Free == /\ ~ CategoryTaken(db, r.name, r.cat)
                         /\ r.name \in Names
      <3>1. ManageCategory(t)
        BY <2>1, <2>5
        DEF Handler, At, CreateTransaction, UpdateTransaction,
            DeleteTransaction, CreateSplit, UpdateSplit, DeleteSplit,
            ManageCharacter, DeleteCharacter, DeleteCategory
      <3>2. r.cat # 0
        BY <2>1, <2>5, Rows, TablesAssumption DEF CatIds
      <3>3. db' = RenamedCat(db, r)
        BY <1>1, <3>1, <3>2, Acknowledged, NotAcknowledged
        DEF ManageCategory, At
      <3>4. CASE Free
        <4>1. db'.cat = Put(db.cat, r.cat, r.name)
          BY <2>1, <2>5, <3>3, <3>4 DEF RenamedCat, Databases
        <4> QED BY <4>1, PutEffect
      <3>5. CASE ~ Free
        <4>1. db' = db
          BY <3>3, <3>5 DEF RenamedCat
        <4> QED BY <3>5, <4>1
      <3> QED BY <3>4, <3>5
    <2> QED BY <2>2, <2>3, <2>4, <2>5
  <1>2. IInv /\ [Next]_vars =>
          [\A t \in Threads : Answers(t, "OK") => Done(t)]_vars
    BY <1>1
  <1> QED BY <1>2, InductiveInvariant, PTL DEF Spec, UpdatesAreDoneOrOvertaken

-----------------------------------------------------------------------------
(* Calls come to an end.                                                   *)

LEMMA Left ==
  ASSUME NEW stage \in Stages
  PROVE  /\ StagesLeft[stage] \in 0..5
         /\ stage # "idle" => StagesLeft[stage] > 0
         /\ StagesLeft["idle"] = 0 /\ StagesLeft["auth"] = 5
         /\ StagesLeft["txn"] = 3 /\ StagesLeft["split"] = 2
         /\ StagesLeft["chr"] = 2 /\ StagesLeft["cat"] = 2
         /\ StagesLeft["write"] = 1
  BY DEF Stages, ReadStages, StagesLeft

(* A call that is over, by an answer or by the end of the process. *)
LEMMA OverIsNearer ==
  ASSUME pc \in [Threads -> Stages], NEW t \in Threads, pc[t] # "idle",
         Lost \/ (owner' # t /\ \E code, id : Reply(t, code, id))
  PROVE  StepsLeft(t)' < StepsLeft(t)
  <1>1. /\ StagesLeft[pc[t]] \in 0..5 /\ StagesLeft[pc[t]] > 0
        /\ StagesLeft["idle"] = 0
    BY Left
  <1>2. pc'[t] = "idle"
    BY DEF Lost, Reply
  <1> QED BY <1>1, <1>2 DEF StepsLeft

(* A call that gives the connection back and has fewer stages to go. *)
LEMMA GoIsNearer ==
  ASSUME pc \in [Threads -> Stages], NEW t \in Threads, NEW stage \in Stages,
         owner = t, owner' # t, Go(t, stage),
         StagesLeft[stage] < StagesLeft[pc[t]]
  PROVE  StepsLeft(t)' < StepsLeft(t)
  <1>1. StagesLeft[pc[t]] \in 0..5 /\ StagesLeft[stage] \in 0..5
    BY Left
  <1>2. pc'[t] = stage
    BY DEF Go
  <1> QED BY <1>1, <1>2 DEF StepsLeft

LEMMA LookupIsNearer ==
  ASSUME pc \in [Threads -> Stages], NEW t \in Threads, NEW stage \in Stages,
         pc[t] # "idle", StagesLeft[stage] < StagesLeft[pc[t]],
         NEW found, Lookup(t, found, stage)
  PROVE  StepsLeft(t)' < StepsLeft(t)
  <1>1. owner = t /\ owner' # t
    BY NoThreadAssumption DEF Lookup, EndRead, Release
  <1>2. Go(t, stage) \/ Reply(t, "NOT_FOUND", 0)
    BY DEF Lookup
  <1> QED BY <1>1, <1>2, GoIsNearer, OverIsNearer

LEMMA WriteIsNearer ==
  ASSUME pc \in [Threads -> Stages], NEW t \in Threads, pc[t] # "idle",
         NEW newDb, NEW code, NEW id, Write(t, newDb, code, id)
  PROVE  StepsLeft(t)' < StepsLeft(t)
  BY OverIsNearer, NoThreadAssumption DEF Write, Release

LEMMA HandlerIsNearer ==
  ASSUME pc \in [Threads -> Stages], NEW t \in Threads, Handler(t)
  PROVE  StepsLeft(t)' < StepsLeft(t)
  <1>1. /\ "write" \in Stages /\ "chr" \in Stages
        /\ StagesLeft["txn"] = 3 /\ StagesLeft["split"] = 2
        /\ StagesLeft["chr"] = 2 /\ StagesLeft["cat"] = 2
        /\ StagesLeft["write"] = 1
    BY Left DEF Stages
  <1>2. ASSUME pc[t] \in {"txn", "split", "chr", "cat"},
               \E found : Lookup(t, found, "write")
        PROVE  StepsLeft(t)' < StepsLeft(t)
    BY <1>1, <1>2, LookupIsNearer
  <1>3. ASSUME pc[t] = "txn", \E found : Lookup(t, found, "chr")
        PROVE  StepsLeft(t)' < StepsLeft(t)
    BY <1>1, <1>3, LookupIsNearer
  <1>4. ASSUME pc[t] = "write",
               \E newDb, code, id : Write(t, newDb, code, id)
        PROVE  StepsLeft(t)' < StepsLeft(t)
    BY <1>4, WriteIsNearer
  <1>5. CASE \/ CreateTransaction(t) \/ UpdateTransaction(t)
             \/ DeleteTransaction(t)
    BY <1>2, <1>4, <1>5
    DEF CreateTransaction, UpdateTransaction, DeleteTransaction, At
  <1>6. CASE CreateSplit(t) \/ UpdateSplit(t) \/ DeleteSplit(t)
    BY <1>2, <1>3, <1>4, <1>6 DEF CreateSplit, UpdateSplit, DeleteSplit, At
  <1>7. CASE ManageCharacter(t)
    BY <1>2, <1>4, <1>7 DEF ManageCharacter, At
  <1>8. CASE DeleteCharacter(t)
    <2>1. CASE pc[t] = "write"
      BY <1>4, <1>8, <2>1 DEF DeleteCharacter, At
    <2>2. CASE pc[t] # "write"
      <3>1. /\ pc[t] = "chr" /\ owner = t /\ owner' # t
            /\ Go(t, "write") \/ \E code, id : Reply(t, code, id)
        BY <1>8, <2>2, NoThreadAssumption
        DEF DeleteCharacter, At, EndRead, Release
      <3> QED BY <1>1, <3>1, GoIsNearer, OverIsNearer
    <2> QED BY <2>1, <2>2
  <1>9. CASE ManageCategory(t) \/ DeleteCategory(t)
    BY <1>2, <1>4, <1>9 DEF ManageCategory, DeleteCategory, At
  <1> QED BY <1>5, <1>6, <1>7, <1>8, <1>9 DEF Handler

(* A step of its own brings a call nearer to its end. *)
LEMMA OwnStepIsNearer ==
  ASSUME pc \in [Threads -> Stages], NEW t \in Threads, pc[t] # "idle",
         Step(t)
  PROVE  StepsLeft(t)' < StepsLeft(t)
  <1>1. CASE EmptyToken(t) \/ Refuse(t)
    BY <1>1, OverIsNearer DEF EmptyToken, Refuse, Refused
  <1>2. CASE Begin(t)
    <2>1. StagesLeft[pc[t]] \in 0..5
      BY Left
    <2> QED
      BY <1>2, <2>1, NoThreadAssumption DEF Begin, Acquire, StepsLeft
  <1>3. CASE Authenticate(t)
    <2>1. owner = t /\ owner' # t /\ pc[t] = "auth"
      BY <1>3, NoThreadAssumption DEF Authenticate, EndRead, Release
    <2>2. \/ Go(t, FirstStage(req[t]))
          \/ \E code, id : Reply(t, code, id)
      BY <1>3 DEF Authenticate
    <2>3. FirstStage(req[t]) \in {"txn", "split", "chr", "cat", "write"}
      BY DEF FirstStage
    <2>4. FirstStage(req[t]) \in Stages
      BY <2>3 DEF Stages
    <2>5. StagesLeft[FirstStage(req[t])] < StagesLeft[pc[t]]
      BY <2>1, <2>3, <2>4, Left
    <2> QED BY <2>1, <2>2, <2>4, <2>5, GoIsNearer, OverIsNearer
  <1>4. CASE Handler(t)
    BY <1>4, HandlerIsNearer
  <1>5. CASE Crash(t)
    BY <1>5, OverIsNearer DEF Crash
  <1> QED BY <1>1, <1>2, <1>3, <1>4, <1>5 DEF Step

(* The steps of a thread in the view of another one. *)
LEMMA OthersSteps ==
  ASSUME pc \in [Threads -> Stages], NEW t \in Threads, pc[t] # "idle",
         NEW s \in Threads, s # t, Call(s) \/ Step(s)
  PROVE  Lost \/ (pc'[t] = pc[t] /\ (owner' = t <=> owner = t))
  <1>1. ASSUME Handler(s) \/ Authenticate(s)
        PROVE  /\ owner = s /\ owner' = NoThread
               /\ \/ Lost
                  \/ \E stage : Go(s, stage)
                  \/ \E code, id : Reply(s, code, id)
    <2>1. owner = s /\ owner' = NoThread
      BY <1>1, HandlersUseSession DEF Release, InDoubt
    <2> QED
      BY <1>1, <2>1
      DEF Handler, CreateTransaction, UpdateTransaction, DeleteTransaction,
          CreateSplit, UpdateSplit, DeleteSplit, ManageCharacter,
          DeleteCharacter, ManageCategory, DeleteCategory, Authenticate,
          Lookup, Write
  <1>2. CASE Handler(s) \/ Authenticate(s)
    BY <1>1, <1>2, NoThreadAssumption DEF Go, Reply
  <1>3. CASE Call(s)
    BY <1>3 DEF Call
  <1>4. CASE EmptyToken(s) \/ Refuse(s)
    BY <1>4 DEF EmptyToken, Refuse, Reply
  <1>5. CASE Begin(s)
    BY <1>5, NoThreadAssumption DEF Begin, Acquire
  <1>6. CASE Crash(s)
    BY <1>6 DEF Crash
  <1> QED BY <1>2, <1>3, <1>4, <1>5, <1>6 DEF Step

LEMMA NoStepSendsBack ==
  ASSUME pc \in [Threads -> Stages], NEW t \in Threads, pc[t] # "idle", Next
  PROVE  StepsLeft(t)' < StepsLeft(t) \/ StepsLeft(t)' = StepsLeft(t)
  <1>1. ASSUME pc'[t] = pc[t], owner' = t <=> owner = t
        PROVE  StepsLeft(t)' = StepsLeft(t)
    BY <1>1 DEF StepsLeft
  <1>2. CASE Environment
    BY <1>1, <1>2 DEF Environment, Drop, Start
  <1>3. ASSUME NEW s \in Threads, s # t, Call(s) \/ Step(s)
        PROVE  StepsLeft(t)' < StepsLeft(t) \/ StepsLeft(t)' = StepsLeft(t)
    BY <1>1, <1>3, OthersSteps, OverIsNearer
  <1>4. CASE Call(t) \/ Step(t)
    BY <1>4, OwnStepIsNearer DEF Call
  <1> QED BY <1>2, <1>3, <1>4 DEF Next

LEMMA StepsCounted ==
  ASSUME IInv, IInv', NEW t \in Threads
  PROVE  StepsLeft(t) \in Nat /\ StepsLeft(t)' \in Nat
  <1>1. pc[t] \in Stages /\ pc'[t] \in Stages
    BY DEF IInv, TypeOK
  <1>2. StagesLeft[pc[t]] \in 0..5 /\ StagesLeft[pc'[t]] \in 0..5
    BY <1>1, Left
  <1> QED BY <1>2 DEF StepsLeft

LEMMA NextAdvances ==
  ASSUME IInv, IInv', Next
  PROVE  Advances
  <1>1. pc \in [Threads -> Stages]
    BY CallsNow DEF Calls
  <1>2. ASSUME NEW t \in Threads, pc[t] # "idle"
        PROVE  StepsLeft(t)' <= StepsLeft(t)
    BY <1>1, <1>2, NoStepSendsBack, StepsCounted
  <1>3. CASE Environment
    BY <1>2, <1>3 DEF Environment, Drop, Start, Advances
  <1>4. ASSUME NEW t \in Threads, Call(t) PROVE Advances
    <2>1. pc[t] = "idle" /\ pc'[t] # "idle"
      BY <1>1, <1>4 DEF Call
    <2> QED BY <1>2, <2>1 DEF Advances
  <1>5. ASSUME NEW t \in Threads, Step(t) PROVE Advances
    <2>1. CASE pc[t] # "idle"
      <3>1. StepsLeft(t)' < StepsLeft(t)
        BY <1>1, <1>5, <2>1, OwnStepIsNearer
      <3> QED BY <1>2, <2>1, <3>1 DEF Advances
    <2>2. CASE pc[t] = "idle"
      <3>1. ~ (EmptyToken(t) \/ Begin(t) \/ Refuse(t) \/ Authenticate(t))
        BY <2>2 DEF EmptyToken, Begin, Refuse, Authenticate
      <3>2. ~ Handler(t)
        BY <2>2
        DEF Handler, CreateTransaction, UpdateTransaction,
            DeleteTransaction, CreateSplit, UpdateSplit, DeleteSplit,
            ManageCharacter, DeleteCharacter, ManageCategory,
            DeleteCategory, At
      <3>3. link' # link
        BY <1>5, <2>2, <3>1, <3>2 DEF Step, Crash, Terminate
      <3> QED BY <1>2, <3>3 DEF Advances
    <2> QED BY <2>1, <2>2
  <1> QED BY <1>3, <1>4, <1>5 DEF Next

(* For any number of threads: the calls in progress advance, and none is   *)
(* sent back by what the others do.                                        *)
THEOREM Progress == Spec => CallsAdvance
  <1>1. IInv /\ IInv' /\ [Next]_vars => [Advances]_vars
    BY NextAdvances
  <1> QED BY <1>1, InductiveInvariant, PTL DEF Spec, CallsAdvance
=============================================================================
