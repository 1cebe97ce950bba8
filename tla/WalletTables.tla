----------------------------- MODULE WalletTables -----------------------------
(***************************************************************************)
(* The four tables a user edits through FinanceServiceImpl (docs/service/  *)
(* db.sql): transactions, transaction_splits, user_characters, categories. *)
(* A table is a function from the ids of its rows to their columns.        *)
(*                                                                         *)
(* info stands for the columns no other row depends on: type, amount,      *)
(* timestamp, receipt and comment of a transaction, amount and comment of  *)
(* a split (an update of a split that leaves out the comment keeps it: the *)
(* info it asks for is then the one with the old comment).  The receipt is *)
(* a foreign key: receipts are never deleted, so a row that has one keeps  *)
(* it, and a statement that names one that is not there fails.  Id 0 is    *)
(* SQL's NULL and a request's absent id.                                   *)
(***************************************************************************)
EXTENDS Integers

CONSTANTS Users,       \* rows of the users table
          Names,       \* names of characters and categories
          Main,        \* the name "Основной" that DeleteCharacter looks for
          Infos,       \* what the other columns of a row may be
          MaxTxn, MaxSplit, MaxChr, MaxCat  \* last values of the sequences

ASSUME TablesAssumption ==
  /\ Main \in Names
  /\ MaxTxn \in Nat /\ MaxSplit \in Nat /\ MaxChr \in Nat /\ MaxCat \in Nat

TxnIds == 1..MaxTxn
SplitIds == 1..MaxSplit
ChrIds == 1..MaxChr
CatIds == 1..MaxCat

TxnRow == [user : Users, cat : CatIds \cup {0}, info : Infos]
SplitRow == [txn : TxnIds, chr : ChrIds, info : Infos]
ChrRow == [user : Users, name : Names]

(* The tables whose rows have ids in Ids and columns in Row. *)
Table(Ids, Row) == UNION {[I -> Row] : I \in SUBSET Ids}

Databases == [txn : Table(TxnIds, TxnRow), split : Table(SplitIds, SplitRow),
              chr : Table(ChrIds, ChrRow), cat : Table(CatIds, Names)]

(* A row is inserted, or updated to these columns. *)
Put(f, i, row) == [j \in DOMAIN f \cup {i} |-> IF j = i THEN row ELSE f[j]]

(* The rows with ids in S are deleted. *)
Without(f, S) == [j \in DOMAIN f \ S |-> f[j]]

SplitsOfTxn(d, i) == {s \in DOMAIN d.split : d.split[s].txn = i}

SplitsOfChr(d, c) == {s \in DOMAIN d.split : d.split[s].chr = c}

(* UPDATE transactions SET category_id = NULL WHERE category_id = c *)
Uncategorised(f, c) ==
  [i \in DOMAIN f |-> IF f[i].cat = c THEN [f[i] EXCEPT !.cat = 0] ELSE f[i]]

(* The ownership predicates of the handlers' access queries. *)
OwnsTxn(d, u, i) == i \in DOMAIN d.txn /\ d.txn[i].user = u

OwnsChr(d, u, c) == c \in DOMAIN d.chr /\ d.chr[c].user = u

OwnsSplit(d, u, s) == s \in DOMAIN d.split /\ OwnsTxn(d, u, d.split[s].txn)

(* A split divides a transaction among characters of the same user, and    *)
(* neither of them is ever missing.                                        *)
OneWallet(d) == \A s \in DOMAIN d.split :
                  \E u \in Users : /\ OwnsTxn(d, u, d.split[s].txn)
                                   /\ OwnsChr(d, u, d.split[s].chr)

(* No transaction names a category that was deleted. *)
CategoriesExist(d) ==
  \A i \in DOMAIN d.txn : d.txn[i].cat \in DOMAIN d.cat \cup {0}

Consistent(d) == d \in Databases /\ OneWallet(d) /\ CategoriesExist(d)

(* The SERIAL sequences: the next id of each table.  A sequence never goes *)
(* back, not even when the transaction that drew from it rolls back.       *)
SeqValues == [txn : 1..MaxTxn + 1, split : 1..MaxSplit + 1,
              chr : 1..MaxChr + 1, cat : 1..MaxCat + 1]

(* Every id in use was drawn from its sequence before. *)
Issued(d, q) == /\ \A i \in DOMAIN d.txn : i < q.txn
                /\ \A i \in DOMAIN d.split : i < q.split
                /\ \A i \in DOMAIN d.chr : i < q.chr
                /\ \A i \in DOMAIN d.cat : i < q.cat
=============================================================================
