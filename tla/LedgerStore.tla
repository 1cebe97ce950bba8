------------------------------ MODULE LedgerStore ------------------------------
(***************************************************************************)
(* What the ledger part of the wallet promises its users, without threads, *)
(* connections or separate checks: the tables change by one whole          *)
(* operation at a time, and an operation on a user's transaction, split or *)
(* character is one that this user asked for and whose rows belong to this *)
(* user at the very moment they change.  Categories are shared by all      *)
(* users: anyone may add, rename or remove one, and removing one only      *)
(* clears the category of the transactions that had it.                    *)
(***************************************************************************)
EXTENDS WalletTables

VARIABLE db

AddTransaction(u) ==
  \E i \in TxnIds \ DOMAIN db.txn, c \in DOMAIN db.cat \cup {0}, x \in Infos :
    db' = [db EXCEPT !.txn = Put(@, i, [user |-> u, cat |-> c, info |-> x])]

ChangeTransaction(u, i) ==
  /\ OwnsTxn(db, u, i)
  /\ \E c \in DOMAIN db.cat \cup {0}, x \in Infos :
       db' = [db EXCEPT !.txn = Put(@, i, [user |-> u, cat |-> c, info |-> x])]

RemoveTransaction(u, i) ==
  /\ OwnsTxn(db, u, i)
  /\ db' = [db EXCEPT !.txn = Without(@, {i}),
                      !.split = Without(@, SplitsOfTxn(db, i))]

AddSplit(u, i, c) ==
  /\ OwnsTxn(db, u, i)
  /\ OwnsChr(db, u, c)
  /\ SplitsOfTxn(db, i) \cap SplitsOfChr(db, c) = {}
  /\ \E s \in SplitIds \ DOMAIN db.split, x \in Infos :
       db' = [db EXCEPT
                !.split = Put(@, s, [txn |-> i, chr |-> c, info |-> x])]

ChangeSplit(u, s) ==
  /\ OwnsSplit(db, u, s)
  /\ \E x \in Infos :
       db' = [db EXCEPT !.split = Put(@, s, [db.split[s] EXCEPT !.info = x])]

RemoveSplit(u, s) ==
  /\ OwnsSplit(db, u, s)
  /\ db' = [db EXCEPT !.split = Without(@, {s})]

NameIsFree(u, n) ==
  \A c \in DOMAIN db.chr : ~ (db.chr[c].user = u /\ db.chr[c].name = n)

AddCharacter(u, n) ==
  /\ NameIsFree(u, n)
  /\ \E c \in ChrIds \ DOMAIN db.chr :
       db' = [db EXCEPT !.chr = Put(@, c, [user |-> u, name |-> n])]

RenameCharacter(u, c, n) ==
  /\ OwnsChr(db, u, c)
  /\ NameIsFree(u, n)
  /\ db' = [db EXCEPT !.chr = Put(@, c, [user |-> u, name |-> n])]

RemoveCharacter(u, c) ==
  /\ OwnsChr(db, u, c)
  /\ db' = [db EXCEPT !.chr = Without(@, {c}),
                      !.split = Without(@, SplitsOfChr(db, c))]

AddCategory(n) ==
  /\ \A c \in DOMAIN db.cat : db.cat[c] # n
  /\ \E c \in CatIds \ DOMAIN db.cat :
       db' = [db EXCEPT !.cat = Put(@, c, n)]

RenameCategory(c, n) ==
  /\ c \in DOMAIN db.cat
  /\ \A e \in DOMAIN db.cat : db.cat[e] # n
  /\ db' = [db EXCEPT !.cat = Put(@, c, n)]

RemoveCategory(c) ==
  /\ c \in DOMAIN db.cat
  /\ db' = [db EXCEPT !.cat = Without(@, {c}),
                      !.txn = Uncategorised(@, c)]

StoreNext ==
  \/ \E u \in Users :
       \/ AddTransaction(u)
       \/ \E i \in TxnIds : \/ ChangeTransaction(u, i)
                            \/ RemoveTransaction(u, i)
                            \/ \E c \in ChrIds : AddSplit(u, i, c)
       \/ \E s \in SplitIds : ChangeSplit(u, s) \/ RemoveSplit(u, s)
       \/ \E n \in Names : \/ AddCharacter(u, n)
                           \/ \E c \in ChrIds : RenameCharacter(u, c, n)
       \/ \E c \in ChrIds : RemoveCharacter(u, c)
  \/ \E n \in Names : AddCategory(n) \/ \E c \in CatIds : RenameCategory(c, n)
  \/ \E c \in CatIds : RemoveCategory(c)

(* The database is consistent: see OneWallet and CategoriesExist. *)
StoreInv == Consistent(db)

StoreSpec == StoreInv /\ [][StoreNext]_db
=============================================================================
