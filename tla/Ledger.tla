-------------------------------- MODULE Ledger --------------------------------
(***************************************************************************)
(* The writing handlers of FinanceServiceImpl, run by the threads of the   *)
(* gRPC server over the one shared database session (DbSession.tla).       *)
(*                                                                         *)
(* Every handler authenticates, validates, looks up the rows that it is    *)
(* about to change, and changes them: each in a database transaction of    *)
(* its own, so other threads' transactions come in between.  A step of a   *)
(* handler is makeTransaction() (Begin or Refuse) or all the statements of *)
(* one transaction up to the destructor that commits it: while a thread    *)
(* holds the connection no other statement reaches the database, see       *)
(* PsqlConnection.tla.                                                     *)
(***************************************************************************)
EXTENDS RpcThreads, WalletTables

CONSTANTS NoUser,      \* what authenticateUser finds for an unknown token
          NoName, NoInfo,
          RefusedName, \* a name that is too long for its column
          RefusedInfo, \* columns PostgreSQL refuses: see AskedInfos
          Ops,         \* the operations the clients of an instance call
          Clients,     \* the users who call them; the others only own rows
          InitialDb,   \* the database when the server is first started
          InitialSeq   \* and the values of its sequences

AllOps == {"CreateTransaction", "UpdateTransaction", "DeleteTransaction",
           "CreateSplit", "UpdateSplit", "DeleteSplit",
           "ManageCharacter", "DeleteCharacter",
           "ManageCategory", "DeleteCategory"}

(* The operations that only read, whose handlers are in Reads.tla. *)
ReadingOps == {"GetTransactions", "GetTransactionDetails", "GetStatistics"}

ASSUME LedgerAssumption ==
  /\ NoUser \notin Users
  /\ Ops \subseteq AllOps
  /\ Clients \subseteq Users
  /\ Consistent(InitialDb)
  /\ InitialSeq \in SeqValues
  /\ Issued(InitialDb, InitialSeq)
  /\ NoReq = [op |-> "none", user |-> NoUser, valid |-> FALSE, txn |-> 0,
              split |-> 0, chr |-> 0, cat |-> 0, name |-> NoName,
              info |-> NoInfo]

(* A handler's transactions, in order: the token is looked up, then the    *)
(* rows its access queries ask for, then the change is written.  The       *)
(* reading handlers have stages of their own.                              *)
ReadStages == {"access", "row", "receipt", "splits", "list", "statistics"}

Stages == {"idle", "auth", "txn", "split", "chr", "cat", "write"}
          \cup ReadStages

(* What a request may ask for; rows have only Names and Infos.  Each       *)
(* request names them in one statement, its last, and RefusedInfo says of  *)
(* this statement that PostgreSQL will not take its columns: the receipt   *)
(* is not in receipts when it runs, a text or a time cannot be read, or a  *)
(* column that it names is missing.                                        *)
AskedNames == Names \cup {RefusedName}

AskedInfos == Infos \cup {RefusedInfo}

(* user is the user that the request's token belongs to; valid says        *)
(* whether the request passes the handler's checks of its own fields.      *)
RequestType == [op : AllOps \cup ReadingOps \cup {"none"},
                user : Users \cup {NoUser}, valid : BOOLEAN,
                txn : TxnIds \cup {0},
                split : SplitIds \cup {0}, chr : ChrIds \cup {0},
                cat : CatIds \cup {0}, name : AskedNames \cup {NoName},
                info : AskedInfos \cup {NoInfo}]

(* A request of user u that passes validation. *)
Request(o, u, i, s, c, k, n, x) ==
  [op |-> o, user |-> u, valid |-> TRUE, txn |-> i, split |-> s, chr |-> c,
   cat |-> k, name |-> n, info |-> x]

RequestsOf(u) ==
  {Request("CreateTransaction", u, 0, 0, 0, k, NoName, x) :
     k \in CatIds \cup {0}, x \in AskedInfos}
  \cup {Request("UpdateTransaction", u, i, 0, 0, k, NoName, x) :
          i \in TxnIds, k \in CatIds \cup {0}, x \in AskedInfos}
  \cup {Request("DeleteTransaction", u, i, 0, 0, 0, NoName, NoInfo) :
          i \in TxnIds}
  \cup {Request("CreateSplit", u, i, 0, c, 0, NoName, x) :
          i \in TxnIds, c \in ChrIds, x \in AskedInfos}
  \cup {Request("UpdateSplit", u, 0, s, 0, 0, NoName, x) :
          s \in SplitIds, x \in AskedInfos}
  \cup {Request("DeleteSplit", u, 0, s, 0, 0, NoName, NoInfo) :
          s \in SplitIds}
  \cup {Request("ManageCharacter", u, 0, 0, c, 0, n, NoInfo) :
          c \in ChrIds \cup {0}, n \in AskedNames}
  \cup {Request("DeleteCharacter", u, 0, 0, c, 0, NoName, NoInfo) :
          c \in ChrIds}
  \cup {Request("ManageCategory", u, 0, 0, 0, k, n, NoInfo) :
          k \in CatIds \cup {0}, n \in AskedNames}
  \cup {Request("DeleteCategory", u, 0, 0, 0, k, NoName, NoInfo) :
          k \in CatIds}

(* A request without a known token or with bad fields is refused before    *)
(* its operation and its other fields matter.                              *)
Requests == {r \in UNION {RequestsOf(u) : u \in Clients} : r.op \in Ops}
            \cup {[NoReq EXCEPT !.user = u] : u \in Clients \cup {NoUser}}

Ids == TxnIds \cup SplitIds \cup ChrIds \cup CatIds \cup {0}

Init == /\ link \in {"open", "null"}
        /\ owner = NoThread
        /\ db = InitialDb
        /\ seq = InitialSeq
        /\ NoCalls

-----------------------------------------------------------------------------
(* The steps that come before every operation.                             *)

(* The first access query of a handler; creating a row needs none. *)
FirstStage(r) ==
  CASE r.op \in {"UpdateTransaction", "DeleteTransaction", "CreateSplit"}
         -> "txn"
    [] r.op \in {"UpdateSplit", "DeleteSplit"} -> "split"
    [] r.op \in {"ManageCharacter", "DeleteCharacter"} /\ r.chr # 0 -> "chr"
    [] r.op \in {"ManageCategory", "DeleteCategory"} /\ r.cat # 0 -> "cat"
    [] OTHER -> "write"

(* A call arrives; gRPC hands it to a free thread. *)
Call(t) == /\ pc[t] = "idle"
           /\ link # "down"
           /\ \E r \in Requests : req' = [req EXCEPT ![t] = r]
           /\ pc' = [pc EXCEPT ![t] = "auth"]
           /\ reply' = NoReply
           /\ UNCHANGED <<link, owner, db, seq>>

(* An empty token is refused without a query. *)
EmptyToken(t) == /\ pc[t] = "auth"
                 /\ owner # t
                 /\ req[t].user = NoUser
                 /\ Reply(t, "UNAUTHORIZED", 0)
                 /\ UNCHANGED <<link, owner, db, seq>>

(* authenticateUser found the token or not; then the request is validated. *)
Authenticate(t) ==
  /\ owner = t
  /\ pc[t] = "auth"
  /\ EndRead(t)
  /\ IF req[t].user = NoUser THEN Reply(t, "UNAUTHORIZED", 0)
     ELSE IF ~ req[t].valid THEN Reply(t, "INVALID_REQUEST", 0)
     ELSE Go(t, FirstStage(req[t]))

-----------------------------------------------------------------------------
(* Transactions and their splits.                                          *)

(* Mutant: the id is the first free one, not the next of the sequence.     *)
CreateTransactionFirstFree(t) ==
  LET r == req[t]
      free == (1 .. MaxTxn) \ DOMAIN db.txn
      done == /\ free # {}
              /\ r.cat \in DOMAIN db.cat \cup {0} /\ r.info \in Infos
      i == CHOOSE j \in free : \A k \in free : j <= k
      row == [user |-> r.user, cat |-> r.cat, info |-> r.info]
  IN /\ At(t, "CreateTransaction", "write")
     /\ Write(t, IF done THEN [db EXCEPT !.txn = Put(@, i, row)] ELSE db,
              IF done THEN "OK" ELSE "SERVER_ERROR", IF done THEN i ELSE 0)
     /\ UNCHANGED seq

(* add_transaction(): the row, unless its category or its receipt does not *)
(* exist.                                                                  *)
CreateTransaction(t) ==
  LET r == req[t]
      i == seq.txn
      done == /\ i <= MaxTxn
              /\ r.cat \in DOMAIN db.cat \cup {0} /\ r.info \in Infos
      row == [user |-> r.user, cat |-> r.cat, info |-> r.info]
  IN /\ At(t, "CreateTransaction", "write")
     /\ Write(t, IF done THEN [db EXCEPT !.txn = Put(@, i, row)] ELSE db,
              IF done THEN "OK" ELSE "SERVER_ERROR", IF done THEN i ELSE 0)
     /\ seq' = [seq EXCEPT !.txn = Nextval(@, MaxTxn)]

(* Mutant: a request without a category leaves the old one. *)
UpdatedTxnKeepingCategory(d, r) ==
  IF /\ r.txn \in DOMAIN d.txn
     /\ r.cat \in DOMAIN d.cat \cup {0} /\ r.info \in Infos
  THEN [d EXCEPT !.txn =
          Put(@, r.txn, [user |-> d.txn[r.txn].user,
                         cat |-> IF r.cat = 0 THEN d.txn[r.txn].cat ELSE r.cat,
                         info |-> r.info])]
  ELSE d

(* UPDATE transactions ... WHERE id: nothing happens when the row is gone, *)
(* or a foreign key fails: the category or the receipt is not there.       *)
UpdatedTxn(d, r) ==
  IF /\ r.txn \in DOMAIN d.txn
     /\ r.cat \in DOMAIN d.cat \cup {0} /\ r.info \in Infos
  THEN [d EXCEPT !.txn = Put(@, r.txn, [user |-> d.txn[r.txn].user,
                                        cat |-> r.cat, info |-> r.info])]
  ELSE d

(* The result of the UPDATE is not looked at: the call always succeeds. *)
UpdateTransaction(t) ==
  LET r == req[t]
  IN \/ /\ At(t, "UpdateTransaction", "txn")
        /\ Lookup(t, OwnsTxn(db, r.user, r.txn), "write")
     \/ /\ At(t, "UpdateTransaction", "write")
        /\ Write(t, UpdatedTxn(db, r), "OK", 0)
        /\ UNCHANGED seq

(* Mutant: the transaction is deleted before its splits; the foreign key   *)
(* of a split fails the statement and COMMIT rolls everything back.        *)
WithoutTxnFirst(d, i) ==
  IF SplitsOfTxn(d, i) # {} THEN d ELSE [d EXCEPT !.txn = Without(@, {i})]

(* DELETE FROM transaction_splits, then DELETE FROM transactions. *)
WithoutTxn(d, i) == [d EXCEPT !.split = Without(@, SplitsOfTxn(d, i)),
                              !.txn = Without(@, {i})]

DeleteTransaction(t) ==
  LET r == req[t]
  IN \/ /\ At(t, "DeleteTransaction", "txn")
        /\ Lookup(t, OwnsTxn(db, r.user, r.txn), "write")
     \/ /\ At(t, "DeleteTransaction", "write")
        /\ Write(t, WithoutTxn(db, r.txn), "OK", 0)
        /\ UNCHANGED seq

(* Mutant: the character's owner is not looked up. *)
CreateSplitAnyCharacter(t) ==
  LET r == req[t]
      s == seq.split
      done == /\ s <= MaxSplit
              /\ r.txn \in DOMAIN db.txn
              /\ r.chr \in DOMAIN db.chr
              /\ SplitsOfTxn(db, r.txn) \cap SplitsOfChr(db, r.chr) = {}
              /\ r.info \in Infos
      row == [txn |-> r.txn, chr |-> r.chr, info |-> r.info]
  IN \/ /\ At(t, "CreateSplit", "txn")
        /\ Lookup(t, OwnsTxn(db, r.user, r.txn), "write")
     \/ /\ At(t, "CreateSplit", "write")
        /\ Write(t, IF done THEN [db EXCEPT !.split = Put(@, s, row)] ELSE db,
                 IF done THEN "OK" ELSE "SERVER_ERROR", IF done THEN s ELSE 0)
        /\ seq' = [seq EXCEPT !.split = Nextval(@, MaxSplit)]

(* Mutant: the result of add_transaction_split is not looked at. *)
CreateSplitUnchecked(t) ==
  LET r == req[t]
      s == seq.split
      done == /\ s <= MaxSplit
              /\ r.txn \in DOMAIN db.txn
              /\ r.chr \in DOMAIN db.chr
              /\ SplitsOfTxn(db, r.txn) \cap SplitsOfChr(db, r.chr) = {}
              /\ r.info \in Infos
      row == [txn |-> r.txn, chr |-> r.chr, info |-> r.info]
  IN \/ /\ At(t, "CreateSplit", "txn")
        /\ Lookup(t, OwnsTxn(db, r.user, r.txn), "chr")
     \/ /\ At(t, "CreateSplit", "chr")
        /\ Lookup(t, OwnsChr(db, r.user, r.chr), "write")
     \/ /\ At(t, "CreateSplit", "write")
        /\ Write(t, IF done THEN [db EXCEPT !.split = Put(@, s, row)] ELSE db,
                 "OK", s)
        /\ seq' = [seq EXCEPT !.split = Nextval(@, MaxSplit)]

(* Two access queries, then add_transaction_split(): the row, unless one   *)
(* of its ends is gone by now or the pair is split already.                *)
CreateSplit(t) ==
  LET r == req[t]
      s == seq.split
      done == /\ s <= MaxSplit
              /\ r.txn \in DOMAIN db.txn
              /\ r.chr \in DOMAIN db.chr
              /\ SplitsOfTxn(db, r.txn) \cap SplitsOfChr(db, r.chr) = {}
              /\ r.info \in Infos
      row == [txn |-> r.txn, chr |-> r.chr, info |-> r.info]
  IN \/ /\ At(t, "CreateSplit", "txn")
        /\ Lookup(t, OwnsTxn(db, r.user, r.txn), "chr")
     \/ /\ At(t, "CreateSplit", "chr")
        /\ Lookup(t, OwnsChr(db, r.user, r.chr), "write")
     \/ /\ At(t, "CreateSplit", "write")
        /\ Write(t, IF done THEN [db EXCEPT !.split = Put(@, s, row)] ELSE db,
                 IF done THEN "OK" ELSE "SERVER_ERROR", IF done THEN s ELSE 0)
        /\ seq' = [seq EXCEPT !.split = Nextval(@, MaxSplit)]

(* UPDATE transaction_splits ... WHERE id; the result is not looked at. *)
UpdatedSplit(d, r) ==
  IF r.split \in DOMAIN d.split /\ r.info \in Infos
  THEN [d EXCEPT !.split = Put(@, r.split,
                               [d.split[r.split] EXCEPT !.info = r.info])]
  ELSE d

UpdateSplit(t) ==
  LET r == req[t]
  IN \/ /\ At(t, "UpdateSplit", "split")
        /\ Lookup(t, OwnsSplit(db, r.user, r.split), "write")
     \/ /\ At(t, "UpdateSplit", "write")
        /\ Write(t, UpdatedSplit(db, r), "OK", 0)
        /\ UNCHANGED seq

DeleteSplit(t) ==
  LET r == req[t]
  IN \/ /\ At(t, "DeleteSplit", "split")
        /\ Lookup(t, OwnsSplit(db, r.user, r.split), "write")
     \/ /\ At(t, "DeleteSplit", "write")
        /\ Write(t, [db EXCEPT !.split = Without(@, {r.split})], "OK", 0)
        /\ UNCHANGED seq

-----------------------------------------------------------------------------
(* Characters and categories.                                              *)

(* UNIQUE (user_id, name): another character of u has this name. *)
TakenByOther(d, u, n, c) ==
  \E e \in DOMAIN d.chr \ {c} : d.chr[e] = [user |-> u, name |-> n]

(* UPDATE user_characters ... WHERE id AND user_id: nothing happens when   *)
(* the row is gone or the name is taken or too long.                       *)
RenamedChr(d, r) ==
  IF /\ OwnsChr(d, r.user, r.chr)
     /\ ~ TakenByOther(d, r.user, r.name, r.chr) /\ r.name \in Names
  THEN [d EXCEPT !.chr = Put(@, r.chr, [user |-> r.user, name |-> r.name])]
  ELSE d

(* With an id: an access query and a rename whose result is not looked at. *)
(* Without: add_user_character().                                          *)
ManageCharacter(t) ==
  LET r == req[t]
      c == seq.chr
      done == /\ c <= MaxChr
              /\ ~ TakenByOther(db, r.user, r.name, 0) /\ r.name \in Names
      row == [user |-> r.user, name |-> r.name]
  IN \/ /\ At(t, "ManageCharacter", "chr")
        /\ Lookup(t, OwnsChr(db, r.user, r.chr), "write")
     \/ /\ At(t, "ManageCharacter", "write") /\ r.chr # 0
        /\ Write(t, RenamedChr(db, r), "OK", r.chr)
        /\ UNCHANGED seq
     \/ /\ At(t, "ManageCharacter", "write") /\ r.chr = 0
        /\ Write(t, IF done THEN [db EXCEPT !.chr = Put(@, c, row)] ELSE db,
                 IF done THEN "OK" ELSE "SERVER_ERROR", IF done THEN c ELSE 0)
        /\ seq' = [seq EXCEPT !.chr = Nextval(@, MaxChr)]

(* DELETE FROM transaction_splits WHERE character_id, then DELETE FROM     *)
(* user_characters WHERE id AND user_id.                                   *)
WithoutChr(d, u, c) ==
  [d EXCEPT !.split = Without(@, SplitsOfChr(d, c)),
            !.chr = Without(@, {e \in {c} : OwnsChr(d, u, e)})]

(* The access query also reads the name: the main character stays. *)
DeleteCharacter(t) ==
  LET r == req[t]
  IN \/ /\ At(t, "DeleteCharacter", "chr")
        /\ EndRead(t)
        /\ IF ~ OwnsChr(db, r.user, r.chr) THEN Reply(t, "NOT_FOUND", 0)
           ELSE IF db.chr[r.chr].name = Main
                THEN Reply(t, "INVALID_REQUEST", 0)
           ELSE Go(t, "write")
     \/ /\ At(t, "DeleteCharacter", "write")
        /\ Write(t, WithoutChr(db, r.user, r.chr), "OK", 0)
        /\ UNCHANGED seq

(* UNIQUE (name) *)
CategoryTaken(d, n, c) == \E e \in DOMAIN d.cat \ {c} : d.cat[e] = n

(* UPDATE categories ... WHERE id: as for characters. *)
RenamedCat(d, r) ==
  IF /\ r.cat \in DOMAIN d.cat
     /\ ~ CategoryTaken(d, r.name, r.cat) /\ r.name \in Names
  THEN [d EXCEPT !.cat = Put(@, r.cat, r.name)]
  ELSE d

ManageCategory(t) ==
  LET r == req[t]
      c == seq.cat
      done == /\ c <= MaxCat
              /\ ~ CategoryTaken(db, r.name, 0) /\ r.name \in Names
  IN \/ /\ At(t, "ManageCategory", "cat")
        /\ Lookup(t, r.cat \in DOMAIN db.cat, "write")
     \/ /\ At(t, "ManageCategory", "write") /\ r.cat # 0
        /\ Write(t, RenamedCat(db, r), "OK", r.cat)
        /\ UNCHANGED seq
     \/ /\ At(t, "ManageCategory", "write") /\ r.cat = 0
        /\ Write(t, IF done THEN [db EXCEPT !.cat = Put(@, c, r.name)] ELSE db,
                 IF done THEN "OK" ELSE "SERVER_ERROR", IF done THEN c ELSE 0)
        /\ seq' = [seq EXCEPT !.cat = Nextval(@, MaxCat)]

(* UPDATE transactions SET category_id = NULL, then DELETE FROM            *)
(* categories; u is not asked about, categories belong to everybody.       *)
WithoutCat(d, u, c) ==
  [d EXCEPT !.txn = Uncategorised(@, c), !.cat = Without(@, {c})]

DeleteCategory(t) ==
  LET r == req[t]
  IN \/ /\ At(t, "DeleteCategory", "cat")
        /\ Lookup(t, r.cat \in DOMAIN db.cat, "write")
     \/ /\ At(t, "DeleteCategory", "write")
        /\ Write(t, WithoutCat(db, r.user, r.cat), "OK", 0)
        /\ UNCHANGED seq

-----------------------------------------------------------------------------
Handler(t) == \/ CreateTransaction(t) \/ UpdateTransaction(t)
              \/ DeleteTransaction(t)
              \/ CreateSplit(t) \/ UpdateSplit(t) \/ DeleteSplit(t)
              \/ ManageCharacter(t) \/ DeleteCharacter(t)
              \/ ManageCategory(t) \/ DeleteCategory(t)

Step(t) == \/ EmptyToken(t) \/ Begin(t) \/ Refuse(t) \/ Authenticate(t)
           \/ Handler(t) \/ Crash(t)

Next == \/ \E t \in Threads : Call(t) \/ Step(t)
        \/ Environment

Spec == Init /\ [][Next]_vars

-----------------------------------------------------------------------------
(* Properties.                                                             *)

(* The values of the variables. *)
TypeOK == /\ link \in Links
          /\ owner \in Threads \cup {NoThread}
          /\ db \in Databases
          /\ seq \in SeqValues
          /\ pc \in [Threads -> Stages]
          /\ req \in [Threads -> RequestType]
          /\ reply \in [to : Threads \cup {NoThread}, code : Codes, id : Ids]

(* Only a thread with a call in progress holds the connection; a handler   *)
(* that returned has given it back.                                        *)
HolderIsBusy == \A t \in Threads : owner = t => pc[t] # "idle"

(* A split joins a transaction and a character of one user although the    *)
(* owner of each is checked in a transaction of its own, before the split  *)
(* is inserted in a third (CreateSplit).                                   *)
SplitsStayInOneWallet == OneWallet(db)

CheckedTxn(r) == /\ r.txn < seq.txn
                 /\ r.txn \in DOMAIN db.txn => OwnsTxn(db, r.user, r.txn)

CheckedSplit(r) ==
  /\ r.split < seq.split
  /\ r.split \in DOMAIN db.split => OwnsSplit(db, r.user, r.split)

CheckedChr(r) == /\ r.chr < seq.chr
                 /\ r.chr \in DOMAIN db.chr => OwnsChr(db, r.user, r.chr)

(* What thread t has checked of the rows that its request names. *)
RowsChecked(t) ==
  LET r == req[t] IN
  /\ /\ r.op \in {"UpdateTransaction", "DeleteTransaction", "CreateSplit"}
     /\ pc[t] \in {"chr", "write"}
     => CheckedTxn(r)
  /\ r.op \in {"UpdateSplit", "DeleteSplit"} /\ pc[t] = "write"
     => CheckedSplit(r)
  /\ r.op \in {"CreateSplit", "ManageCharacter", "DeleteCharacter"}
     /\ pc[t] = "write" /\ r.chr # 0
     => CheckedChr(r)

(* Between the access query of a handler and its write the row may be      *)
(* deleted, but it never becomes another user's: that is what makes        *)
(* writing WHERE id, without the user, right.                              *)
CheckedRowsKeepTheirOwner == \A t \in Threads : RowsChecked(t)

(* The tables change only by whole operations of the users whose rows they *)
(* are, at the moment they change: what clients of concurrent handlers can *)
(* see is what they could see of LedgerStore.                              *)
Store == INSTANCE LedgerStore

ImplementsStore == Store!StoreSpec

(* Thread t answers its call in this step. *)
Answers(t, code) == pc[t] # "idle" /\ reply'.to = t /\ reply'.code = code

(* When a delete is acknowledged, the row is gone for good and so is       *)
(* everything that hung on it; deleting a category deletes no transaction. *)
DeletesAreComplete ==
  [][\A t \in Threads : LET r == req[t] IN Answers(t, "OK") =>
       /\ r.op = "DeleteTransaction"
          => r.txn \notin DOMAIN db'.txn /\ SplitsOfTxn(db', r.txn) = {}
       /\ r.op = "DeleteSplit" => r.split \notin DOMAIN db'.split
       /\ r.op = "DeleteCharacter"
          => r.chr \notin DOMAIN db'.chr /\ SplitsOfChr(db', r.chr) = {}
       /\ r.op = "DeleteCategory"
          => /\ r.cat \notin DOMAIN db'.cat
             /\ DOMAIN db'.txn = DOMAIN db.txn
             /\ \A i \in DOMAIN db'.txn : db'.txn[i].cat # r.cat]_vars

(* When a create is acknowledged with an id, a row with this id exists,    *)
(* it is new, and it is the one that was asked for, of this user.          *)
CreatesAreStored ==
  [][\A t \in Threads :
       LET r == req[t]
           i == reply'.id
       IN Answers(t, "OK") =>
       /\ r.op = "CreateTransaction"
          => /\ i \in DOMAIN db'.txn \ DOMAIN db.txn
             /\ db'.txn[i] = [user |-> r.user, cat |-> r.cat, info |-> r.info]
       /\ r.op = "CreateSplit"
          => /\ i \in DOMAIN db'.split \ DOMAIN db.split
             /\ db'.split[i] = [txn |-> r.txn, chr |-> r.chr, info |-> r.info]
       /\ r.op = "ManageCharacter" /\ r.chr = 0
          => /\ i \in DOMAIN db'.chr \ DOMAIN db.chr
             /\ db'.chr[i] = [user |-> r.user, name |-> r.name]
       /\ r.op = "ManageCategory" /\ r.cat = 0
          => /\ i \in DOMAIN db'.cat \ DOMAIN db.cat
             /\ db'.cat[i] = r.name]_vars

(* No update is lost without a cause, and none is done by half or to       *)
(* another's row.  The rows are read by one database transaction and       *)
(* written by another, and the result of an UPDATE is not looked at.       *)
(* Still, when an update or a rename is acknowledged and its row has not   *)
(* been deleted, the row is the caller's, and it holds what was asked for, *)
(* all of it, unless at the moment of the UPDATE the category or receipt   *)
(* was not there, the name was taken or too long, or a column was refused; *)
(* then it is as it was.  A split keeps its ends.                          *)
UpdatesAreDoneOrOvertaken ==
  [][\A t \in Threads : LET r == req[t] IN Answers(t, "OK") =>
       /\ r.op = "UpdateTransaction" /\ r.txn \in DOMAIN db.txn
          => /\ OwnsTxn(db', r.user, r.txn)
             /\ db'.txn[r.txn] =
                  IF r.cat \in DOMAIN db.cat \cup {0} /\ r.info \in Infos
                  THEN [user |-> r.user, cat |-> r.cat, info |-> r.info]
                  ELSE db.txn[r.txn]
       /\ r.op = "UpdateSplit" /\ r.split \in DOMAIN db.split
          => /\ OwnsSplit(db', r.user, r.split)
             /\ db'.split[r.split] =
                  IF r.info \in Infos
                  THEN [db.split[r.split] EXCEPT !.info = r.info]
                  ELSE db.split[r.split]
       /\ r.op = "ManageCharacter" /\ r.chr \in DOMAIN db.chr
          => /\ OwnsChr(db', r.user, r.chr)
             /\ \/ db'.chr[r.chr].name = r.name
                \/ db'.chr[r.chr] = db.chr[r.chr]
                   /\ (TakenByOther(db, r.user, r.name, r.chr)
                       \/ r.name \notin Names)
       /\ r.op = "ManageCategory" /\ r.cat \in DOMAIN db.cat
          => \/ db'.cat[r.cat] = r.name
             \/ db'.cat[r.cat] = db.cat[r.cat]
                /\ (CategoryTaken(db, r.name, r.cat) \/ r.name \notin Names)
     ]_vars

(* How far a call is from its answer: the stages that its handler has left *)
(* to go through at most, two steps each, one for the connection.          *)
StagesLeft == [idle |-> 0,
               write |-> 1, chr |-> 2, cat |-> 2, split |-> 2, txn |-> 3,
               list |-> 1, statistics |-> 1,
               splits |-> 1, receipt |-> 2, row |-> 3, access |-> 4,
               auth |-> 5]

StepsLeft(t) == 2 * StagesLeft[pc[t]] + (IF owner = t THEN 0 ELSE 1)

(* A step begins a call, changes the connection, or brings a call nearer   *)
(* to its answer; and it sends no call back.                               *)
Advances == /\ \A t \in Threads :
                 pc[t] # "idle" => StepsLeft(t)' <= StepsLeft(t)
            /\ \/ link' # link
               \/ \E t \in Threads : IF pc[t] = "idle" THEN pc'[t] # "idle"
                                     ELSE StepsLeft(t)' < StepsLeft(t)

(* The safety part of "every call ends": while no call comes in and the    *)
(* connection stays as it is, only finitely many steps are left, whatever  *)
(* their order, refusals included.  Nobody waits or tries again.           *)
CallsAdvance == [][Advances]_vars

(* What service.proto says of Response.success, "Пустой результат в случае *)
(* успеха" (the empty result in case of success): an acknowledged update   *)
(* was done, unless the row was deleted in the meantime.  It does not      *)
(* hold: UpdateTransaction does not look at the result of its UPDATE.      *)
UpdatesAreDone ==
  [][\A t \in Threads :
       LET r == req[t] IN
       /\ Answers(t, "OK")
       /\ r.op = "UpdateTransaction"
       /\ r.txn \in DOMAIN db.txn
       => db'.txn[r.txn].cat = r.cat /\ db'.txn[r.txn].info = r.info]_vars

(* What DeleteCharacter says: "Cannot delete the main character".  It does *)
(* not hold: the name is read in one transaction, the row is deleted in    *)
(* another, and a ManageCharacter of the same user fits in between.        *)
MainCharacterStays ==
  [][\A c \in DOMAIN db.chr :
       db.chr[c].name = Main => c \in DOMAIN db'.chr]_vars

(* A handler past validation has the fields that its operation needs. *)
RequestsAreComplete ==
  \A t \in Threads :
    LET r == req[t] IN
    /\ pc[t] \notin {"idle", "auth"} => r.valid
    /\ r.valid =>
         /\ r.user \in Users
         /\ r.op \in {"CreateTransaction", "UpdateTransaction", "CreateSplit",
                     "UpdateSplit"} => r.info \in AskedInfos
         /\ r.op \in {"ManageCharacter", "ManageCategory"}
              => r.name \in AskedNames
         /\ r.op = "DeleteCategory" => r.cat # 0

(* The inductive invariant (LedgerProofs.tla). *)
IInv == /\ TypeOK
        /\ HolderIsBusy
        /\ Issued(db, seq)
        /\ SplitsStayInOneWallet
        /\ CategoriesExist(db)
        /\ RequestsAreComplete
        /\ CheckedRowsKeepTheirOwner
=============================================================================
