-------------------------------- MODULE Receipts --------------------------------
(***************************************************************************)
(* Receipts: ProcessQRCode, GetReceipts and GetReceiptDetails.             *)
(*                                                                         *)
(* ProcessQRCode is the one handler that writes with several statements    *)
(* whose results it looks at only in part: the receipt, its link to the    *)
(* user, a request to the tax service and, if asked, a transaction, all in *)
(* one database transaction.  A statement that fails makes every later one *)
(* fail too, and the destructor's COMMIT rolls back without an error; what *)
(* was answered by then stays answered.                                    *)
(*                                                                         *)
(* The functions add_receipt(), link_receipt_to_user()... belong to the    *)
(* database and are not in the repository.  Receipts are shared by users   *)
(* (docs/service/db.sql, user_receipts), so add_receipt() returns the id   *)
(* of a receipt with this key if there is one; whether linking a receipt   *)
(* again is an error is left open.                                         *)
(***************************************************************************)
EXTENDS RpcThreads

CONSTANTS Users, NoUser,
          Keys, NoKey,     \* (fn, i, fp) of receipts; NoKey: unparsable
          Categories,      \* that exist
          NoCategory,      \* SQL's NULL
          LostCategory,    \* one that does not exist
          MaxReceipt, MaxRequest, MaxTxn

ASSUME ReceiptsAssumption ==
  /\ NoUser \notin Users /\ NoKey \notin Keys
  /\ LostCategory \notin Categories \cup {NoCategory}
  /\ MaxReceipt \in Nat /\ MaxRequest \in Nat /\ MaxTxn \in Nat
  /\ NoReq = [op |-> "none", user |-> NoUser, key |-> NoKey, receipt |-> 0,
              create |-> FALSE, cat |-> NoCategory]

Ids == 1..MaxReceipt

(* A rolled back transaction skips ids. *)
Table(Max, Row) == UNION {[I -> Row] : I \in SUBSET (1..Max)}

TxnRow == [user : Users, receipt : Ids, cat : Categories \cup {NoCategory}]

(* loaded: receipts whose data and items the tax service has delivered. *)
Databases == [receipts : Table(MaxReceipt, Keys), links : SUBSET (Users \X Ids),
              requests : Table(MaxRequest, Ids), txns : Table(MaxTxn, TxnRow),
              loaded : SUBSET Ids]

SeqValues == [receipt : 1..MaxReceipt + 1, request : 1..MaxRequest + 1,
              txn : 1..MaxTxn + 1]

RequestType == [op : {"none", "ProcessQRCode", "GetReceipts",
                      "GetReceiptDetails"},
                user : Users \cup {NoUser}, key : Keys \cup {NoKey},
                receipt : 0..MaxReceipt, create : BOOLEAN,
                cat : Categories \cup {NoCategory, LostCategory}]

(* The category matters only when a transaction is to be created. *)
Requests ==
  {r \in RequestType :
     \/ /\ r.op = "ProcessQRCode" /\ r.user \in Users /\ r.receipt = 0
        /\ IF r.create THEN r.key \in Keys ELSE r.cat = NoCategory
     \/ /\ r.op = "GetReceipts"
        /\ r = [NoReq EXCEPT !.op = r.op, !.user = r.user]
     \/ /\ r.op = "GetReceiptDetails" /\ r.user \in Users /\ r.receipt \in Ids
        /\ r = [NoReq EXCEPT !.op = r.op, !.user = r.user,
                             !.receipt = r.receipt]}

Stages == {"idle", "auth", "scan", "list", "access", "details"}

Init == /\ link \in {"open", "null"}
        /\ owner = NoThread
        /\ db = [receipts |-> <<>>, links |-> {}, requests |-> <<>>,
                 txns |-> <<>>, loaded |-> {}]
        /\ seq = [receipt |-> 1, request |-> 1, txn |-> 1]
        /\ NoCalls

Call(t) == /\ pc[t] = "idle"
           /\ link # "down"
           /\ \E r \in Requests : req' = [req EXCEPT ![t] = r]
           /\ pc' = [pc EXCEPT ![t] = "auth"]
           /\ reply' = NoReply
           /\ UNCHANGED <<link, owner, db, seq>>

(* An empty token is refused without a query. *)
EmptyToken(t) == /\ pc[t] = "auth"
                 /\ owner # t
                 /\ req[t].user = NoUser
                 /\ Reply(t, "UNAUTHORIZED", 0)
                 /\ UNCHANGED <<link, owner, db, seq>>

(* authenticateUser; a QR code that cannot be parsed is refused next. *)
Authenticate(t) ==
  /\ owner = t
  /\ pc[t] = "auth"
  /\ EndRead(t)
  /\ LET r == req[t] IN
     IF r.user = NoUser THEN Reply(t, "UNAUTHORIZED", 0)
     ELSE IF r.op = "ProcessQRCode" /\ r.key = NoKey
     THEN Reply(t, "PARSING_ERROR", 0)
     ELSE Go(t, CASE r.op = "ProcessQRCode" -> "scan"
                  [] r.op = "GetReceipts" -> "list"
                  [] OTHER -> "access")  \* GetReceiptDetails

-----------------------------------------------------------------------------
(* ProcessQRCode.                                                          *)

IdsOf(d, key) == {i \in DOMAIN d.receipts : d.receipts[i] = key}

Put(f, i, row) == [j \in DOMAIN f \cup {i} |-> IF j = i THEN row ELSE f[j]]

(* add_receipt(): the id it returns for the key of a request. *)
ReceiptId(d, q, key) ==
  IF IdsOf(d, key) = {} THEN q.receipt ELSE CHOOSE i \in IdsOf(d, key) : TRUE

(* What the statements of thread t leave behind when all of them succeed. *)
Scanned(t) ==
  LET r == req[t]
      i == ReceiptId(db, seq, r.key)
      row == [user |-> r.user, receipt |-> i, cat |-> r.cat]
  IN [db EXCEPT
        !.receipts = Put(@, i, r.key),
        !.links = @ \cup {<<r.user, i>>},
        !.requests = Put(@, seq.request, i),
        !.txns = IF r.create THEN Put(@, seq.txn, row) ELSE @]

AddFails(t) == ReceiptId(db, seq, req[t].key) > MaxReceipt

RequestFails == seq.request > MaxRequest

CreateFails(t) == /\ req[t].create
                  /\ req[t].cat = LostCategory \/ seq.txn > MaxTxn

(* The sequences that the statements up to this one have drawn from. *)
Draw(t, upTo) ==
  seq' = [seq EXCEPT
    !.receipt = IF IdsOf(db, req[t].key) = {} THEN Nextval(@, MaxReceipt) ELSE @,
    !.request = IF upTo # "receipt" THEN Nextval(@, MaxRequest) ELSE @,
    !.txn = IF upTo = "txn" /\ req[t].create THEN Nextval(@, MaxTxn) ELSE @]

Scanning(t) == At(t, "ProcessQRCode", "scan")

(* add_receipt() fails; or the link does, which exists already, and with   *)
(* it create_receipt_request(); or only the latter.                        *)
ScanFails(t) ==
  /\ Scanning(t)
  /\ \/ /\ \/ AddFails(t)
           \/ <<req[t].user, ReceiptId(db, seq, req[t].key)>> \in db.links
        /\ Draw(t, "receipt")
     \/ /\ ~ AddFails(t)
        /\ RequestFails
        /\ Draw(t, "request")
  /\ Write(t, db, "SERVER_ERROR", 0)

(* Mutant: the failure is undone alone, and the rest is committed. *)
ScanIsKept(t) ==
  /\ Scanning(t)
  /\ ~ AddFails(t) /\ ~ RequestFails /\ CreateFails(t)
  /\ Write(t, [Scanned(t) EXCEPT !.txns = db.txns], "OK",
           ReceiptId(db, seq, req[t].key))
  /\ Draw(t, "txn")

(* The transaction cannot be created: nobody looks, the query of the       *)
(* receipt's data fails in its turn, everything is rolled back, and the    *)
(* receipt is answered as if it were there.                                *)
ScanIsLost(t) ==
  /\ Scanning(t)
  /\ ~ AddFails(t) /\ ~ RequestFails /\ CreateFails(t)
  /\ Write(t, db, "OK", ReceiptId(db, seq, req[t].key))
  /\ Draw(t, "txn")

(* Mutant: as everywhere else in the service, a transaction per statement: *)
(* the receipt is committed before it is linked.                           *)
ScanSucceedsInParts(t) ==
  LET i == ReceiptId(db, seq, req[t].key) IN
  /\ Scanning(t)
  /\ ~ AddFails(t) /\ ~ RequestFails /\ ~ CreateFails(t)
  /\ IF IdsOf(db, req[t].key) = {}
     THEN /\ Release(t)
          /\ db' = [db EXCEPT !.receipts = Put(@, i, req[t].key)]
          /\ Go(t, "scan")
     ELSE Write(t, Scanned(t), "OK", i)
  /\ Draw(t, "txn")

(* Everything succeeds.  With the items of a receipt that is loaded,       *)
(* getVariantValue<uint64_t> throws "Bad variant": the error is answered,  *)
(* and the destructor still commits.                                       *)
ScanSucceeds(t) ==
  LET i == ReceiptId(db, seq, req[t].key) IN
  /\ Scanning(t)
  /\ ~ AddFails(t) /\ ~ RequestFails /\ ~ CreateFails(t)
  /\ IF i \in db.loaded THEN Write(t, Scanned(t), "SERVER_ERROR", 0)
     ELSE Write(t, Scanned(t), "OK", i)
  /\ Draw(t, "txn")

ProcessQRCode(t) == ScanFails(t) \/ ScanIsLost(t) \/ ScanSucceeds(t)

-----------------------------------------------------------------------------
(* Reading.                                                                *)

GetReceipts(t) == /\ At(t, "GetReceipts", "list")
                  /\ EndRead(t)
                  /\ Reply(t, "OK", 0)

(* The access query, then the receipt: its fiscal numbers are asked for as *)
(* uint64_t, which getVariantValue cannot parse.                           *)
GetReceiptDetails(t) ==
  \/ /\ At(t, "GetReceiptDetails", "access")
     /\ Lookup(t, <<req[t].user, req[t].receipt>> \in db.links, "details")
  \/ /\ At(t, "GetReceiptDetails", "details")
     /\ EndRead(t)
     /\ Reply(t, IF req[t].receipt \in DOMAIN db.receipts
                 THEN "SERVER_ERROR" ELSE "NOT_FOUND", 0)

(* The tax service's data arrive through another session of the database.  *)
Load == /\ \E i \in Ids : \E n \in DOMAIN db.requests :
             /\ db.requests[n] = i
             /\ db' = [db EXCEPT !.loaded = @ \cup {i}]
        /\ reply' = NoReply
        /\ UNCHANGED <<link, owner, seq, pc, req>>

Step(t) == \/ EmptyToken(t) \/ Begin(t) \/ Refuse(t) \/ Crash(t)
           \/ Authenticate(t) \/ ProcessQRCode(t) \/ GetReceipts(t)
           \/ GetReceiptDetails(t)

Next == \/ \E t \in Threads : Call(t) \/ Step(t)
        \/ Environment \/ Load

Spec == Init /\ [][Next]_vars

-----------------------------------------------------------------------------
(* Properties.                                                             *)

(* The values of the variables. *)
TypeOK == /\ link \in Links
          /\ owner \in Threads \cup {NoThread}
          /\ db \in Databases
          /\ seq \in SeqValues
          /\ pc \in [Threads -> Stages]
          /\ req \in [Threads -> RequestType]
          /\ reply \in [to : Threads \cup {NoThread}, code : Codes,
                        id : 0..MaxReceipt]

(* A stored receipt is somebody's, and its data have been asked for: the   *)
(* three statements of the scan that stored it took effect together,       *)
(* whatever failed, crashed or was answered.                               *)
ReceiptsHaveOwners ==
  \A i \in DOMAIN db.receipts :
    /\ \E u \in Users : <<u, i>> \in db.links
    /\ \E n \in DOMAIN db.requests : db.requests[n] = i

(* Nothing refers to a receipt that is not there, and the ids in use were  *)
(* drawn from their sequences.                                             *)
ReferencesHold ==
  /\ \A i \in DOMAIN db.receipts : i < seq.receipt
  /\ \A n \in DOMAIN db.requests : /\ n < seq.request
                                  /\ db.requests[n] \in DOMAIN db.receipts
  /\ \A n \in DOMAIN db.txns : /\ n < seq.txn
                              /\ db.txns[n].receipt \in DOMAIN db.receipts
  /\ \A row \in db.links : row[2] \in DOMAIN db.receipts
  /\ db.loaded \subseteq DOMAIN db.receipts

(* A thread that has come to its statements has something to store.        *)
RequestsAreComplete ==
  \A t \in Threads :
    pc[t] = "scan" => req[t].user \in Users /\ req[t].key \in Keys

(* The inductive invariant. *)
IInv == /\ TypeOK
        /\ \A t \in Threads : owner = t => pc[t] # "idle"
        /\ RequestsAreComplete
        /\ ReferencesHold
        /\ ReceiptsHaveOwners

(* What a scan changes: everything it was asked for, or nothing.  There is *)
(* never a receipt without the expense that was to be booked with it.      *)
ScansAreWhole ==
  [][[db' EXCEPT !.loaded = db.loaded] # db =>
       \E t \in Threads : \E i \in IdsOf(db', req[t].key) :
         LET r == req[t] IN
         /\ Scanning(t)
         /\ <<r.user, i>> \in db'.links
         /\ \E n \in DOMAIN db'.requests \ DOMAIN db.requests :
              db'.requests[n] = i
         /\ IF r.create
            THEN \E n \in DOMAIN db'.txns \ DOMAIN db.txns :
                   db'.txns[n] = [user |-> r.user, receipt |-> i, cat |-> r.cat]
            ELSE db'.txns = db.txns]_vars

(* What receipt.proto says of Receipt.id: "id for database".  It does not  *)
(* hold of an answered receipt: ScanIsLost.                                *)
AnsweredIdsAreStored ==
  [][\A t \in Threads :
       Scanning(t) /\ reply'.to = t /\ reply'.code = "OK"
       => reply'.id \in IdsOf(db', req[t].key)]_vars
=============================================================================
