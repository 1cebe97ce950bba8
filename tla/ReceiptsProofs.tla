---------------------------- MODULE ReceiptsProofs ----------------------------
(* For any number of threads, users, receipts and categories: a receipt is *)
(* stored with its owner and its request to the tax service or not at all. *)
EXTENDS Receipts, TLAPS

-----------------------------------------------------------------------------
(* The tables.                                                             *)

(* A row is put into a table. *)
LEMMA PutRow ==
  ASSUME NEW Max \in Nat, NEW Row, NEW f \in Table(Max, Row),
         NEW i \in 1..Max, NEW row \in Row
  PROVE  Put(f, i, row) \in Table(Max, Row)
<1>1. PICK I \in SUBSET (1..Max) : f \in [I -> Row]
  BY DEF Table
<1>2. Put(f, i, row) \in [I \cup {i} -> Row] /\ I \cup {i} \in SUBSET (1..Max)
  BY <1>1 DEF Put
<1> QED
  BY <1>2 DEF Table

LEMMA TableDomain ==
  ASSUME NEW Max \in Nat, NEW Row, NEW f \in Table(Max, Row)
  PROVE  DOMAIN f \subseteq 1..Max /\ \A i \in DOMAIN f : f[i] \in Row
<1>1. PICK I \in SUBSET (1..Max) : f \in [I -> Row]
  BY DEF Table
<1> QED
  BY <1>1

(* What the invariant says of contents d under sequences q. *)
References(d, q) ==
  /\ \A i \in DOMAIN d.receipts : i < q.receipt
  /\ \A n \in DOMAIN d.requests : /\ n < q.request
                                  /\ d.requests[n] \in DOMAIN d.receipts
  /\ \A n \in DOMAIN d.txns : /\ n < q.txn
                              /\ d.txns[n].receipt \in DOMAIN d.receipts
  /\ \A row \in d.links : row[2] \in DOMAIN d.receipts
  /\ d.loaded \subseteq DOMAIN d.receipts

Owners(d) ==
  \A i \in DOMAIN d.receipts :
    /\ \E u \in Users : <<u, i>> \in d.links
    /\ \E n \in DOMAIN d.requests : d.requests[n] = i

Sound(d, q) == /\ d \in Databases /\ q \in SeqValues
               /\ References(d, q) /\ Owners(d)

(* What it says of the threads. *)
Talking == /\ link \in Links
           /\ owner \in Threads \cup {NoThread}
           /\ pc \in [Threads -> Stages]
           /\ req \in [Threads -> RequestType]
           /\ reply \in [to : Threads \cup {NoThread}, code : Codes,
                         id : 0..MaxReceipt]
           /\ \A t \in Threads : owner = t => pc[t] # "idle"
           /\ RequestsAreComplete

LEMMA PartsOfIInv == IInv <=> Talking /\ Sound(db, seq)
BY DEF IInv, TypeOK, Talking, Sound, References, Owners, ReferencesHold,
       ReceiptsHaveOwners

(* Sequences only grow. *)
LEMMA DrawKeeps ==
  ASSUME IInv, NEW t \in Threads,
         NEW upTo \in {"receipt", "request", "txn"}, Draw(t, upTo)
  PROVE  /\ Sound(db, seq')
         /\ IdsOf(db, req[t].key) = {} /\ seq.receipt <= MaxReceipt
              => seq'.receipt = seq.receipt + 1
         /\ upTo = "txn" /\ seq.request <= MaxRequest
              => seq'.request = seq.request + 1
         /\ upTo = "txn" /\ req[t].create /\ seq.txn <= MaxTxn
              => seq'.txn = seq.txn + 1
<1>1. Sound(db, seq) /\ seq \in SeqValues
  BY PartsOfIInv DEF Sound
<1>2. /\ MaxReceipt \in Nat /\ MaxRequest \in Nat /\ MaxTxn \in Nat
      /\ seq.receipt \in 1..MaxReceipt + 1
      /\ seq.request \in 1..MaxRequest + 1
      /\ seq.txn \in 1..MaxTxn + 1
  BY <1>1, ReceiptsAssumption DEF SeqValues
<1>3. seq' = [receipt |-> seq'.receipt, request |-> seq'.request,
              txn |-> seq'.txn]
      /\ seq'.receipt = (IF IdsOf(db, req[t].key) = {}
                         THEN Nextval(seq.receipt, MaxReceipt) ELSE seq.receipt)
      /\ seq'.request = (IF upTo # "receipt"
                         THEN Nextval(seq.request, MaxRequest) ELSE seq.request)
      /\ seq'.txn = (IF upTo = "txn" /\ req[t].create
                     THEN Nextval(seq.txn, MaxTxn) ELSE seq.txn)
  BY <1>1 DEF Draw, SeqValues
<1>4. /\ seq'.receipt \in 1..MaxReceipt + 1 /\ seq.receipt <= seq'.receipt
      /\ seq'.request \in 1..MaxRequest + 1 /\ seq.request <= seq'.request
      /\ seq'.txn \in 1..MaxTxn + 1 /\ seq.txn <= seq'.txn
  BY <1>2, <1>3 DEF Nextval
<1>5. seq' \in SeqValues
  BY <1>3, <1>4 DEF SeqValues
<1>6. /\ DOMAIN db.receipts \subseteq 1..MaxReceipt
      /\ DOMAIN db.requests \subseteq 1..MaxRequest
      /\ DOMAIN db.txns \subseteq 1..MaxTxn
  BY <1>1, <1>2, TableDomain DEF Sound, Databases
<1>7. References(db, seq')
  BY <1>1, <1>2, <1>4, <1>6 DEF Sound, References
<1> QED
  BY <1>1, <1>2, <1>3, <1>5, <1>7 DEF Sound, Nextval

(* All statements of a scan succeed. *)
LEMMA ScannedEffect ==
  ASSUME IInv, NEW t \in Threads, Scanning(t),
         ~ AddFails(t), ~ RequestFails, ~ CreateFails(t), Draw(t, "txn"),
         NEW i, i = ReceiptId(db, seq, req[t].key),
         NEW d, d = Scanned(t)
  PROVE  /\ i \in Ids
         /\ Sound(d, seq')
         /\ i \in IdsOf(d, req[t].key)
         /\ <<req[t].user, i>> \in d.links
         /\ seq.request \in DOMAIN d.requests \ DOMAIN db.requests
         /\ d.requests[seq.request] = i
         /\ IF req[t].create
            THEN /\ seq.txn \in DOMAIN d.txns \ DOMAIN db.txns
                 /\ d.txns[seq.txn] = [user |-> req[t].user, receipt |-> i,
                                       cat |-> req[t].cat]
            ELSE d.txns = db.txns
         /\ d.loaded = db.loaded
<1> DEFINE r == req[t]
           row == [user |-> r.user, receipt |-> i, cat |-> r.cat]
<1>1. /\ Sound(db, seq) /\ Sound(db, seq') /\ seq \in SeqValues
      /\ db \in Databases /\ References(db, seq) /\ Owners(db)
  BY DrawKeeps, PartsOfIInv DEF Sound
<1>2. /\ r.user \in Users /\ r.key \in Keys /\ r.create \in BOOLEAN
      /\ r.cat \in Categories \cup {NoCategory, LostCategory}
  <2>1. pc[t] = "scan"
    BY DEF Scanning, At
  <2> QED
    BY <2>1, PartsOfIInv DEF Talking, RequestsAreComplete, RequestType
<1>3. /\ MaxReceipt \in Nat /\ MaxRequest \in Nat /\ MaxTxn \in Nat
      /\ seq.receipt \in 1..MaxReceipt + 1
      /\ seq.request \in 1..MaxRequest + 1
      /\ seq.txn \in 1..MaxTxn + 1
  BY <1>1, ReceiptsAssumption DEF SeqValues
<1>4. /\ db.receipts \in Table(MaxReceipt, Keys)
      /\ db.links \in SUBSET (Users \X Ids)
      /\ db.requests \in Table(MaxRequest, Ids)
      /\ db.txns \in Table(MaxTxn, TxnRow)
      /\ db.loaded \in SUBSET Ids
  BY <1>1 DEF Databases
<1>5. /\ DOMAIN db.receipts \subseteq Ids
      /\ \A j \in DOMAIN db.receipts : db.receipts[j] \in Keys
      /\ DOMAIN db.requests \subseteq 1..MaxRequest
      /\ DOMAIN db.txns \subseteq 1..MaxTxn
  BY <1>3, <1>4, TableDomain DEF Ids
<1>6. /\ i \in Ids
      /\ i \in DOMAIN db.receipts => db.receipts[i] = r.key
      /\ i \notin DOMAIN db.receipts => i < seq'.receipt
  <2>1. CASE IdsOf(db, r.key) = {}
    <3>1. i = seq.receipt
      BY <2>1 DEF ReceiptId
    <3>2. i <= MaxReceipt
      BY <1>3, <3>1 DEF AddFails
    <3>3. seq'.receipt = seq.receipt + 1
      BY <2>1, <3>1, <3>2, DrawKeeps
    <3>4. i \notin DOMAIN db.receipts
      BY <1>1, <1>3, <1>5, <3>1 DEF References, Ids
    <3> QED
      BY <1>3, <3>1, <3>2, <3>3, <3>4 DEF Ids
  <2>2. CASE IdsOf(db, r.key) # {}
    <3>1. i \in IdsOf(db, r.key)
      BY <2>2 DEF ReceiptId
    <3> QED
      BY <1>5, <3>1 DEF IdsOf
  <2> QED
    BY <2>1, <2>2
<1>7. seq.request \in 1..MaxRequest /\ seq'.request = seq.request + 1
      /\ seq.request \notin DOMAIN db.requests
  BY <1>1, <1>3, <1>5, DrawKeeps DEF RequestFails, References
<1>8. r.create => /\ seq.txn \in 1..MaxTxn /\ seq'.txn = seq.txn + 1
                  /\ seq.txn \notin DOMAIN db.txns
                  /\ row \in TxnRow
  <2>1. r.create => seq.txn <= MaxTxn /\ r.cat # LostCategory
    BY <1>3 DEF CreateFails
  <2>2. r.create => row \in TxnRow
    BY <1>2, <1>6, <2>1 DEF TxnRow
  <2>3. r.create => seq'.txn = seq.txn + 1
    BY <2>1, DrawKeeps
  <2> QED
    BY <1>1, <1>3, <1>5, <2>1, <2>2, <2>3 DEF References
<1>9. d = [receipts |-> Put(db.receipts, i, r.key),
           links |-> db.links \cup {<<r.user, i>>},
           requests |-> Put(db.requests, seq.request, i),
           txns |-> IF r.create THEN Put(db.txns, seq.txn, row) ELSE db.txns,
           loaded |-> db.loaded]
  BY <1>1 DEF Scanned, Databases
<1>10. /\ d.receipts \in Table(MaxReceipt, Keys)
       /\ DOMAIN d.receipts = DOMAIN db.receipts \cup {i}
       /\ d.receipts[i] = r.key
  <2>1. i \in 1..MaxReceipt
    BY <1>6 DEF Ids
  <2>2. d.receipts = Put(db.receipts, i, r.key)
    BY <1>9
  <2> HIDE DEF r, row
  <2>3. Put(db.receipts, i, r.key) \in Table(MaxReceipt, Keys)
    BY <1>2, <1>3, <1>4, <2>1, PutRow
  <2>4. /\ DOMAIN Put(db.receipts, i, r.key) = DOMAIN db.receipts \cup {i}
        /\ Put(db.receipts, i, r.key)[i] = r.key
    BY DEF Put
  <2> QED
    BY <2>2, <2>3, <2>4
<1>11. /\ d.requests \in Table(MaxRequest, Ids)
       /\ DOMAIN d.requests = DOMAIN db.requests \cup {seq.request}
       /\ d.requests[seq.request] = i
       /\ \A n \in DOMAIN db.requests : d.requests[n] = db.requests[n]
  <2>1. d.requests = Put(db.requests, seq.request, i)
    BY <1>9
  <2>2. Put(db.requests, seq.request, i) \in Table(MaxRequest, Ids)
    BY <1>3, <1>4, <1>6, <1>7, PutRow
  <2>3. /\ DOMAIN Put(db.requests, seq.request, i)
             = DOMAIN db.requests \cup {seq.request}
        /\ Put(db.requests, seq.request, i)[seq.request] = i
        /\ \A n \in DOMAIN db.requests : n # seq.request =>
             Put(db.requests, seq.request, i)[n] = db.requests[n]
    BY DEF Put
  <2> QED
    BY <1>7, <2>1, <2>2, <2>3
<1>12. Owners(d)
  <2>1. d.links = db.links \cup {<<r.user, i>>}
    BY <1>9
  <2> SUFFICES ASSUME NEW j \in DOMAIN d.receipts
               PROVE  /\ \E u \in Users : <<u, j>> \in d.links
                      /\ \E n \in DOMAIN d.requests : d.requests[n] = j
    BY DEF Owners
  <2>2. CASE j = i
    <3>1. <<r.user, j>> \in d.links
      BY <2>1, <2>2
    <3>2. seq.request \in DOMAIN d.requests
      BY <1>11
    <3> QED
      BY <1>2, <1>11, <2>2, <3>1, <3>2
  <2>3. CASE j # i
    <3>1. j \in DOMAIN db.receipts
      BY <1>10, <2>3
    <3>2. PICK u \in Users : <<u, j>> \in db.links
      BY <1>1, <3>1 DEF Owners
    <3>3. PICK n \in DOMAIN db.requests : db.requests[n] = j
      BY <1>1, <3>1 DEF Owners
    <3>4. n \in DOMAIN d.requests /\ d.requests[n] = j
      BY <1>11, <3>3
    <3> QED
      BY <2>1, <3>2, <3>4
  <2> QED
    BY <2>2, <2>3
<1>13. CASE r.create
  <2>1. /\ d.txns \in Table(MaxTxn, TxnRow)
        /\ DOMAIN d.txns = DOMAIN db.txns \cup {seq.txn}
        /\ d.txns[seq.txn] = row
        /\ \A n \in DOMAIN db.txns : d.txns[n] = db.txns[n]
    <3>1. d.txns = Put(db.txns, seq.txn, row)
      BY <1>9, <1>13
    <3>2. /\ seq.txn \in 1..MaxTxn /\ seq.txn \notin DOMAIN db.txns
          /\ row \in TxnRow
      BY <1>8, <1>13
    <3> HIDE DEF r, row
    <3>3. Put(db.txns, seq.txn, row) \in Table(MaxTxn, TxnRow)
      BY <1>3, <1>4, <3>2, PutRow
    <3>4. /\ DOMAIN Put(db.txns, seq.txn, row) = DOMAIN db.txns \cup {seq.txn}
          /\ Put(db.txns, seq.txn, row)[seq.txn] = row
          /\ \A n \in DOMAIN db.txns : n # seq.txn =>
               Put(db.txns, seq.txn, row)[n] = db.txns[n]
      BY DEF Put
    <3> QED
      BY <3>1, <3>2, <3>3, <3>4
  <2>2. d \in Databases
    BY <1>2, <1>4, <1>6, <1>9, <1>10, <1>11, <2>1 DEF Databases
  <2>3. References(d, seq')
    BY <1>1, <1>6, <1>7, <1>8, <1>9, <1>10, <1>11, <1>13, <2>1
    DEF Sound, References
  <2> QED
    BY <1>1, <1>6, <1>7, <1>8, <1>9, <1>10, <1>11, <1>13, <2>1, <2>2, <2>3,
       <1>12 DEF Sound, IdsOf
<1>14. CASE ~ r.create
  <2>1. d.txns = db.txns
    BY <1>9, <1>14
  <2>2. d \in Databases
    BY <1>2, <1>4, <1>6, <1>9, <1>10, <1>11, <2>1 DEF Databases
  <2>3. References(d, seq')
    BY <1>1, <1>6, <1>7, <1>9, <1>10, <1>11, <2>1 DEF Sound, References
  <2> QED
    BY <1>1, <1>6, <1>7, <1>9, <1>10, <1>11, <1>14, <2>1, <2>2, <2>3, <1>12
    DEF Sound, IdsOf
<1> QED
  BY <1>13, <1>14

-----------------------------------------------------------------------------
(* The threads.                                                            *)

(* Thread t answers its call and does not hold the connection. *)
LEMMA Answering ==
  ASSUME Talking, NEW t \in Threads, NEW code \in Codes,
         NEW id \in 0..MaxReceipt, Reply(t, code, id), link' \in Links,
         owner' = NoThread \/ (owner' = owner /\ owner # t)
  PROVE  Talking'
<1>1. NoReq \in RequestType
  BY ReceiptsAssumption DEF RequestType
<1>2. pc' \in [Threads -> Stages] /\ req' \in [Threads -> RequestType]
  BY <1>1 DEF Talking, Reply, Stages
<1>3. reply' \in [to : Threads \cup {NoThread}, code : Codes,
                  id : 0..MaxReceipt]
  BY DEF Reply
<1>4. /\ pc'[t] = "idle"
      /\ \A s \in Threads \ {t} : pc'[s] = pc[s] /\ req'[s] = req[s]
  BY DEF Talking, Reply
<1>5. \A s \in Threads : owner' = s => s # t /\ owner = s
  BY NoThreadAssumption DEF Talking
<1>6. owner' \in Threads \cup {NoThread}
  BY DEF Talking
<1>7. RequestsAreComplete'
  BY <1>4 DEF Talking, RequestsAreComplete
<1> QED
  BY <1>2, <1>3, <1>4, <1>5, <1>6, <1>7 DEF Talking

(* Thread t gives the connection back and goes on. *)
LEMMA Going ==
  ASSUME Talking, NEW t \in Threads, NEW stage \in Stages, Go(t, stage),
         stage # "idle", link' \in Links, owner' = NoThread,
         stage = "scan" => req[t].user \in Users /\ req[t].key \in Keys
  PROVE  Talking'
<1>1. pc' \in [Threads -> Stages] /\ req' = req
  BY DEF Talking, Go
<1>2. reply' \in [to : Threads \cup {NoThread}, code : Codes,
                  id : 0..MaxReceipt]
  BY ReceiptsAssumption DEF Go, NoReply, Codes
<1>3. pc'[t] = stage /\ \A s \in Threads \ {t} : pc'[s] = pc[s]
  BY DEF Talking, Go
<1>4. RequestsAreComplete'
  BY <1>1, <1>3 DEF Talking, RequestsAreComplete
<1> QED
  BY <1>1, <1>2, <1>4, NoThreadAssumption DEF Talking

(* The process ends: nobody has a call any more. *)
LEMMA ProcessEnds ==
  ASSUME Talking, Lost, link' = "down", owner' = NoThread
  PROVE  Talking'
<1>1. NoReq \in RequestType
  BY ReceiptsAssumption DEF RequestType
<1>2. pc' \in [Threads -> Stages] /\ req' \in [Threads -> RequestType]
  BY <1>1 DEF Lost, Stages
<1>3. reply' \in [to : Threads \cup {NoThread}, code : Codes,
                  id : 0..MaxReceipt]
  BY ReceiptsAssumption DEF Lost, NoReply, Codes
<1>4. \A t \in Threads : pc'[t] = "idle"
  BY DEF Lost
<1> QED
  BY <1>2, <1>3, <1>4, NoThreadAssumption
  DEF Talking, Links, RequestsAreComplete

-----------------------------------------------------------------------------
(* The steps.  Each keeps what is said of the threads and of the database. *)

LEMMA CallKeeps ==
  ASSUME IInv, NEW t \in Threads, Call(t)
  PROVE  Talking'
<1>1. Talking
  BY PartsOfIInv
<1>2. PICK r \in Requests : req' = [req EXCEPT ![t] = r]
  BY DEF Call
<1>3. r \in RequestType
  BY DEF Requests
<1>4. pc' \in [Threads -> Stages] /\ req' \in [Threads -> RequestType]
  BY <1>1, <1>2, <1>3 DEF Call, Talking, Stages
<1>5. pc'[t] = "auth"
      /\ \A s \in Threads \ {t} : pc'[s] = pc[s] /\ req'[s] = req[s]
  BY <1>1, <1>2 DEF Call, Talking
<1>6. reply' \in [to : Threads \cup {NoThread}, code : Codes,
                  id : 0..MaxReceipt]
  BY ReceiptsAssumption DEF Call, NoReply, Codes
<1>7. RequestsAreComplete'
  BY <1>1, <1>5 DEF Talking, RequestsAreComplete
<1> QED
  BY <1>1, <1>4, <1>5, <1>6, <1>7 DEF Talking, Call

LEMMA QueryKeeps ==
  ASSUME IInv, NEW t \in Threads,
         EmptyToken(t) \/ Begin(t) \/ Refuse(t) \/ Crash(t)
  PROVE  Talking' /\ db' = db /\ seq' = seq
<1>1. Talking /\ 0 \in 0..MaxReceipt
  BY PartsOfIInv, ReceiptsAssumption
<1>2. CASE EmptyToken(t)
  <2>1. owner' = owner /\ owner # t /\ link' \in Links
    BY <1>1, <1>2 DEF EmptyToken, Talking
  <2>2. Reply(t, "UNAUTHORIZED", 0) /\ db' = db /\ seq' = seq
    BY <1>2 DEF EmptyToken
  <2> QED
    BY <1>1, <2>1, <2>2, Answering DEF Codes
<1>3. CASE Begin(t)
  <2>1. /\ owner' = t /\ pc[t] # "idle"
        /\ link' = link /\ db' = db /\ seq' = seq /\ pc' = pc /\ req' = req
        /\ reply' = NoReply
    BY <1>3 DEF Begin, Acquire
  <2>2. reply' \in [to : Threads \cup {NoThread}, code : Codes,
                    id : 0..MaxReceipt]
    BY <1>1, <2>1 DEF NoReply, Codes
  <2> QED
    BY <1>1, <2>1, <2>2 DEF Talking, RequestsAreComplete
<1>4. CASE Refuse(t)
  <2>1. owner' = owner /\ owner # t /\ link' \in Links /\ db' = db /\ seq' = seq
    BY <1>1, <1>4 DEF Refuse, Refused, Talking
  <2>2. Reply(t, "UNAUTHORIZED", 0) \/ Reply(t, "SERVER_ERROR", 0)
    BY <1>4 DEF Refuse
  <2> QED
    BY <1>1, <2>1, <2>2, Answering DEF Codes
<1>5. CASE Crash(t)
  <2>1. Lost /\ link' = "down" /\ owner' = NoThread /\ db' = db /\ seq' = seq
    BY <1>5 DEF Crash, Terminate, NullDereference
  <2> QED
    BY <1>1, <2>1, ProcessEnds
<1> QED
  BY <1>2, <1>3, <1>4, <1>5

LEMMA AuthenticateKeeps ==
  ASSUME IInv, NEW t \in Threads, Authenticate(t)
  PROVE  Talking' /\ db' = db /\ seq' = seq
<1>1. Talking /\ 0 \in 0..MaxReceipt
  BY PartsOfIInv, ReceiptsAssumption
<1>2. owner = t /\ owner' = NoThread /\ link' \in Links /\ db' = db /\ seq' = seq
  BY <1>1 DEF Authenticate, EndRead, Release, Talking
<1>3. req[t] \in RequestType
  BY <1>1 DEF Talking
<1>4. CASE Reply(t, "UNAUTHORIZED", 0) \/ Reply(t, "PARSING_ERROR", 0)
  BY <1>1, <1>2, <1>4, Answering DEF Codes
<1>5. CASE Go(t, "scan") /\ req[t].op = "ProcessQRCode"
           /\ req[t].user # NoUser /\ req[t].key # NoKey
  <2>1. req[t].user \in Users /\ req[t].key \in Keys
    BY <1>3, <1>5 DEF RequestType
  <2> QED
    BY <1>1, <1>2, <1>5, <2>1, Going DEF Stages
<1>6. CASE Go(t, "list") \/ Go(t, "access")
  BY <1>1, <1>2, <1>6, Going DEF Stages
<1>7. pc[t] = "auth" /\ req[t].op \in {"none", "ProcessQRCode", "GetReceipts",
                                       "GetReceiptDetails"}
  BY <1>3 DEF Authenticate, RequestType
<1> QED
  BY <1>2, <1>4, <1>5, <1>6, <1>7 DEF Authenticate

(* A thread has a call while it holds the connection, so its request names *)
(* an operation. *)
LEMMA ReadKeeps ==
  ASSUME IInv, NEW t \in Threads, GetReceipts(t) \/ GetReceiptDetails(t)
  PROVE  Talking' /\ db' = db /\ seq' = seq
<1>1. Talking /\ 0 \in 0..MaxReceipt
  BY PartsOfIInv, ReceiptsAssumption
<1>2. owner = t /\ owner' = NoThread /\ link' \in Links /\ db' = db /\ seq' = seq
  BY <1>1 DEF GetReceipts, GetReceiptDetails, At, Lookup, EndRead, Release,
              Talking
<1>3. CASE Go(t, "details")
  BY <1>1, <1>2, <1>3, Going DEF Stages
<1>4. CASE \E code \in {"OK", "NOT_FOUND", "SERVER_ERROR"} : Reply(t, code, 0)
  BY <1>1, <1>2, <1>4, Answering DEF Codes
<1> QED
  BY <1>3, <1>4 DEF GetReceipts, GetReceiptDetails, Lookup

(* Thread t stores everything that it was asked for. *)
Stores(t) == /\ Scanning(t)
             /\ ~ AddFails(t) /\ ~ RequestFails /\ ~ CreateFails(t)
             /\ Draw(t, "txn")
             /\ db' = Scanned(t)

LEMMA WriteKeeps ==
  ASSUME IInv, NEW t \in Threads, NEW newDb, NEW code \in Codes,
         NEW id \in 0..MaxReceipt, Write(t, newDb, code, id)
  PROVE  Talking' /\ (db' = db \/ db' = newDb)
<1>1. Talking
  BY PartsOfIInv
<1>2. CASE Release(t) /\ db' = newDb /\ Reply(t, code, id)
  <2>1. owner' = NoThread /\ link' \in Links
    BY <1>1, <1>2 DEF Release, Talking
  <2> QED
    BY <1>1, <1>2, <2>1, Answering
<1>3. CASE InDoubt(t) /\ db' \in {db, newDb} /\ Lost
  BY <1>1, <1>3, ProcessEnds DEF InDoubt
<1> QED
  BY <1>2, <1>3 DEF Write

LEMMA ScanKeeps ==
  ASSUME IInv, NEW t \in Threads, ProcessQRCode(t)
  PROVE  Talking' /\ Sound(db, seq)' /\ (db' = db \/ Stores(t))
<1>1. 0 \in 0..MaxReceipt /\ {"OK", "SERVER_ERROR"} \subseteq Codes
  BY ReceiptsAssumption DEF Codes
<1> DEFINE i == ReceiptId(db, seq, req[t].key)
<1>2. CASE ScanFails(t)
  <2>1. Talking' /\ db' = db
    BY <1>1, <1>2, WriteKeeps DEF ScanFails
  <2>2. Sound(db, seq')
    BY <1>2, DrawKeeps DEF ScanFails
  <2> QED
    BY <2>1, <2>2
<1>3. i \in 1..MaxReceipt + 1
  <2>1. /\ seq.receipt \in 1..MaxReceipt + 1 /\ MaxReceipt \in Nat
        /\ db.receipts \in Table(MaxReceipt, Keys)
    BY PartsOfIInv, ReceiptsAssumption DEF Sound, SeqValues, Databases
  <2>2. DOMAIN db.receipts \subseteq 1..MaxReceipt
    BY <2>1, TableDomain
  <2>3. CASE IdsOf(db, req[t].key) = {}
    BY <2>1, <2>3 DEF ReceiptId
  <2>4. CASE IdsOf(db, req[t].key) # {}
    <3>1. i \in IdsOf(db, req[t].key)
      BY <2>4 DEF ReceiptId
    <3> QED
      BY <2>1, <2>2, <3>1 DEF IdsOf
  <2> QED
    BY <2>3, <2>4
<1>4. ~ AddFails(t) => i \in 0..MaxReceipt
  BY <1>3, ReceiptsAssumption DEF AddFails
<1>5. CASE ScanIsLost(t)
  <2>1. Talking' /\ db' = db
    BY <1>1, <1>4, <1>5, WriteKeeps DEF ScanIsLost
  <2>2. Sound(db, seq')
    BY <1>5, DrawKeeps DEF ScanIsLost
  <2> QED
    BY <2>1, <2>2
<1>6. CASE ScanSucceeds(t)
  <2>1. Talking' /\ (db' = db \/ db' = Scanned(t))
    BY <1>1, <1>4, <1>6, WriteKeeps DEF ScanSucceeds
  <2>2. Sound(db, seq')
    BY <1>6, DrawKeeps DEF ScanSucceeds
  <2>3. Sound(Scanned(t), seq')
    BY <1>6, ScannedEffect DEF ScanSucceeds
  <2> QED
    BY <1>6, <2>1, <2>2, <2>3 DEF ScanSucceeds, Stores
<1> QED
  BY <1>2, <1>5, <1>6 DEF ProcessQRCode

LEMMA LoadKeeps ==
  ASSUME IInv, Load
  PROVE  /\ Talking' /\ Sound(db, seq)'
         /\ [db' EXCEPT !.loaded = db.loaded] = db
<1>1. Talking /\ Sound(db, seq) /\ db \in Databases
  BY PartsOfIInv DEF Sound
<1>2. PICK i \in Ids : \E n \in DOMAIN db.requests :
             /\ db.requests[n] = i
             /\ db' = [db EXCEPT !.loaded = @ \cup {i}]
  BY DEF Load
<1>3. i \in DOMAIN db.receipts
  BY <1>1, <1>2 DEF Sound, References
<1>4. /\ db' \in Databases
      /\ db'.receipts = db.receipts /\ db'.links = db.links
      /\ db'.requests = db.requests /\ db'.txns = db.txns
      /\ db'.loaded = db.loaded \cup {i}
  BY <1>1, <1>2 DEF Databases
<1>5. [db' EXCEPT !.loaded = db.loaded] = db
  BY <1>1, <1>2 DEF Databases
<1>6. Sound(db', seq)
  BY <1>1, <1>3, <1>4 DEF Sound, References, Owners
<1>7. Talking'
  BY <1>1, ReceiptsAssumption
  DEF Load, Talking, NoReply, Codes, RequestsAreComplete
<1> QED
  BY <1>5, <1>6, <1>7 DEF Load

LEMMA InitIInv == Init => IInv
<1> SUFFICES ASSUME Init PROVE IInv
  OBVIOUS
<1>1. NoReq \in RequestType
  BY ReceiptsAssumption DEF RequestType
<1>2. Talking
  BY <1>1, ReceiptsAssumption, NoThreadAssumption
  DEF Init, NoCalls, Talking, Links, Stages, NoReply, Codes,
      RequestsAreComplete
<1>3. \A Max \in Nat : \A Row : <<>> \in Table(Max, Row)
  <2> SUFFICES ASSUME NEW Max \in Nat, NEW Row
               PROVE  <<>> \in Table(Max, Row)
    OBVIOUS
  <2>1. {} \in SUBSET (1..Max) /\ <<>> \in [{} -> Row]
    OBVIOUS
  <2> QED
    BY <2>1 DEF Table
<1>4. /\ MaxReceipt \in Nat /\ MaxRequest \in Nat /\ MaxTxn \in Nat
      /\ db = [receipts |-> <<>>, links |-> {}, requests |-> <<>>,
               txns |-> <<>>, loaded |-> {}]
      /\ seq = [receipt |-> 1, request |-> 1, txn |-> 1]
  BY ReceiptsAssumption DEF Init
<1>5. db \in Databases /\ seq \in SeqValues
  BY <1>3, <1>4 DEF Databases, SeqValues
<1>6. References(db, seq) /\ Owners(db)
  BY <1>4 DEF References, Owners
<1> QED
  BY <1>2, <1>5, <1>6, PartsOfIInv DEF Sound

LEMMA NextEffect ==
  ASSUME IInv, [Next]_vars
  PROVE  /\ IInv'
         /\ \/ [db' EXCEPT !.loaded = db.loaded] = db
            \/ \E t \in Threads : Stores(t)
<1>1. Talking /\ Sound(db, seq) /\ db \in Databases
  BY PartsOfIInv DEF Sound
<1>2. IInv' <=> Talking' /\ Sound(db', seq')
  BY DEF IInv, TypeOK, Talking, Sound, References, Owners, ReferencesHold,
         ReceiptsHaveOwners
<1>3. db' = db => [db' EXCEPT !.loaded = db.loaded] = db
  BY <1>1 DEF Databases
<1>4. ASSUME NEW t \in Threads, Call(t)
      PROVE  Talking' /\ db' = db /\ seq' = seq
  BY <1>4, CallKeeps DEF Call
<1>5. ASSUME NEW t \in Threads, Step(t), ~ ProcessQRCode(t)
      PROVE  Talking' /\ db' = db /\ seq' = seq
  BY <1>5, QueryKeeps, AuthenticateKeeps, ReadKeeps DEF Step
<1>6. ASSUME NEW t \in Threads, ProcessQRCode(t)
      PROVE  Talking' /\ Sound(db', seq') /\ (db' = db \/ Stores(t))
  BY <1>6, ScanKeeps
<1>7. CASE Environment
  <2>1. Talking'
    BY <1>1, <1>7, ReceiptsAssumption, NoThreadAssumption
    DEF Environment, Drop, Start, Talking, Links, NoReply, Codes,
        RequestsAreComplete
  <2> QED
    BY <1>1, <1>2, <1>3, <1>7, <2>1 DEF Environment, Drop, Start
<1>8. CASE Load
  BY <1>2, <1>8, LoadKeeps
<1>9. CASE UNCHANGED vars
  BY <1>1, <1>2, <1>3, <1>9 DEF vars, Talking, RequestsAreComplete
<1> QED
  BY <1>1, <1>2, <1>3, <1>4, <1>5, <1>6, <1>7, <1>8, <1>9 DEF Next

-----------------------------------------------------------------------------
(* For any number of threads, users and receipts: references among the     *)
(* tables hold, and threads ask only for what can be stored, through every *)
(* failure, crash and restart. *)
THEOREM InductiveInvariant == Spec => []IInv
<1>1. IInv /\ [Next]_vars => IInv'
  BY NextEffect
<1> QED
  BY <1>1, InitIInv, PTL DEF Spec

(* A stored receipt has an owner, and its data have been asked for. *)
THEOREM ReceiptsHaveOwnersTheorem == Spec => []ReceiptsHaveOwners
<1>1. IInv => ReceiptsHaveOwners
  BY DEF IInv
<1> QED
  BY <1>1, InductiveInvariant, PTL

(* A scan stores the receipt, its link, its request to the tax service and *)
(* the transaction to be booked with it, or nothing at all. *)
THEOREM ScansAreWholeTheorem == Spec => ScansAreWhole
<1>1. ASSUME IInv, [Next]_vars
      PROVE  [db' EXCEPT !.loaded = db.loaded] # db =>
               \E t \in Threads : \E i \in IdsOf(db', req[t].key) :
                 LET r == req[t] IN
                 /\ Scanning(t)
                 /\ <<r.user, i>> \in db'.links
                 /\ \E n \in DOMAIN db'.requests \ DOMAIN db.requests :
                      db'.requests[n] = i
                 /\ IF r.create
                    THEN \E n \in DOMAIN db'.txns \ DOMAIN db.txns :
                           db'.txns[n] = [user |-> r.user, receipt |-> i,
                                          cat |-> r.cat]
                    ELSE db'.txns = db.txns
  <2>1. CASE [db' EXCEPT !.loaded = db.loaded] = db
    BY <2>1
  <2>2. CASE \E t \in Threads : Stores(t)
    <3>1. PICK t \in Threads : Stores(t)
      BY <2>2
    <3>2. PICK i : i = ReceiptId(db, seq, req[t].key)
      OBVIOUS
    <3>3. /\ i \in IdsOf(db', req[t].key)
          /\ Scanning(t)
          /\ <<req[t].user, i>> \in db'.links
          /\ seq.request \in DOMAIN db'.requests \ DOMAIN db.requests
          /\ db'.requests[seq.request] = i
          /\ IF req[t].create
             THEN /\ seq.txn \in DOMAIN db'.txns \ DOMAIN db.txns
                  /\ db'.txns[seq.txn] = [user |-> req[t].user, receipt |-> i,
                                          cat |-> req[t].cat]
             ELSE db'.txns = db.txns
      BY <1>1, <3>1, <3>2, ScannedEffect DEF Stores
    <3> QED
      BY <3>3
  <2> QED
    BY <1>1, <2>1, <2>2, NextEffect
<1> QED
  BY <1>1, InductiveInvariant, PTL DEF Spec, ScansAreWhole
=============================================================================
