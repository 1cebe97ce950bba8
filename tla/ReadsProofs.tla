------------------------------ MODULE ReadsProofs ------------------------------
(***************************************************************************)
(* For any number of users, threads, rows and readers among the writers:   *)
(* the details of a transaction that a client is shown are its own, and    *)
(* pages and charts add up.                                                *)
(***************************************************************************)
EXTENDS Reads, LedgerProofs, FiniteSetTheorems

(* What the reading handlers add to the invariant of Ledger.tla. *)
Reading(t) == /\ req[t].op \in ReadingOps => req[t].valid
              /\ pc[t] \in {"row", "receipt", "splits"} => CheckedTxn(req[t])
              /\ pc[t] \in {"receipt", "splits"} =>
                   seen[t] # Nothing /\ seen[t].user = req[t].user

Seen == seen \in [Threads -> TxnRow \cup {Nothing}]

LEMMA Parts == /\ ReadInv <=> IInv /\ Seen /\ \A t \in Threads : Reading(t)
               /\ ReadInv' <=> IInv' /\ Seen' /\ \A t \in Threads : Reading(t)'
  BY DEF ReadInv, Seen, Reading

-----------------------------------------------------------------------------
(* Requests.                                                               *)

LEMMA WritersDoNotRead ==
  ASSUME NEW r \in Requests PROVE r.op \notin ReadingOps
  <1>1. CASE r \in {[NoReq EXCEPT !.user = u] : u \in Clients \cup {NoUser}}
    BY <1>1, LedgerAssumption DEF ReadingOps
  <1>2. CASE r.op \in Ops
    BY <1>2, LedgerAssumption DEF AllOps, ReadingOps
  <1> QED BY <1>1, <1>2, Zenon DEF Requests

LEMMA SentReadRequests ==
  ASSUME NEW r \in ReadRequests
  PROVE  r \in RequestType /\ Complete(r) /\ r.valid
  <1> DEFINE Good(q) == q \in RequestType /\ Complete(q) /\ q.valid
  <1>1. ASSUME NEW u \in Clients
        PROVE  /\ \A k \in CatIds \cup {0} :
                    Good(Request("GetTransactions", u, 0, 0, 0, k, NoName,
                                 NoInfo))
               /\ \A i \in TxnIds :
                    Good(Request("GetTransactionDetails", u, i, 0, 0, 0, NoName,
                                 NoInfo))
               /\ Good(Request("GetStatistics", u, 0, 0, 0, 0, NoName, NoInfo))
    <2>1. ASSUME NEW o \in ReadingOps, NEW i \in TxnIds \cup {0},
                 NEW k \in CatIds \cup {0}
          PROVE  Good(Request(o, u, i, 0, 0, k, NoName, NoInfo))
      BY LedgerAssumption DEF Request, RequestType, ReadingOps, Complete
    <2> HIDE DEF Good
    <2> QED BY <2>1 DEF ReadingOps
  <1> HIDE DEF Good
  <1>2. PICK u \in Clients :
          \/ \E k \in CatIds \cup {0} :
               r = Request("GetTransactions", u, 0, 0, 0, k, NoName, NoInfo)
          \/ \E i \in TxnIds :
               r = Request("GetTransactionDetails", u, i, 0, 0, 0, NoName,
                           NoInfo)
          \/ r = Request("GetStatistics", u, 0, 0, 0, 0, NoName, NoInfo)
    BY DEF ReadRequests
  <1>3. Good(r)
    BY <1>1, <1>2
  <1> QED BY <1>3 DEF Good

-----------------------------------------------------------------------------
(* A step of a reading handler, for the invariant of Ledger.tla.           *)

LEMMA ReaderMoves ==
  ASSUME IInv, NEW t \in Threads, UNCHANGED <<db, seq>>, Calls', Holds',
         pc'[t] \notin {"chr", "write"},
         \A x \in Threads \ {t} : pc'[x] = pc[x] /\ req'[x] = req[x]
  PROVE  IInv'
  <1>1. Effect
    BY Before, NoWrite DEF SeqValues
  <1>2. CheckedRowsKeepTheirOwner'
    <2> SUFFICES ASSUME NEW x \in Threads PROVE RowsChecked(x)'
      BY DEF CheckedRowsKeepTheirOwner
    <2> QED BY <1>1, WaitingRowsChecked, NothingChecked
  <1> QED BY <1>1, <1>2, PartsIInv

(* A reading handler goes on to another of its transactions, or answers. *)
Moves(t) == \/ \E stage \in ReadStages : Go(t, stage) /\ req[t].valid
            \/ \E code \in Codes : Reply(t, code, 0)

(* Its transaction ends, or is refused. *)
Ends(t) == \/ EndRead(t)
           \/ Refused(t) /\ UNCHANGED <<link, owner>> /\ pc'[t] = "idle"

LEMMA MoveIInv ==
  ASSUME IInv, NEW t \in Threads, Moves(t), UNCHANGED <<db, seq>>,
         Ends(t)
  PROVE  /\ IInv' /\ Effect
         /\ \A x \in Threads \ {t} : pc'[x] = pc[x] /\ req'[x] = req[x]
  <1>1. Calls /\ pc \in [Threads -> Stages] /\ req \in [Threads -> RequestType]
    BY CallsNow DEF Calls
  <1>2. Calls'
    BY <1>1, GoCalls, ReplyCalls DEF Moves, Stages, Ids
  <1>3. Holds'
    <2>1. CASE EndRead(t)
      BY <2>1, NobodyHolds DEF EndRead, Release, Links
    <2>2. CASE Refused(t) /\ UNCHANGED <<link, owner>> /\ pc'[t] = "idle"
      BY <1>1, <2>2
      DEF IInv, TypeOK, Refused, Holds, HolderIsBusy, Moves, Go, Reply
    <2> QED BY <2>1, <2>2 DEF Ends
  <1>4. \A x \in Threads \ {t} : pc'[x] = pc[x] /\ req'[x] = req[x]
    BY <1>1 DEF Moves, Go, Reply
  <1>5. pc'[t] \notin {"chr", "write"}
    BY <1>1 DEF Moves, Go, Reply, ReadStages
  <1>6. Effect
    BY Before, NoWrite DEF SeqValues
  <1> QED BY <1>2, <1>3, <1>4, <1>5, <1>6, ReaderMoves

-----------------------------------------------------------------------------
(* What the readers have seen.                                             *)

(* A thread that waits: its transaction is still its user's, or gone. *)
LEMMA WaitingReader ==
  ASSUME IInv, Effect, NEW x \in Threads, Reading(x),
         pc'[x] = pc[x], req'[x] = req[x],
         seen'[x] = seen[x] \/ pc'[x] = "idle"
  PROVE  Reading(x)'
  <1>1. req[x] \in RequestType
    BY CallsNow DEF Calls
  <1>2. CheckedTxn(req[x]) => CheckedTxn(req[x])'
    BY <1>1, CheckedTxnStays DEF CheckedTxn
  <1> QED BY <1>2 DEF Reading

(* A thread that is elsewhere. *)
LEMMA NotInDetails ==
  ASSUME NEW x \in Threads, pc'[x] \notin {"row", "receipt", "splits"},
         req'[x].op \in ReadingOps => req'[x].valid
  PROVE  Reading(x)'
  BY DEF Reading

LEMMA ShowNothingSeen ==
  ASSUME Seen, ShowNothing
  PROVE  /\ Seen'
         /\ \A x \in Threads : seen'[x] = seen[x] \/ pc'[x] = "idle"
  BY DEF Seen, ShowNothing

(* After the move of thread t the other threads' part is kept. *)
LEMMA MoveInv ==
  ASSUME ReadInv, NEW t \in Threads, Moves(t), UNCHANGED <<db, seq>>,
         Ends(t),
         Seen', \A x \in Threads \ {t} : seen'[x] = seen[x] \/ pc'[x] = "idle",
         pc'[t] = "idle" \/ Reading(t)'
  PROVE  ReadInv'
  <1>1. /\ IInv' /\ Effect
        /\ \A x \in Threads \ {t} : pc'[x] = pc[x] /\ req'[x] = req[x]
    BY Parts, MoveIInv
  <1>2. ASSUME NEW x \in Threads \ {t} PROVE Reading(x)'
    BY <1>1, <1>2, Parts, WaitingReader
  <1>3. Reading(t)'
    <2>1. CASE pc'[t] = "idle"
      <3>1. req'[t].op \notin ReadingOps
        BY <2>1, EmptyRequest, Parts, CallsNow
        DEF Moves, Go, Reply, ReadStages, ReadingOps, Calls
      <3> QED BY <2>1, <3>1, NotInDetails
    <2> QED BY <2>1
  <1> QED BY <1>1, <1>2, <1>3, Parts

(* The same at the end of a transaction that only looked something up. *)
LEMMA EndReadInv ==
  ASSUME ReadInv, NEW t \in Threads, Moves(t), EndRead(t),
         Seen', \A x \in Threads \ {t} : seen'[x] = seen[x] \/ pc'[x] = "idle",
         pc'[t] = "idle" \/ Reading(t)'
  PROVE  ReadInv'
  <1>1. UNCHANGED <<db, seq>> /\ Ends(t)
    BY DEF EndRead, Ends
  <1> QED BY <1>1, MoveInv

(* An answer: the thread has seen nothing any more. *)
LEMMA ShowInv ==
  ASSUME ReadInv, NEW t \in Threads, NEW content, EndRead(t), Show(t, content)
  PROVE  ReadInv'
  <1>1. Moves(t) /\ pc'[t] = "idle"
    BY Parts, CallsNow DEF Show, Reply, Moves, Codes, Calls
  <1>2. Seen' /\ \A x \in Threads \ {t} : seen'[x] = seen[x]
    BY Parts DEF Show, Seen
  <1> QED BY <1>1, <1>2, EndReadInv

LEMMA RowOfUser ==
  ASSUME IInv, NEW t \in Threads, CheckedTxn(req[t]),
         req[t].txn \in DOMAIN db.txn
  PROVE  LET row == db.txn[req[t].txn]
         IN row \in TxnRow /\ row # Nothing /\ row.user = req[t].user
  <1>1. db.txn[req[t].txn] \in TxnRow
    BY Before, Rows
  <1>2. \A row \in TxnRow : row # Nothing
    <2>1. \A row \in TxnRow : DOMAIN row = {"user", "cat", "info"}
      BY DEF TxnRow
    <2>2. DOMAIN Nothing = {"none"}
      BY DEF Nothing
    <2> QED BY <2>1, <2>2
  <1> QED BY <1>1, <1>2 DEF CheckedTxn, OwnsTxn

LEMMA ReadStep ==
  ASSUME ReadInv, NEW t \in Threads, Read(t) PROVE ReadInv'
  <1>1. /\ IInv /\ Seen /\ Reading(t)
        /\ pc \in [Threads -> Stages] /\ req \in [Threads -> RequestType]
        /\ pc[t] \notin {"idle", "auth"} => req[t].valid
    BY Parts, CallsNow DEF Calls
  <1>2. CASE ReadAuthenticate(t)
    <2>1. req[t].valid
      BY <1>1, <1>2, ReadsAssumption DEF ReadAuthenticate, Reading
    <2>2. PICK stage \in {"access", "list", "statistics"} : Go(t, stage)
      BY <1>2, ReadsAssumption DEF ReadAuthenticate, ReadingOps
    <2>3. Moves(t)
      BY <2>1, <2>2 DEF Moves, ReadStages
    <2>4. Reading(t)'
      BY <1>1, <2>1, <2>2, NotInDetails DEF Go
    <2> QED BY <1>1, <1>2, <2>3, <2>4, ShowNothingSeen, EndReadInv
            DEF ReadAuthenticate
  <1>3. CASE GetTransactions(t)
    BY <1>3, ShowInv DEF GetTransactions
  <1>4. CASE DetailsAccess(t)
    <2>1. EndRead(t) /\ ShowNothing /\ req[t].valid
      BY <1>1, <1>4 DEF DetailsAccess, Lookup, At
    <2>2. CASE OwnsTxn(db, req[t].user, req[t].txn) /\ Go(t, "row")
      <3>1. CheckedTxn(req[t])'
        BY <1>1, <2>1, <2>2, FoundRows DEF EndRead, Go
      <3>2. Moves(t) /\ Reading(t)'
        BY <1>1, <2>1, <2>2, <3>1 DEF Moves, ReadStages, Reading, Go
      <3> QED BY <1>1, <2>1, <3>2, ShowNothingSeen, EndReadInv
    <2>3. CASE Reply(t, "NOT_FOUND", 0)
      <3>1. Moves(t) /\ pc'[t] = "idle"
        BY <1>1, <2>3 DEF Moves, Codes, Reply
      <3> QED BY <1>1, <2>1, <3>1, ShowNothingSeen, EndReadInv
    <2> QED BY <1>4, <2>2, <2>3 DEF DetailsAccess, Lookup
  <1>5. CASE DetailsRow(t)
    <2> DEFINE i == req[t].txn
    <2>1. EndRead(t) /\ req[t].valid /\ CheckedTxn(req[t])
      BY <1>1, <1>5 DEF DetailsRow, Lookup, At, Reading
    <2>2. seen' = [seen EXCEPT ![t] = IF i \in DOMAIN db.txn THEN db.txn[i]
                                      ELSE Nothing]
      BY <1>5 DEF DetailsRow
    <2>3. Seen' /\ \A x \in Threads \ {t} : seen'[x] = seen[x]
      BY <1>1, <2>1, <2>2, RowOfUser DEF Seen
    <2>4. CASE i \in DOMAIN db.txn /\ Go(t, "receipt")
      <3>1. CheckedTxn(req[t])'
        BY <1>1, <2>1, <2>4, FoundRows DEF EndRead, Go
      <3>2. seen'[t] # Nothing /\ seen'[t].user = req[t].user
        BY <1>1, <2>1, <2>2, <2>4, RowOfUser DEF Seen
      <3>3. Moves(t) /\ Reading(t)'
        BY <1>1, <2>1, <2>4, <3>1, <3>2 DEF Moves, ReadStages, Reading, Go
      <3> QED BY <2>1, <2>3, <3>3, EndReadInv
    <2>5. CASE Reply(t, "NOT_FOUND", 0)
      <3>1. Moves(t) /\ pc'[t] = "idle"
        BY <1>1, <2>5 DEF Moves, Codes, Reply
      <3> QED BY <2>1, <2>3, <3>1, EndReadInv
    <2> QED BY <1>5, <2>4, <2>5 DEF DetailsRow, Lookup
  <1>6. CASE DetailsReceipt(t)
    <2>1. /\ EndRead(t) /\ Go(t, "splits") /\ ShowNothing /\ req[t].valid
          /\ CheckedTxn(req[t])
          /\ seen[t] # Nothing /\ seen[t].user = req[t].user
      BY <1>1, <1>6 DEF DetailsReceipt, At, Reading
    <2>2. CheckedTxn(req[t])'
      BY <1>1, <2>1, FoundRows DEF EndRead, Go
    <2>3. pc'[t] = "splits" /\ seen'[t] = seen[t]
      BY <1>1, <2>1, ShowNothingSeen DEF Go
    <2>4. Moves(t) /\ Reading(t)'
      BY <2>1, <2>2, <2>3 DEF Moves, ReadStages, Reading, Go
    <2> QED BY <1>1, <2>1, <2>4, ShowNothingSeen, EndReadInv
  <1>7. CASE DetailsSplits(t)
    BY <1>7, ShowInv DEF DetailsSplits
  <1>8. CASE DetailsRefused(t)
    <2>1. Moves(t) /\ pc'[t] = "idle"
      BY <1>1, <1>8 DEF DetailsRefused, Moves, Codes, Reply
    <2> QED BY <1>1, <1>8, <2>1, ShowNothingSeen, MoveInv
            DEF DetailsRefused, Ends
  <1>9. CASE GetStatistics(t)
    BY <1>9, ShowInv DEF GetStatistics
  <1> QED BY <1>2, <1>3, <1>4, <1>5, <1>6, <1>7, <1>8, <1>9 DEF Read

(* A call to a reading handler arrives. *)
LEMMA ReadCallStep ==
  ASSUME ReadInv, NEW t \in Threads, ReadCall(t) PROVE ReadInv'
  <1>1. IInv /\ Seen /\ Calls /\ \A x \in Threads : Reading(x)
    BY Parts, CallsNow
  <1>2. PICK r \in ReadRequests : req' = [req EXCEPT ![t] = r]
    BY <1>1 DEF ReadCall
  <1>3. r \in RequestType /\ Complete(r) /\ r.valid
    BY SentReadRequests
  <1>4. /\ pc' = [pc EXCEPT ![t] = "auth"] /\ reply' = NoReply
        /\ UNCHANGED <<link, owner, db, seq>> /\ ShowNothing
    BY DEF ReadCall
  <1>5. Calls'
    BY <1>1, <1>2, <1>3, <1>4, NoReplyType DEF Calls, Stages, Complete
  <1>6. Holds'
    BY <1>1, <1>4 DEF IInv, TypeOK, Holds, HolderIsBusy
  <1>7. \A x \in Threads \ {t} : pc'[x] = pc[x] /\ req'[x] = req[x]
    BY <1>1, <1>2, <1>4 DEF Calls
  <1>8. pc'[t] = "auth" /\ req'[t] = r
    BY <1>1, <1>2, <1>4 DEF Calls
  <1>9. IInv'
    BY <1>1, <1>4, <1>5, <1>6, <1>7, <1>8, ReaderMoves
  <1>10. Effect
    BY <1>1, <1>4, Before, NoWrite DEF SeqValues
  <1>11. ASSUME NEW x \in Threads PROVE Reading(x)'
    <2>1. CASE x = t
      BY <1>3, <1>8, <2>1, NotInDetails
    <2>2. CASE x # t
      BY <1>1, <1>4, <1>7, <1>10, <2>2, WaitingReader, ShowNothingSeen
    <2> QED BY <2>1, <2>2
  <1> QED BY <1>1, <1>4, <1>9, <1>11, ShowNothingSeen, Parts

-----------------------------------------------------------------------------
(* The steps of Ledger.tla.                                                *)

(* They leave a thread where it is or take it to a stage of a writer. *)
LEMMA WriterMoves ==
  ASSUME ReadInv, NEW t \in Threads, NEW x \in Threads,
         Call(t) \/ Step(t)
  PROVE  \/ pc'[x] = pc[x] /\ req'[x] = req[x]
         \/ /\ pc'[x] \notin {"row", "receipt", "splits"}
            /\ req'[x].op \in ReadingOps => req'[x].valid
  <1>1. /\ pc \in [Threads -> Stages] /\ req \in [Threads -> RequestType]
        /\ Reading(x)
    BY Parts, CallsNow DEF Calls
  <1>2. NoReq.op \notin ReadingOps
    BY EmptyRequest DEF ReadingOps
  <1>3. CASE Call(t)
    <2>1. PICK r \in Requests : req' = [req EXCEPT ![t] = r]
      BY <1>3 DEF Call
    <2> QED BY <1>1, <1>3, <2>1, WritersDoNotRead DEF Call
  <1>4. CASE (\E code, id : Reply(t, code, id)) \/ Lost
    BY <1>1, <1>2, <1>4 DEF Reply, Lost
  <1>5. CASE \E stage \in {"txn", "split", "chr", "cat", "write"} : Go(t, stage)
    BY <1>1, <1>5 DEF Go, Reading
  <1>6. CASE EmptyToken(t) \/ Refuse(t) \/ Crash(t)
    BY <1>4, <1>6 DEF EmptyToken, Refuse, Crash
  <1>7. CASE Begin(t)
    BY <1>7 DEF Begin
  <1>8. CASE Authenticate(t)
    <2>1. FirstStage(req[t]) \in {"txn", "split", "chr", "cat", "write"}
      BY DEF FirstStage
    <2> QED BY <1>4, <1>5, <1>8, <2>1 DEF Authenticate
  <1>9. CASE Handler(t)
    <2>1. \/ \E stage \in {"txn", "split", "chr", "cat", "write"} : Go(t, stage)
          \/ \E code, id : Reply(t, code, id)
          \/ Lost
      BY <1>9
      DEF Handler, CreateTransaction, UpdateTransaction, DeleteTransaction,
          CreateSplit, UpdateSplit, DeleteSplit, ManageCharacter,
          DeleteCharacter, ManageCategory, DeleteCategory, Lookup, Write
    <2> QED BY <1>4, <1>5, <2>1
  <1> QED BY <1>3, <1>6, <1>7, <1>8, <1>9 DEF Step

LEMMA WriterStep ==
  ASSUME ReadInv, [Next]_vars, ShowNothing \/ UNCHANGED seen
  PROVE  ReadInv'
  <1>1. IInv' /\ Effect /\ IInv /\ Seen /\ \A x \in Threads : Reading(x)
    BY Parts, NextIInv, NextEffect
  <1>2. Seen' /\ \A x \in Threads : seen'[x] = seen[x] \/ pc'[x] = "idle"
    BY <1>1, ShowNothingSeen DEF Seen
  <1>3. ASSUME NEW x \in Threads PROVE Reading(x)'
    <2>1. CASE pc'[x] = pc[x] /\ req'[x] = req[x]
      BY <1>1, <1>2, <2>1, WaitingReader
    <2>2. ASSUME NEW t \in Threads, Call(t) \/ Step(t) PROVE Reading(x)'
      BY <2>1, <2>2, WriterMoves, NotInDetails
    <2> QED BY <2>1, <2>2 DEF Next, Environment, vars
  <1> QED BY <1>1, <1>2, <1>3, Parts

-----------------------------------------------------------------------------
(* Sums over finite sets.                                                  *)

(* Induction, from the well-founded orders of the library: a set that       *)
(* contains what induction says contains everything.                        *)
LEMMA LeastNat ==
  ASSUME NEW T \in SUBSET Nat, T # {}
  PROVE  \E m \in T : \A k \in T : m <= k
  <1> DEFINE R == OpToRel(<, Nat)
  <1>1. IsWellFoundedOn(R, Nat)
    BY NatLessThanWellFounded
  <1>2. \A k, m \in Nat : k < m => <<k, m>> \in R
    BY DEF OpToRel
  <1> HIDE DEF R
  <1>3. PICK m \in T : \A k \in T : ~ (<<k, m>> \in R)
    BY <1>1, WFMin
  <1>4. ASSUME NEW k \in T PROVE m <= k
    <2>1. k \in Nat /\ m \in Nat /\ ~ (k < m)
      BY <1>2, <1>3
    <2> QED BY <2>1
  <1> QED BY <1>4

LEMMA NatSetInduction ==
  ASSUME NEW T \in SUBSET Nat, 0 \in T, \A n \in T : n + 1 \in T
  PROVE  T = Nat
  <1> SUFFICES ASSUME Nat \ T # {} PROVE FALSE
    OBVIOUS
  <1>1. PICK m \in Nat \ T : \A k \in Nat \ T : m <= k
    BY LeastNat
  <1>2. m - 1 \in Nat /\ m - 1 \in T
    BY <1>1
  <1> QED BY <1>1, <1>2

(* A set that contains a subset of S whenever it contains the smaller ones. *)
LEMMA SubsetInduction ==
  ASSUME NEW S, IsFiniteSet(S), NEW G,
         \A T \in SUBSET S : (\A U \in SUBSET T : U # T => U \in G) => T \in G
  PROVE  S \in G
  <1> DEFINE R == StrictSubsetOrdering(S)
             B == {T \in SUBSET S : T \notin G}
  <1> SUFFICES ASSUME S \notin G PROVE FALSE
    OBVIOUS
  <1>1. B \subseteq FiniteSubsetsOf(S) /\ B # {}
    BY FS_FiniteSubsetsOfFinite
  <1>2. PICK T \in B : \A U \in B : ~ (<<U, T>> \in R)
    <2>1. IsWellFoundedOn(R, FiniteSubsetsOf(S))
      BY FS_StrictSubsetOrderingWellFounded
    <2> HIDE DEF R, B
    <2> QED BY <1>1, <2>1, WFMin
  <1>3. ASSUME NEW U \in SUBSET T, U # T PROVE U \in G
    <2>1. <<U, T>> \in R
      BY <1>2, <1>3 DEF StrictSubsetOrdering
    <2> QED BY <1>2, <2>1
  <1> QED BY <1>2, <1>3

(* A fold over a set is the value of a function on its subsets that takes   *)
(* one element after the other. g sums the values of f over the subsets of  *)
(* S:                                                                       *)
Chosen(s) == CHOOSE x \in s : TRUE
Added(f, g, s) == IF s = {} THEN 0 ELSE f[Chosen(s)] + g[s \ {Chosen(s)}]
IsSum(g, f, S) == g = [s \in SUBSET S |-> Added(f, g, s)]

LEMMA ChosenIsIn == ASSUME NEW s, s # {} PROVE Chosen(s) \in s
  BY DEF Chosen

LEMMA SubsetSizes ==
  ASSUME NEW S, IsFiniteSet(S), NEW s \in SUBSET S
  PROVE  /\ Cardinality(s) \in Nat
         /\ Cardinality(s) <= Cardinality(S) /\ Cardinality(S) \in Nat
         /\ \A x \in s : Cardinality(s \ {x}) = Cardinality(s) - 1
  BY FS_Subset, FS_CardinalityType, FS_RemoveElement

(* There is such a function: in stages, for larger and larger subsets. *)
LEMMA SumExists ==
  ASSUME NEW S, IsFiniteSet(S), NEW f PROVE \E g : IsSum(g, f, S)
  <1> DEFINE D(n) == {s \in SUBSET S : Cardinality(s) <= n}
             E(n, g) == g = [s \in D(n) |-> Added(f, g, s)]
             T == {n \in Nat : \E g : E(n, g)}
  <1>2. 0 \in T
    <2>1. \A s \in D(0) : s = {}
      BY SubsetSizes, FS_Subset, FS_EmptySet
    <2>2. E(0, [s \in D(0) |-> 0])
      BY <2>1 DEF Added
    <2> QED BY <2>2
  <1>3. ASSUME NEW n \in T PROVE n + 1 \in T
    <2>1. PICK g : E(n, g)
      BY <1>3
    <2> DEFINE h == [s \in D(n + 1) |-> Added(f, g, s)]
    <2>2. \A s \in D(n) : s \in D(n + 1)
       BY <1>3, SubsetSizes
    <2>6. \A s \in D(n) : g[s] = Added(f, g, s)
       BY <2>1
    <2>7. \A s \in D(n + 1) : h[s] = Added(f, g, s)
       OBVIOUS
    <2>3. \A s \in D(n + 1) : s # {} => s \ {Chosen(s)} \in D(n)
       BY <1>3, SubsetSizes, ChosenIsIn
    <2>4. \A s \in D(n + 1) : Added(f, g, s) = Added(f, h, s)
      <3> HIDE DEF h, D
      <3> QED BY <2>2, <2>3, <2>6, <2>7 DEF Added
    <2>5. E(n + 1, h)
      <3>1. h = [s \in D(n + 1) |-> Added(f, g, s)]
        OBVIOUS
      <3> HIDE DEF h, D
      <3> QED BY <2>4, <3>1
    <2>8. \E k : E(n + 1, k)
      <3> HIDE DEF E, h
      <3> QED BY <2>5
    <2>9. n + 1 \in Nat
      BY <1>3
    <2> QED
      <3> HIDE DEF E
      <3> QED BY <2>8, <2>9
  <1>4. T = Nat
    <2> HIDE DEF T
    <2>1. T \subseteq Nat
      BY DEF T
    <2> QED BY <1>2, <1>3, <2>1, NatSetInduction
  <1>5. PICK g : E(Cardinality(S), g)
    BY <1>4, SubsetSizes
  <1>6. D(Cardinality(S)) = SUBSET S
    BY SubsetSizes
  <1> QED BY <1>5, <1>6 DEF IsSum

LEMMA SumUnfolds ==
  ASSUME NEW f, NEW S
  PROVE  SumFunctionOnSet(f, S) = (CHOOSE g : IsSum(g, f, S))[S]
  BY DEF SumFunctionOnSet, FoldFunctionOnSet, MapThenFoldSet, IsSum, Added,
         Chosen

(* Two such functions agree where what they sum agrees. *)
LEMMA SumsAgree ==
  ASSUME NEW S, IsFiniteSet(S), NEW T \in SUBSET S, NEW f, NEW e, NEW g, NEW h,
         IsSum(g, f, S), IsSum(h, e, T), \A x \in T : f[x] = e[x]
  PROVE  g[T] = h[T]
  <1> DEFINE G == {s \in SUBSET T : g[s] = h[s]}
  <1>1. \A s \in SUBSET T : g[s] = Added(f, g, s) /\ h[s] = Added(e, h, s)
    BY DEF IsSum
  <1>2. ASSUME NEW s \in SUBSET T, \A u \in SUBSET s : u # s => u \in G
        PROVE  s \in G
    <2>1. CASE s = {}
      BY <1>1, <2>1 DEF Added
    <2>2. CASE s # {}
      <3>1. Chosen(s) \in s
        BY <2>2, ChosenIsIn
      <3>2. s \ {Chosen(s)} \in G
        BY <1>2, <3>1
      <3> QED BY <1>1, <2>2, <3>1, <3>2 DEF Added
    <2> QED BY <2>1, <2>2
  <1>3. T \in G
    <2> HIDE DEF G
    <2>1. IsFiniteSet(T)
      BY FS_Subset
    <2> QED BY <1>2, <2>1, SubsetInduction
  <1> QED BY <1>3

(* What the fold of the community modules computes. *)
LEMMA SumIsRecursive ==
  ASSUME NEW S, IsFiniteSet(S), NEW f
  PROVE  \E g : /\ IsSum(g, f, S)
                /\ \A T \in SUBSET S : SumFunctionOnSet(f, T) = g[T]
  <1> DEFINE I(T) == CHOOSE g : IsSum(g, f, T)
  <1>1. ASSUME NEW T \in SUBSET S PROVE IsSum(I(T), f, T)
    <2>1. \E g : IsSum(g, f, T)
      BY FS_Subset, SumExists
    <2> QED BY <2>1, Zenon
  <1>2. ASSUME NEW T \in SUBSET S PROVE SumFunctionOnSet(f, T) = I(S)[T]
    <2>1. SumFunctionOnSet(f, T) = I(T)[T]
      BY SumUnfolds
    <2>2. IsSum(I(T), f, T) /\ IsSum(I(S), f, S)
      BY <1>1
    <2> HIDE DEF I
    <2> QED BY <2>1, <2>2, SumsAgree
  <1> WITNESS I(S)
  <1> QED BY <1>1, <1>2

(* The sum depends on the values over the set alone. *)
LEMMA SumSame ==
  ASSUME NEW S, IsFiniteSet(S), NEW f, NEW e, \A x \in S : f[x] = e[x]
  PROVE  SumFunctionOnSet(f, S) = SumFunctionOnSet(e, S)
  <1>1. PICK g : IsSum(g, f, S) /\ SumFunctionOnSet(f, S) = g[S]
    BY SumIsRecursive
  <1>2. PICK h : IsSum(h, e, S) /\ SumFunctionOnSet(e, S) = h[S]
    BY SumIsRecursive
  <1> QED BY <1>1, <1>2, SumsAgree

LEMMA SumEmpty == ASSUME NEW f PROVE SumFunctionOnSet(f, {}) = 0
  <1>1. PICK g : IsSum(g, f, {}) /\ SumFunctionOnSet(f, {}) = g[{}]
    BY SumIsRecursive, FS_EmptySet
  <1> QED BY <1>1 DEF IsSum, Added

(* It does not matter which element comes first. *)
LEMMA SumElement ==
  ASSUME NEW S, IsFiniteSet(S), NEW f, \A x \in S : f[x] \in Int
  PROVE  /\ SumFunctionOnSet(f, S) \in Int
         /\ \A x \in S : SumFunctionOnSet(f, S) =
                           f[x] + SumFunctionOnSet(f, S \ {x})
  <1> DEFINE F(T) == SumFunctionOnSet(f, T)
             G == {T \in SUBSET S : /\ F(T) \in Int
                                    /\ \A x \in T : F(T) = f[x] + F(T \ {x})}
  <1>1. ASSUME NEW T \in SUBSET S, T # {}
        PROVE  Chosen(T) \in T /\ F(T) = f[Chosen(T)] + F(T \ {Chosen(T)})
    <2>1. PICK g : IsSum(g, f, S) /\ \A U \in SUBSET S : F(U) = g[U]
      BY SumIsRecursive
    <2>2. Chosen(T) \in T /\ T \ {Chosen(T)} \in SUBSET S
      BY <1>1, ChosenIsIn
    <2> HIDE DEF F
    <2> QED BY <1>1, <2>1, <2>2 DEF IsSum, Added
  <1>2. F({}) = 0
    BY SumEmpty
  <1>3. ASSUME NEW T \in SUBSET S, \A U \in SUBSET T : U # T => U \in G
        PROVE  T \in G
    <2> HIDE DEF F
    <2>1. CASE T = {}
      BY <1>2, <2>1
    <2>2. CASE T # {}
      <3> DEFINE c == Chosen(T)
      <3>1. c \in T /\ F(T) = f[c] + F(T \ {c})
        BY <1>1, <2>2
      <3> HIDE DEF c
      <3>2. F(T \ {c}) \in Int /\ f[c] \in Int
        BY <1>3, <3>1
      <3>3. ASSUME NEW x \in T, x # c PROVE F(T) = f[x] + F(T \ {x})
        <4>1. F(T \ {c}) = f[x] + F((T \ {c}) \ {x})
          BY <1>3, <3>1, <3>3
        <4>2. F(T \ {x}) = f[c] + F((T \ {x}) \ {c})
          BY <1>3, <3>1, <3>3
        <4>3. (T \ {c}) \ {x} = (T \ {x}) \ {c}
          OBVIOUS
        <4>4. F((T \ {x}) \ {c}) \in Int /\ f[x] \in Int
          BY <1>3, <3>1, <3>3
        <4>5. F(T) = f[c] + (f[x] + F((T \ {x}) \ {c}))
          BY <3>1, <4>1, <4>3
        <4> QED BY <3>2, <4>2, <4>4, <4>5
      <3>4. F(T) \in Int
        BY <3>1, <3>2
      <3> QED BY <3>1, <3>3, <3>4
    <2> QED BY <2>1, <2>2
  <1>4. S \in G
    <2> HIDE DEF G
    <2> QED BY <1>3, SubsetInduction
  <1> QED BY <1>4

(* A sum of naturals is at least each of them. *)
LEMMA SumNat ==
  ASSUME NEW S, IsFiniteSet(S), NEW f, \A x \in S : f[x] \in Nat
  PROVE  /\ SumFunctionOnSet(f, S) \in Nat
         /\ \A x \in S : f[x] <= SumFunctionOnSet(f, S)
  <1> DEFINE G == {T \in SUBSET S : SumFunctionOnSet(f, T) \in Nat}
  <1>1. ASSUME NEW T \in SUBSET S, NEW x \in T
        PROVE  SumFunctionOnSet(f, T) = f[x] + SumFunctionOnSet(f, T \ {x})
    <2>1. IsFiniteSet(T) /\ \A y \in T : f[y] \in Int
      BY FS_Subset
    <2> QED BY <2>1, SumElement
  <1>2. ASSUME NEW T \in SUBSET S, \A U \in SUBSET T : U # T => U \in G
        PROVE  T \in G
    <2>1. CASE T = {}
      BY <2>1, SumEmpty
    <2>2. CASE T # {}
      <3>1. PICK x \in T : TRUE
        BY <2>2
      <3>2. T \ {x} \in G
        BY <1>2, <3>1
      <3>3. f[x] \in Nat /\ SumFunctionOnSet(f, T \ {x}) \in Nat
        BY <1>2, <3>1, <3>2
      <3>4. SumFunctionOnSet(f, T) = f[x] + SumFunctionOnSet(f, T \ {x})
        BY <1>1, <3>1
      <3>5. SumFunctionOnSet(f, T) \in Nat
        BY <3>3, <3>4
      <3> QED BY <3>5
    <2> QED BY <2>1, <2>2
  <1>3. SumFunctionOnSet(f, S) \in Nat /\ \A x \in S : S \ {x} \in G
    <2>1. \A T \in SUBSET S : T \in G
      <3> TAKE T \in SUBSET S
      <3> HIDE DEF G
      <3> QED BY <1>2, SubsetInduction, FS_Subset
    <2> QED BY <2>1
  <1>4. ASSUME NEW x \in S PROVE f[x] <= SumFunctionOnSet(f, S)
    <2>1. SumFunctionOnSet(f, S) = f[x] + SumFunctionOnSet(f, S \ {x})
      BY <1>1
    <2>2. f[x] \in Nat /\ SumFunctionOnSet(f, S \ {x}) \in Nat
      BY <1>3
    <2> QED BY <2>1, <2>2
  <1> QED BY <1>3, <1>4

LEMMA SumZero ==
  ASSUME NEW S, IsFiniteSet(S), NEW f, \A x \in S : f[x] = 0
  PROVE  SumFunctionOnSet(f, S) = 0
  <1> DEFINE G == {T \in SUBSET S : SumFunctionOnSet(f, T) = 0}
  <1>1. ASSUME NEW T \in SUBSET S, \A U \in SUBSET T : U # T => U \in G
        PROVE  T \in G
    <2>1. CASE T = {}
      BY <2>1, SumEmpty
    <2>2. CASE T # {}
      <3>1. PICK x \in T : TRUE
        BY <2>2
      <3>2. T \ {x} \in G
        BY <1>1, <3>1
      <3>3. SumFunctionOnSet(f, T) = f[x] + SumFunctionOnSet(f, T \ {x})
        <4>1. IsFiniteSet(T) /\ \A y \in T : f[y] \in Int
          BY FS_Subset
        <4> QED BY <3>1, <4>1, SumElement
      <3>4. f[x] = 0 /\ SumFunctionOnSet(f, T \ {x}) = 0
        BY <3>1, <3>2
      <3>5. SumFunctionOnSet(f, T) = 0
        BY <3>3, <3>4
      <3> QED BY <3>5
    <2> QED BY <2>1, <2>2
  <1>2. S \in G
    <2> HIDE DEF G
    <2> QED BY <1>1, SubsetInduction
  <1> QED BY <1>2

(* The sums of the parts of a set, by a key k, add up to the sum of the     *)
(* set.                                                                     *)
LEMMA SumOfParts ==
  ASSUME NEW S, IsFiniteSet(S), NEW C, IsFiniteSet(C), NEW k \in [S -> C],
         NEW f, \A x \in S : f[x] \in Int
  PROVE  SumFunctionOnSet(
           [c \in C |-> SumFunctionOnSet(f, {x \in S : k[x] = c})], C)
           = SumFunctionOnSet(f, S)
  <1> DEFINE F(T) == SumFunctionOnSet(f, T)
             Over(g, D) == SumFunctionOnSet(g, D)
             P(T) == [c \in C |-> F({x \in T : k[x] = c})]
             G == {T \in SUBSET S : Over(P(T), C) = F(T)}
  <1>1. ASSUME NEW T \in SUBSET S
        PROVE  F(T) \in Int /\ \A x \in T : F(T) = f[x] + F(T \ {x})
    <2>1. IsFiniteSet(T) /\ \A y \in T : f[y] \in Int
      BY FS_Subset
    <2> QED BY <2>1, SumElement
  <1>2. ASSUME NEW T \in SUBSET S, \A U \in SUBSET T : U # T => U \in G
        PROVE  T \in G
    <2>1. CASE T = {}
      <3>1. \A c \in C : {x \in T : k[x] = c} = {}
        BY <2>1
      <3>2. \A c \in C : P(T)[c] = 0
        BY <3>1, SumEmpty
      <3> HIDE DEF P
      <3> QED BY <2>1, <3>2, SumEmpty, SumZero
    <2>2. CASE T # {}
      <3>1. PICK x \in T : TRUE
        BY <2>2
      <3> DEFINE U == T \ {x}
                 a == k[x]
      <3>2. Over(P(U), C) = F(U)
        BY <1>2, <3>1
      <3>3. \A V \in SUBSET S, c \in C :
              P(V)[c] = F({y \in V : k[y] = c}) /\ P(V)[c] \in Int
        BY <1>1
      <3>4. a \in C
        BY <3>1
      <3>5. P(T)[a] = f[x] + P(U)[a]
        <4>1. x \in {y \in T : k[y] = a}
          BY <3>1
        <4>2. {y \in T : k[y] = a} \ {x} = {y \in U : k[y] = a}
          OBVIOUS
        <4>3. P(T)[a] = f[x] + F({y \in T : k[y] = a} \ {x})
          <5>1. P(T)[a] = F({y \in T : k[y] = a})
            BY <3>3, <3>4
          <5> HIDE DEF F, P, a
          <5> QED BY <1>1, <4>1, <5>1
        <4>4. P(U)[a] = F({y \in U : k[y] = a})
          BY <3>3, <3>4
        <4> HIDE DEF F, P, a, U
        <4> QED BY <4>2, <4>3, <4>4
      <3>6. \A c \in C \ {a} : P(T)[c] = P(U)[c]
        <4>1. \A c \in C \ {a} : {y \in T : k[y] = c} = {y \in U : k[y] = c}
          OBVIOUS
        <4> QED BY <4>1
      <3>7. \A V \in SUBSET S :
              Over(P(V), C) = P(V)[a] + Over(P(V), C \ {a})
        BY <3>3, <3>4, SumElement
      <3>8. Over(P(T), C \ {a}) = Over(P(U), C \ {a})
        <4> HIDE DEF P, U, a
        <4> QED BY <3>6, SumSame, FS_Subset
      <3>9. Over(P(U), C \ {a}) \in Int
        <4>1. IsFiniteSet(C \ {a})
          BY FS_Subset
        <4>2. \A c \in C \ {a} : P(U)[c] \in Int
          BY <3>3
        <4> HIDE DEF P, U, a
        <4> QED BY <4>1, <4>2, SumElement
      <3>10. F(T) = f[x] + F(U)
        BY <1>1, <3>1
      <3>11. Over(P(T), C) = P(T)[a] + Over(P(U), C \ {a})
        BY <3>7, <3>8
      <3>12. Over(P(U), C) = P(U)[a] + Over(P(U), C \ {a})
        BY <3>7
      <3>13. f[x] \in Int /\ P(U)[a] \in Int
        BY <3>1, <3>3, <3>4
      <3>14. Over(P(T), C) = F(T)
        <4> HIDE DEF P, U, a, F
        <4> QED BY <3>2, <3>5, <3>9, <3>10, <3>11, <3>12, <3>13
      <3> QED BY <3>14
    <2> QED BY <2>1, <2>2
  <1>3. S \in G
    <2> HIDE DEF G
    <2> QED BY <1>2, SubsetInduction
  <1> QED BY <1>3

-----------------------------------------------------------------------------
(* The theorems.                                                           *)

LEMMA InitReadInv == ReadInit => ReadInv
  <1> SUFFICES ASSUME ReadInit PROVE ReadInv
    OBVIOUS
  <1>1. IInv /\ Seen
    BY InitIInv DEF ReadInit, Seen
  <1>2. \A t \in Threads : Reading(t)
    BY EmptyRequest DEF ReadInit, Init, NoCalls, Reading, ReadingOps
  <1> QED BY <1>1, <1>2, Parts

LEMMA OtherIsNext ==
  ASSUME NEW t \in Threads, Other(t) PROVE Next /\ ShowNothing
  BY DEF Other, Next, Step

LEMMA NextReadInv == ReadInv /\ [ReadNext]_readVars => ReadInv'
  <1> SUFFICES ASSUME ReadInv, [ReadNext]_readVars PROVE ReadInv'
    OBVIOUS
  <1>1. ASSUME NEW t \in Threads, Other(t) PROVE ReadInv'
    BY <1>1, OtherIsNext, WriterStep
  <1>2. CASE Environment /\ ShowNothing
    BY <1>2, WriterStep DEF Next
  <1>3. CASE UNCHANGED readVars
    BY <1>3, WriterStep DEF readVars
  <1> QED BY <1>1, <1>2, <1>3, ReadCallStep, ReadStep DEF ReadNext

(* With readers among the writers, for any number of both, the invariant   *)
(* of the writing handlers holds, and between the transactions of          *)
(* GetTransactionDetails the transaction is still its user's, or gone.     *)
THEOREM ReadersInvariant == ReadSpec => []ReadInv
  BY InitReadInv, NextReadInv, PTL DEF ReadSpec

(* Only the last transaction of a reading handler answers OK. *)
LEMMA ReadersShow ==
  ASSUME ReadNext, NEW t \in Threads, NEW op \in ReadingOps, Shows(t, op)
  PROVE  GetTransactions(t) \/ GetStatistics(t) \/ DetailsSplits(t)
  <1>1. ~ Next
    <2> SUFFICES ASSUME Next PROVE FALSE
      OBVIOUS
    <2>1. Handler(t)
      BY OnlyHandlersSucceed DEF Shows
    <2> QED BY <2>1
      DEF Shows, Handler, At, CreateTransaction, UpdateTransaction,
          DeleteTransaction, CreateSplit, UpdateSplit, DeleteSplit,
          ManageCharacter, DeleteCharacter, ManageCategory, DeleteCategory,
          ReadingOps
  <1>2. PICK s \in Threads : ReadCall(s) \/ Read(s)
    BY <1>1, OtherIsNext DEF ReadNext, Next
  <1>3. ~ ReadCall(s) /\ ~ ReadAuthenticate(s) /\ ~ DetailsReceipt(s)
    BY DEF ReadCall, ReadAuthenticate, DetailsReceipt, Go, NoReply, Shows,
       Answers
  <1>4. ~ DetailsAccess(s) /\ ~ DetailsRow(s) /\ ~ DetailsRefused(s)
    BY DEF DetailsAccess, DetailsRow, DetailsRefused, Lookup, Go, Reply,
       NoReply, Shows, Answers
  <1>5. GetTransactions(s) \/ GetStatistics(s) \/ DetailsSplits(s)
    BY <1>2, <1>3, <1>4 DEF Read
  <1>6. s = t
    BY <1>5
    DEF GetTransactions, GetStatistics, DetailsSplits, Show, Reply, Shows,
        Answers
  <1> QED BY <1>5, <1>6

LEMMA WhoShows ==
  ASSUME ReadNext, NEW t \in Threads
  PROVE  /\ Shows(t, "GetTransactionDetails") => DetailsSplits(t)
         /\ Shows(t, "GetTransactions") => GetTransactions(t)
         /\ Shows(t, "GetStatistics") => GetStatistics(t)
  <1>1. \A op \in ReadingOps :
          Shows(t, op) =>
            /\ GetTransactions(t) \/ GetStatistics(t) \/ DetailsSplits(t)
            /\ req[t].op = op
    BY ReadersShow DEF Shows
  <1>2. /\ GetTransactions(t) => req[t].op = "GetTransactions"
        /\ GetStatistics(t) => req[t].op = "GetStatistics"
        /\ DetailsSplits(t) => req[t].op = "GetTransactionDetails"
    BY DEF GetTransactions, GetStatistics, DetailsSplits, At
  <1> QED BY <1>1, <1>2 DEF ReadingOps

(* For any number of users, threads and rows, whatever is created and      *)
(* deleted between the four transactions of GetTransactionDetails: the row *)
(* and the characters that a client is shown are its own.                  *)
THEOREM DetailsTheorem == ReadSpec => DetailsAreOwn
  <1> DEFINE Own(t) ==
        /\ answer'.row.user = req[t].user
        /\ \A s \in DOMAIN answer'.splits :
             OwnsChr(db, req[t].user, answer'.splits[s].chr)
  <1>1. ASSUME ReadInv, ReadNext, NEW t \in Threads,
               Shows(t, "GetTransactionDetails")
        PROVE  Own(t)
    <2> DEFINE u == req[t].user
               splits == SplitsOfTxn(db, req[t].txn)
               shown == [s \in splits |->
                           [chr |-> db.split[s].chr,
                            name |-> db.chr[db.split[s].chr].name]]
    <2>1. DetailsSplits(t)
      BY <1>1, WhoShows
    <2>2. pc[t] = "splits" /\ answer' = [row |-> seen[t], splits |-> shown]
      BY <2>1 DEF DetailsSplits, At, Show
    <2>3. CheckedTxn(req[t]) /\ seen[t].user = u /\ OneWallet(db)
      BY <1>1, <2>2, Parts, Before DEF Reading
    <2>4. ASSUME NEW s \in splits PROVE OwnsChr(db, u, db.split[s].chr)
      <3>1. s \in DOMAIN db.split /\ db.split[s].txn = req[t].txn
        BY <2>4 DEF SplitsOfTxn
      <3>2. PICK v \in Users : /\ OwnsTxn(db, v, req[t].txn)
                               /\ OwnsChr(db, v, db.split[s].chr)
        BY <2>3, <3>1 DEF OneWallet
      <3>3. v = u
        BY <2>3, <3>2 DEF CheckedTxn, OwnsTxn
      <3> QED BY <3>2, <3>3
    <2>5. /\ DOMAIN shown = splits
          /\ \A s \in splits : shown[s].chr = db.split[s].chr
      OBVIOUS
    <2> HIDE DEF shown, splits
    <2>6. answer'.row = seen[t] /\ answer'.splits = shown
      BY <2>2
    <2> QED BY <2>3, <2>4, <2>5, <2>6
  <1>2. ReadInv /\ [ReadNext]_readVars =>
          [\A t \in Threads :
             Shows(t, "GetTransactionDetails") => Own(t)]_readVars
    BY <1>1
  <1> QED BY <1>2, ReadersInvariant, PTL DEF ReadSpec, DetailsAreOwn

-----------------------------------------------------------------------------
(* The sums that the readers show.                                         *)

LEMMA RowsAmount ==
  ASSUME IInv
  PROVE  /\ IsFiniteSet(DOMAIN db.txn) /\ IsFiniteSet(DOMAIN db.split)
         /\ \A i \in DOMAIN db.txn : Amounts(db.txn)[i] \in Nat
         /\ \A s \in DOMAIN db.split : Amounts(db.split)[s] \in Nat
  <1>1. /\ \A i \in DOMAIN db.txn : i \in TxnIds /\ db.txn[i] \in TxnRow
        /\ \A s \in DOMAIN db.split : s \in SplitIds /\ db.split[s] \in SplitRow
    BY Before, Rows
  <1>2. IsFiniteSet(TxnIds) /\ IsFiniteSet(SplitIds)
    BY TablesAssumption, FS_Interval DEF TxnIds, SplitIds
  <1>3. /\ \A i \in DOMAIN db.txn : db.txn[i].info.amount \in Nat
        /\ \A s \in DOMAIN db.split : db.split[s].info.amount \in Nat
    BY <1>1, ReadsAssumption DEF TxnRow, SplitRow
  <1> QED BY <1>1, <1>2, <1>3, FS_Subset DEF Amounts

LEMMA SumsOfTxns ==
  ASSUME IInv, NEW S \in SUBSET DOMAIN db.txn
  PROVE  IsFiniteSet(S) /\ Sum(db, S) \in Nat
  <1>1. IsFiniteSet(S) /\ \A i \in S : Amounts(db.txn)[i] \in Nat
    BY RowsAmount, FS_Subset
  <1> QED BY <1>1, SumNat DEF Sum

(* For any number of rows and any filter: the count is that of the page    *)
(* and the sums are those of the page, unless the page is full or a sum    *)
(* does not fit.                                                           *)
THEOREM PagesTheorem == ReadSpec => PagesAddUp
  <1> DEFINE page == answer'.page
             sum(type) == SumFunctionOnSet(Amounts(page),
                            {i \in DOMAIN page : page[i].info.type = type})
             AddsUp ==
               /\ Cardinality(DOMAIN page) <= answer'.count
               /\ Cardinality(DOMAIN page) < PageSize =>
                    /\ answer'.count = Cardinality(DOMAIN page)
                    /\ sum(0) <= MaxInt => answer'.totals.income = sum(0)
                    /\ sum(1) <= MaxInt => answer'.totals.expense = sum(1)
  <1>1. ASSUME ReadInv, NEW t \in Threads, GetTransactions(t) PROVE AddsUp
    <2> DEFINE all == Filtered(db, req[t])
               n == Cardinality(all)
               k == IF n < PageSize THEN n ELSE PageSize
    <2>1. PICK P \in kSubset(k, all) :
            answer' = [page |-> [i \in P |-> db.txn[i]], count |-> n,
                       totals |-> Totals(db, all)]
      BY <1>1 DEF GetTransactions, Show
    <2>2. all \in SUBSET DOMAIN db.txn /\ IInv
      BY <1>1, Parts DEF Filtered
    <2> HIDE DEF all
    <2>3. n \in Nat /\ PageSize \in Nat /\ IsFiniteSet(all)
      BY <2>2, SumsOfTxns, FS_CardinalityType, ReadsAssumption
    <2>4. P \in SUBSET all /\ Cardinality(P) = k
      BY <2>1 DEF kSubset
    <2>5. /\ DOMAIN page = P /\ \A i \in P : page[i] = db.txn[i]
          /\ answer'.count = n /\ answer'.totals = Totals(db, all)
      BY <2>1
    <2> HIDE DEF page
    <2>6. Cardinality(P) < PageSize => P = all
      <3> SUFFICES ASSUME Cardinality(P) < PageSize PROVE P = all
        OBVIOUS
      <3>1. Cardinality(P) = n
        BY <2>3, <2>4
      <3> QED BY <2>3, <2>4, <3>1, FS_Subset
    <2>7. ASSUME P = all, NEW type
          PROVE  sum(type) = Sum(db, OfType(db, all, type))
      <3>1. {i \in DOMAIN page : page[i].info.type = type} =
              OfType(db, all, type)
        BY <2>5, <2>7 DEF OfType
      <3>2. /\ OfType(db, all, type) \in SUBSET DOMAIN db.txn
            /\ OfType(db, all, type) \subseteq DOMAIN page
        BY <2>2, <2>5, <2>7 DEF OfType
      <3>3. \A i \in OfType(db, all, type) :
              Amounts(page)[i] = Amounts(db.txn)[i]
        BY <2>5, <3>2 DEF Amounts
      <3>4. IsFiniteSet(OfType(db, all, type))
        BY <2>2, <3>2, SumsOfTxns
      <3>5. SumFunctionOnSet(Amounts(page), OfType(db, all, type)) =
              SumFunctionOnSet(Amounts(db.txn), OfType(db, all, type))
        BY <3>3, <3>4, SumSame
      <3> QED BY <3>1, <3>5 DEF Sum
    <2>8. Cardinality(P) <= n
      BY <2>3, <2>4
    <2>9. ASSUME Cardinality(P) < PageSize
          PROVE  /\ n = Cardinality(P)
                 /\ sum(0) <= MaxInt => answer'.totals.income = sum(0)
                 /\ sum(1) <= MaxInt => answer'.totals.expense = sum(1)
      <3>1. P = all
        BY <2>6, <2>9
      <3> HIDE DEF sum
      <3>2. sum(0) = Sum(db, OfType(db, all, 0))
            /\ sum(1) = Sum(db, OfType(db, all, 1))
        BY <2>7, <3>1
      <3> QED BY <2>5, <3>1, <3>2 DEF Totals, Int32
    <2> HIDE DEF sum
    <2> QED BY <2>5, <2>8, <2>9
  <1>2. ReadInv /\ [ReadNext]_readVars =>
          [\A t \in Threads : Shows(t, "GetTransactions") => AddsUp]_readVars
    <2> HIDE DEF AddsUp
    <2> QED BY <1>1, WhoShows
  <1> QED BY <1>2, ReadersInvariant, PTL DEF ReadSpec, PagesAddUp

LEMMA Fits ==
  /\ \A n \in Nat : n <= MaxInt => Int32(n) = n /\ Wrapped(n) = n
  /\ \A n \in Nat : n > MaxInt => Int32(n) = 0
  <1>1. \A n, m \in Nat : n < m => n % m = n
    OBVIOUS
  <1>2. ASSUME NEW n \in Nat, n <= MaxInt PROVE Wrapped(n) = n
    <2>1. MaxInt \in Nat
      BY ReadsAssumption
    <2>2. n + MaxInt + 1 \in Nat /\ 2 * (MaxInt + 1) \in Nat
          /\ n + MaxInt + 1 < 2 * (MaxInt + 1)
      BY <1>2, <2>1
    <2>3. (n + MaxInt + 1) % (2 * (MaxInt + 1)) = n + MaxInt + 1
      BY <1>1, <2>2
    <2> QED BY <2>1, <2>3 DEF Wrapped
  <1> QED BY <1>2, ReadsAssumption DEF Int32

LEMMA ChartAdds ==
  ASSUME NEW rows, NEW S, IsFiniteSet(S), NEW C, NEW group \in [S -> C],
         \A i \in S : Amounts(rows)[i] \in Nat
  PROVE  Adds(Chart(rows, group), Int32(SumFunctionOnSet(Amounts(rows), S)))
  <1> DEFINE G == Range(group)
             sum(T) == SumFunctionOnSet(Amounts(rows), T)
             part == [g \in G |-> sum({i \in S : group[i] = g})]
             parts == [g \in G |-> Int32(part[g])]
             full == sum(S)
  <1>1. /\ full \in Nat /\ MaxInt \in Nat /\ \A g \in G : part[g] \in Nat
    <2>1. ASSUME NEW T \in SUBSET S PROVE sum(T) \in Nat
      <3>1. IsFiniteSet(T) /\ \A i \in T : Amounts(rows)[i] \in Nat
        BY FS_Subset
      <3> QED BY <3>1, SumNat
    <2> QED BY <2>1, ReadsAssumption
  <1>2. IsFiniteSet(G) /\ group \in [S -> G]
    <2>1. group \in Surjection(S, G)
      BY DEF Surjection, Range
    <2> QED BY <2>1, FS_Surjection DEF Surjection
  <1>3. SumFunctionOnSet(part, G) = full
    <2>1. \A i \in S : Amounts(rows)[i] \in Int
      OBVIOUS
    <2> HIDE DEF G
    <2> QED BY <1>2, <2>1, SumOfParts
  <1>4. /\ DOMAIN parts = G /\ \A g \in G : parts[g] = Int32(part[g])
        /\ Chart(rows, group) =
             [parts |-> parts, base |-> Wrapped(SumFunction(parts))]
        /\ SumFunction(parts) = SumFunctionOnSet(parts, G)
    BY DEF Chart, SumFunction
  <1> HIDE DEF part, parts, full, G
  <1>5. ASSUME \A g \in G : part[g] <= MaxInt
        PROVE  SumFunction(parts) = full
    <2>1. \A g \in G : parts[g] = part[g]
      BY <1>1, <1>4, <1>5, Fits
    <2> QED BY <1>2, <1>3, <1>4, <2>1, SumSame
  <1>6. CASE full <= MaxInt
    <2>1. \A g \in G : part[g] <= full
      BY <1>1, <1>2, <1>3, SumNat
    <2>2. SumFunction(parts) = full
      BY <1>1, <1>5, <1>6, <2>1
    <2>3. Int32(full) = full /\ Wrapped(full) = full
      BY <1>1, <1>6, Fits
    <2> QED BY <1>4, <2>2, <2>3 DEF Adds, full
  <1>7. CASE full > MaxInt
    <2>1. Int32(full) = 0
      BY <1>1, <1>7, Fits
    <2>2. CASE \A g \in G : part[g] <= MaxInt
      BY <1>4, <1>5, <1>7, <2>1, <2>2 DEF Adds, full
    <2>3. CASE \E g \in G : part[g] > MaxInt
      <3>1. \E g \in G : parts[g] = 0
        BY <1>1, <1>4, <2>3, Fits
      <3> QED BY <1>4, <2>1, <3>1 DEF Adds, full
    <2> QED BY <1>1, <2>2, <2>3
  <1> QED BY <1>1, <1>6, <1>7

LEMMA CategoriesAdd ==
  ASSUME IInv, NEW S \in SUBSET DOMAIN db.txn
  PROVE  Adds(ByCategory(db, S), Int32(Sum(db, S)))
  <1>1. IsFiniteSet(S) /\ \A i \in S : Amounts(db.txn)[i] \in Nat
    BY RowsAmount, FS_Subset
  <1> DEFINE C == {db.txn[i].cat : i \in S}
             group == [i \in S |-> db.txn[i].cat]
  <1>2. group \in [S -> C]
    OBVIOUS
  <1> HIDE DEF C, group
  <1>3. Adds(Chart(db.txn, group), Int32(SumFunctionOnSet(Amounts(db.txn), S)))
    BY <1>1, <1>2, ChartAdds
  <1> QED BY <1>3 DEF ByCategory, Sum, group

(* For any number of rows and categories: the parts of both charts add up  *)
(* to the totals, or the total did not fit into its field.                 *)
THEOREM ChartsTheorem == ReadSpec => ChartsAddUp
  <1> DEFINE AddUp == /\ Adds(answer'.expenses, answer'.totals.expense)
                      /\ Adds(answer'.incomes, answer'.totals.income)
  <1>1. ASSUME ReadInv, NEW t \in Threads, GetStatistics(t) PROVE AddUp
    <2> DEFINE mine == {i \in DOMAIN db.txn : db.txn[i].user = req[t].user}
    <2>1. answer' = Statistics(db, req[t].user)
      BY <1>1 DEF GetStatistics, Show
    <2>2. /\ answer'.expenses = ByCategory(db, OfType(db, mine, 1))
          /\ answer'.incomes = ByCategory(db, OfType(db, mine, 0))
          /\ answer'.totals.expense = Int32(Sum(db, OfType(db, mine, 1)))
          /\ answer'.totals.income = Int32(Sum(db, OfType(db, mine, 0)))
      BY <2>1 DEF Statistics, Totals
    <2>3. /\ OfType(db, mine, 0) \in SUBSET DOMAIN db.txn
          /\ OfType(db, mine, 1) \in SUBSET DOMAIN db.txn
      BY DEF OfType
    <2> HIDE DEF mine
    <2> QED BY <1>1, <2>2, <2>3, Parts, CategoriesAdd
  <1>2. ReadInv /\ [ReadNext]_readVars =>
          [\A t \in Threads : Shows(t, "GetStatistics") => AddUp]_readVars
    <2> HIDE DEF AddUp
    <2> QED BY <1>1, WhoShows
  <1> QED BY <1>2, ReadersInvariant, PTL DEF ReadSpec, ChartsAddUp

(* The same for the characters.  That the splits of the user's characters  *)
(* are those of the user's transactions is the ledger's invariant.         *)
THEOREM CharactersTheorem == ReadSpec => CharactersAddUp
  <1> DEFINE Mine(t) == {s \in DOMAIN db.split :
                           /\ OwnsSplit(db, req[t].user, s)
                           /\ db.txn[db.split[s].txn].info.type = 1}
             AddUp(t) ==
               Adds(answer'.characters,
                    Int32(SumFunctionOnSet(Amounts(db.split), Mine(t))))
  <1>1. ASSUME ReadInv, NEW t \in Threads, GetStatistics(t) PROVE AddUp(t)
    <2> DEFINE u == req[t].user
               S == Divided(db, u)
               C == {db.split[s].chr : s \in S}
               group == [s \in S |-> db.split[s].chr]
    <2>1. answer'.characters = Chart(db.split, group)
      BY <1>1 DEF GetStatistics, Show, Statistics
    <2>2. IInv /\ OneWallet(db)
      BY <1>1, Parts, Before
    <2>3. ASSUME NEW s \in DOMAIN db.split
          PROVE  OwnsChr(db, u, db.split[s].chr) <=> OwnsSplit(db, u, s)
      <3>1. PICK v \in Users : /\ OwnsTxn(db, v, db.split[s].txn)
                               /\ OwnsChr(db, v, db.split[s].chr)
        BY <2>2 DEF OneWallet
      <3>2. OwnsChr(db, u, db.split[s].chr) => OwnsSplit(db, u, s)
        BY <3>1 DEF OwnsChr, OwnsTxn, OwnsSplit
      <3>3. OwnsSplit(db, u, s) => OwnsChr(db, u, db.split[s].chr)
        BY <3>1 DEF OwnsChr, OwnsTxn, OwnsSplit
      <3> QED BY <3>2, <3>3
    <2>4. S = Mine(t)
      BY <2>3 DEF Divided
    <2>5. /\ S \in SUBSET DOMAIN db.split /\ IsFiniteSet(S)
          /\ \A s \in S : Amounts(db.split)[s] \in Nat
      <3>1. S \in SUBSET DOMAIN db.split
        BY DEF Divided
      <3> HIDE DEF S
      <3> QED BY <2>2, <3>1, RowsAmount, FS_Subset
    <2>6. group \in [S -> C]
      OBVIOUS
    <2> HIDE DEF S, C, group, Mine
    <2> QED BY <2>1, <2>4, <2>5, <2>6, ChartAdds
  <1>2. ReadInv /\ [ReadNext]_readVars =>
          [\A t \in Threads : Shows(t, "GetStatistics") => AddUp(t)]_readVars
    <2> HIDE DEF AddUp
    <2> QED BY <1>1, WhoShows
  <1> QED BY <1>2, ReadersInvariant, PTL DEF ReadSpec, CharactersAddUp

(* Readers among the writers change nothing of what the ledger promises. *)
THEOREM ReadersKeepTheStore == ReadSpec => ImplementsStore
  <1>1. ReadInit => Store!StoreInv
    BY InitIInv, Before, SameConsistency DEF ReadInit, Store!StoreInv
  <1>2. ReadInv /\ [ReadNext]_readVars => [Store!StoreNext]_db
    <2> SUFFICES ASSUME ReadInv, [ReadNext]_readVars
                 PROVE  [Store!StoreNext]_db
      OBVIOUS
    <2>1. CASE [Next]_vars
      BY <2>1, Parts, NextEffect DEF Effect
    <2>2. ASSUME NEW t \in Threads, ReadCall(t) \/ Read(t) PROVE UNCHANGED db
      BY <2>2
      DEF ReadCall, Read, ReadAuthenticate, GetTransactions, DetailsAccess,
          DetailsRow, DetailsReceipt, DetailsSplits, DetailsRefused,
          GetStatistics, Lookup, EndRead
    <2> QED BY <2>1, <2>2, OtherIsNext DEF ReadNext, Next, readVars
  <1> QED
    BY <1>1, <1>2, ReadersInvariant, PTL
    DEF ReadSpec, ImplementsStore, Store!StoreSpec

(* The reading handlers, too, close every transaction they are given: with *)
(* them among the writers the steps are those of the session.              *)
THEOREM ReadersUseSession == ReadSpec => SessionSpec
  <1>1. ReadInit => SessionInit
    BY DEF ReadInit, Init, SessionInit
  <1>2. [ReadNext]_readVars => [SessionNext]_sessionVars
    <2>1. ASSUME NEW t \in Threads,
                 \/ ReadAuthenticate(t) \/ GetTransactions(t)
                 \/ DetailsAccess(t) \/ DetailsRow(t) \/ DetailsReceipt(t)
                 \/ DetailsSplits(t) \/ GetStatistics(t)
          PROVE  Release(t) /\ UNCHANGED db
      BY <2>1
      DEF ReadAuthenticate, GetTransactions, DetailsAccess, DetailsRow,
          DetailsReceipt, DetailsSplits, GetStatistics, Lookup, EndRead
    <2>2. ASSUME NEW t \in Threads, ReadCall(t) \/ DetailsRefused(t)
          PROVE  UNCHANGED sessionVars
      BY <2>2 DEF ReadCall, DetailsRefused, sessionVars
    <2>3. CASE [Next]_vars
      BY <2>3, StepsUseSession
    <2>4. ASSUME NEW t \in Threads, Release(t)
          PROVE  SessionNext
      BY <2>4 DEF SessionNext
    <2> QED
      BY <2>1, <2>2, <2>3, <2>4, OtherIsNext DEF ReadNext, Read, Next, readVars
  <1> QED BY <1>1, <1>2, PTL DEF ReadSpec, SessionSpec

-----------------------------------------------------------------------------
(* Calls come to an end.                                                   *)

LEMMA ReadingLeft ==
  /\ ReadStages \subseteq Stages
  /\ StagesLeft["list"] = 1 /\ StagesLeft["statistics"] = 1
  /\ StagesLeft["splits"] = 1 /\ StagesLeft["receipt"] = 2
  /\ StagesLeft["row"] = 3 /\ StagesLeft["access"] = 4
  BY DEF Stages, ReadStages, StagesLeft

LEMMA ReadIsNearer ==
  ASSUME pc \in [Threads -> Stages], NEW t \in Threads, pc[t] # "idle", Read(t)
  PROVE  StepsLeft(t)' < StepsLeft(t)
  <1>1. CASE ReadAuthenticate(t)
    <2>1. owner = t /\ owner' # t /\ pc[t] = "auth"
      BY <1>1, NoThreadAssumption DEF ReadAuthenticate, EndRead, Release
    <2>2. \E stage \in {"access", "list", "statistics"} : Go(t, stage)
      <3>1. req[t].op \in ReadingOps
        BY <1>1, ReadsAssumption DEF ReadAuthenticate
      <3> QED BY <1>1, <3>1 DEF ReadAuthenticate, ReadingOps
    <2>3. PICK stage \in {"access", "list", "statistics"} : Go(t, stage)
      BY <2>2
    <2>4. stage \in Stages /\ StagesLeft[stage] \in {1, 4}
      BY ReadingLeft DEF ReadStages
    <2>5. StagesLeft[pc[t]] = 5
      BY <2>1, Left
    <2> QED BY <2>1, <2>3, <2>4, <2>5, GoIsNearer
  <1>2. CASE DetailsAccess(t) \/ DetailsRow(t)
    <2>1. \E found, stage : /\ Lookup(t, found, stage)
                            /\ \/ pc[t] = "access" /\ stage = "row"
                               \/ pc[t] = "row" /\ stage = "receipt"
      BY <1>2 DEF DetailsAccess, DetailsRow, At
    <2>2. PICK found, stage :
            /\ Lookup(t, found, stage)
            /\ \/ pc[t] = "access" /\ stage = "row"
               \/ pc[t] = "row" /\ stage = "receipt"
      BY <2>1
    <2>3. stage \in Stages /\ StagesLeft[stage] < StagesLeft[pc[t]]
      BY <2>2, ReadingLeft DEF ReadStages
    <2> QED BY <2>2, <2>3, LookupIsNearer
  <1>3. CASE DetailsReceipt(t)
    <2>1. /\ owner = t /\ owner' # t /\ pc[t] = "receipt"
          /\ Go(t, "splits")
      BY <1>3, NoThreadAssumption DEF DetailsReceipt, At, EndRead, Release
    <2>2. "splits" \in Stages /\ StagesLeft["splits"] < StagesLeft[pc[t]]
      BY <2>1, ReadingLeft DEF ReadStages
    <2> QED BY <2>1, <2>2, GoIsNearer
  <1>4. CASE GetTransactions(t) \/ DetailsSplits(t) \/ GetStatistics(t)
    <2>1. owner' # t /\ \E code, id : Reply(t, code, id)
      BY <1>4, NoThreadAssumption
      DEF GetTransactions, DetailsSplits, GetStatistics, EndRead, Release, Show
    <2> QED BY <2>1, OverIsNearer
  <1>5. CASE DetailsRefused(t)
    BY <1>5, OverIsNearer DEF DetailsRefused, Refused
  <1> QED BY <1>1, <1>2, <1>3, <1>4, <1>5 DEF Read

(* What a reader does in the view of another thread. *)
LEMMA ReadersLeaveOthers ==
  ASSUME pc \in [Threads -> Stages], NEW t \in Threads, NEW s \in Threads,
         s # t, ReadCall(s) \/ Read(s)
  PROVE  StepsLeft(t)' = StepsLeft(t)
  <1>1. CASE ReadCall(s) \/ DetailsRefused(s)
    BY <1>1 DEF ReadCall, DetailsRefused, Reply, StepsLeft
  <1>2. CASE \/ ReadAuthenticate(s) \/ GetTransactions(s)
             \/ DetailsAccess(s) \/ DetailsRow(s) \/ DetailsReceipt(s)
             \/ DetailsSplits(s) \/ GetStatistics(s)
    <2>1. /\ owner = s /\ owner' = NoThread
          /\ \/ \E stage : Go(s, stage)
             \/ \E code, id : Reply(s, code, id)
      BY <1>2
      DEF ReadAuthenticate, GetTransactions, DetailsAccess, DetailsRow,
          DetailsReceipt, DetailsSplits, GetStatistics, Lookup, EndRead,
          Release, Show
    <2> QED BY <2>1, NoThreadAssumption DEF Go, Reply, StepsLeft
  <1> QED BY <1>1, <1>2 DEF Read

(* For any number of readers among the writers: the calls in progress      *)
(* advance, and none is sent back by what the others do.                   *)
THEOREM ReadersProgress == ReadSpec => ReadersAdvance
  <1>1. ASSUME ReadInv, ReadInv', ReadNext
        PROVE  Advances
    <2>1. pc \in [Threads -> Stages] /\ IInv /\ IInv'
      BY <1>1, Parts, CallsNow DEF Calls
    <2>2. CASE Next
      BY <2>1, <2>2, NextAdvances
    <2>3. ASSUME NEW s \in Threads, ReadCall(s) \/ Read(s)
          PROVE  Advances
      <3>1. pc[s] # "idle" => Read(s) /\ StepsLeft(s)' < StepsLeft(s)
        BY <2>1, <2>3, ReadIsNearer DEF ReadCall
      <3>2. pc[s] = "idle" => pc'[s] # "idle"
        <4>1. CASE ReadCall(s)
          BY <2>1, <4>1 DEF ReadCall
        <4>2. CASE Read(s)
          BY <4>2
          DEF Read, ReadAuthenticate, GetTransactions, DetailsAccess,
              DetailsRow, DetailsReceipt, DetailsSplits, DetailsRefused,
              GetStatistics, At
        <4> QED BY <2>3, <4>1, <4>2
      <3>3. ASSUME NEW t \in Threads, pc[t] # "idle"
            PROVE  StepsLeft(t)' <= StepsLeft(t)
        BY <2>1, <2>3, <3>1, <3>3, ReadersLeaveOthers, StepsCounted
      <3> QED BY <3>1, <3>2, <3>3 DEF Advances
    <2> QED BY <1>1, <2>2, <2>3, OtherIsNext DEF ReadNext, Next
  <1>2. ReadInv /\ ReadInv' /\ [ReadNext]_readVars => [Advances]_readVars
    BY <1>1
  <1> QED BY <1>2, ReadersInvariant, PTL DEF ReadSpec, ReadersAdvance
=============================================================================
