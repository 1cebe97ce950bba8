--------------------------------- MODULE Reads ---------------------------------
(***************************************************************************)
(* The reading handlers of FinanceServiceImpl over the ledger's tables,    *)
(* run among the writing ones of Ledger.tla: GetTransactions and           *)
(* GetStatistics ask all their queries in one database transaction,        *)
(* GetTransactionDetails asks each in one of its own.                      *)
(*                                                                         *)
(* A row's info is its type (0 is income, 1 is expense) and its amount.    *)
(* Sums come from PostgreSQL as text of any size; the handlers put them    *)
(* into 32-bit fields.  Of the filters (dates, type, category) only the    *)
(* category is kept: each is one more condition of the same queries.       *)
(***************************************************************************)
EXTENDS Ledger, FiniteSetsExt

CONSTANTS ReadOps,   \* the reading operations of an instance
          MaxInt,    \* the largest value of an int32_t
          PageSize   \* LIMIT, 50 by default

ASSUME ReadsAssumption ==
  /\ ReadOps \subseteq ReadingOps
  /\ MaxInt \in Nat /\ PageSize \in Nat
  /\ \A x \in Infos : x.type \in {0, 1} /\ x.amount \in 1..MaxInt

VARIABLES seen,   \* per thread: the row that GetTransactionDetails has read
          answer  \* what the response that leaves in this step shows, if any

readVars == <<vars, seen, answer>>

Nothing == [none |-> TRUE]

ReadRequests ==
  {r \in UNION {{Request("GetTransactions", u, 0, 0, 0, k, NoName, NoInfo) :
                   k \in CatIds \cup {0}}
                \cup {Request("GetTransactionDetails", u, i, 0, 0, 0, NoName,
                              NoInfo) : i \in TxnIds}
                \cup {Request("GetStatistics", u, 0, 0, 0, 0, NoName, NoInfo)}
                : u \in Clients} : r.op \in ReadOps}

ReadInit == /\ Init
            /\ seen = [t \in Threads |-> Nothing]
            /\ answer = Nothing

(* Nothing is shown, and a call that ended has seen nothing. *)
ShowNothing ==
  /\ seen' = [t \in Threads |-> IF pc'[t] = "idle" THEN Nothing ELSE seen[t]]
  /\ answer' = Nothing

Show(t, content) == /\ Reply(t, "OK", 0)
                    /\ answer' = content
                    /\ seen' = [seen EXCEPT ![t] = Nothing]

ReadCall(t) == /\ pc[t] = "idle"
               /\ link # "down"
               /\ \E r \in ReadRequests : req' = [req EXCEPT ![t] = r]
               /\ pc' = [pc EXCEPT ![t] = "auth"]
               /\ reply' = NoReply
               /\ UNCHANGED <<link, owner, db, seq>>
               /\ ShowNothing

(* The token of a request in ReadRequests is a user's: see Requests. *)
ReadAuthenticate(t) ==
  /\ owner = t
  /\ pc[t] = "auth"
  /\ req[t].op \in ReadOps
  /\ EndRead(t)
  /\ Go(t, CASE req[t].op = "GetTransactionDetails" -> "access"
             [] req[t].op = "GetTransactions" -> "list"
             [] req[t].op = "GetStatistics" -> "statistics")
  /\ ShowNothing

-----------------------------------------------------------------------------
(* Sums.                                                                   *)

(* getVariantValue<int32_t>: stoi throws for a number that does not fit,   *)
(* and the handler is given 0.                                             *)
Int32(n) == IF n <= MaxInt THEN n ELSE 0

(* Signed addition that overflows wraps around. *)
Wrapped(n) == ((n + MaxInt + 1) % (2 * (MaxInt + 1))) - (MaxInt + 1)

(* What the rows of a table amount to. *)
Amounts(rows) == [i \in DOMAIN rows |-> rows[i].info.amount]

Sum(d, S) == SumFunctionOnSet(Amounts(d.txn), S)

OfType(d, S, type) == {i \in S : d.txn[i].info.type = type}

(* WHERE t.user_id, and AND t.category_id unless the filter is empty *)
Filtered(d, r) ==
  {i \in DOMAIN d.txn : /\ d.txn[i].user = r.user
                        /\ r.cat # 0 => d.txn[i].cat = r.cat}

(* The sums by type of the same transactions. *)
Totals(d, S) == [income |-> Int32(Sum(d, OfType(d, S, 0))),
                 expense |-> Int32(Sum(d, OfType(d, S, 1)))]

-----------------------------------------------------------------------------
(* GetTransactions.                                                        *)

(* Mutant: the category is missing from the query of the sums. *)
GetTransactionsUnfiltered(t) ==
  /\ At(t, "GetTransactions", "list")
  /\ EndRead(t)
  /\ \E page \in kSubset(IF Cardinality(Filtered(db, req[t])) < PageSize
                         THEN Cardinality(Filtered(db, req[t])) ELSE PageSize,
                         Filtered(db, req[t])) :
       Show(t, [page |-> [i \in page |-> db.txn[i]],
                count |-> Cardinality(Filtered(db, req[t])),
                totals |-> Totals(db, Filtered(db, [req[t] EXCEPT !.cat = 0]))])

(* The newest PageSize of them (timestamps are left out: any PageSize of   *)
(* them), how many there are, and their sums: three queries with the same  *)
(* filter in one transaction.                                              *)
GetTransactions(t) ==
  LET all == Filtered(db, req[t])
      n == Cardinality(all)
  IN /\ At(t, "GetTransactions", "list")
     /\ EndRead(t)
     /\ \E page \in kSubset(IF n < PageSize THEN n ELSE PageSize, all) :
          Show(t, [page |-> [i \in page |-> db.txn[i]],
                   count |-> n,
                   totals |-> Totals(db, all)])

-----------------------------------------------------------------------------
(* GetTransactionDetails and getTransactionData.                           *)

(* Mutant: the access query does not ask whose transaction it is. *)
DetailsAccessOfAnyone(t) ==
  /\ At(t, "GetTransactionDetails", "access")
  /\ Lookup(t, req[t].txn \in DOMAIN db.txn, "row")
  /\ ShowNothing

DetailsAccess(t) ==
  /\ At(t, "GetTransactionDetails", "access")
  /\ Lookup(t, OwnsTxn(db, req[t].user, req[t].txn), "row")
  /\ ShowNothing

(* The row, without asking for its user again. *)
DetailsRow(t) ==
  LET i == req[t].txn
  IN /\ At(t, "GetTransactionDetails", "row")
     /\ Lookup(t, i \in DOMAIN db.txn, "receipt")
     /\ answer' = Nothing
     /\ seen' = [seen EXCEPT ![t] = IF i \in DOMAIN db.txn THEN db.txn[i]
                                    ELSE Nothing]

(* The receipt that the row names, asked for even when there is none (id   *)
(* 0).  Its date, sum and kind never change and it is never deleted: they  *)
(* are part of the row's info; its retailer and items may still be loaded  *)
(* (Receipts.tla) and are left out.  Whose receipt it is nobody asks, not  *)
(* here and not when a transaction is created or updated with its id.      *)
DetailsReceipt(t) == /\ At(t, "GetTransactionDetails", "receipt")
                     /\ EndRead(t)
                     /\ Go(t, "splits")
                     /\ ShowNothing

DetailsSplits(t) ==
  LET splits == SplitsOfTxn(db, req[t].txn)
  IN /\ At(t, "GetTransactionDetails", "splits")
     /\ EndRead(t)
     /\ Show(t, [row |-> seen[t],
                 splits |-> [s \in splits |->
                               [chr |-> db.split[s].chr,
                                name |-> db.chr[db.split[s].chr].name]]])

(* getTransactionData catches what makeTransaction() throws and returns    *)
(* false; its caller answers NOT_FOUND.                                    *)
DetailsRefused(t) == /\ pc[t] \in {"row", "receipt", "splits"}
                     /\ Refused(t)
                     /\ Reply(t, "NOT_FOUND", 0)
                     /\ UNCHANGED <<link, owner, db, seq>>
                     /\ ShowNothing

-----------------------------------------------------------------------------
(* GetStatistics.                                                          *)

(* One chart: per group the sum of its rows, and the sum of what was       *)
(* parsed of those, which the percentages are taken of.                    *)
Chart(rows, group) ==
  LET parts == [g \in Range(group) |->
                  Int32(SumFunctionOnSet(Amounts(rows),
                                         {i \in DOMAIN group : group[i] = g}))]
  IN [parts |-> parts, base |-> Wrapped(SumFunction(parts))]

ByCategory(d, S) == Chart(d.txn, [i \in S |-> d.txn[i].cat])

(* Mutant: the query forgets whose characters it joins. *)
DividedByAnyone(d, u) ==
  {s \in DOMAIN d.split : d.txn[d.split[s].txn].info.type = 1}

(* The splits of expenses among the user's characters; whose the expenses  *)
(* are is not asked.                                                       *)
Divided(d, u) == {s \in DOMAIN d.split : /\ OwnsChr(d, u, d.split[s].chr)
                                         /\ d.txn[d.split[s].txn].info.type = 1}

Statistics(d, u) ==
  LET mine == {i \in DOMAIN d.txn : d.txn[i].user = u}
  IN [totals |-> Totals(d, mine),
      expenses |-> ByCategory(d, OfType(d, mine, 1)),
      incomes |-> ByCategory(d, OfType(d, mine, 0)),
      characters |-> Chart(d.split, [s \in Divided(d, u) |-> d.split[s].chr])]

(* Mutant: the charts are read in a transaction of their own. *)
GetStatisticsInParts(t) ==
  \/ /\ At(t, "GetStatistics", "statistics")
     /\ seen[t] = Nothing
     /\ EndRead(t)
     /\ Go(t, "statistics")
     /\ answer' = Nothing
     /\ seen' = [seen EXCEPT ![t] = Statistics(db, req[t].user).totals]
  \/ /\ At(t, "GetStatistics", "statistics")
     /\ seen[t] # Nothing
     /\ EndRead(t)
     /\ Show(t, [Statistics(db, req[t].user) EXCEPT !.totals = seen[t]])

(* Five queries in one transaction. *)
GetStatistics(t) == /\ At(t, "GetStatistics", "statistics")
                    /\ EndRead(t)
                    /\ Show(t, Statistics(db, req[t].user))

-----------------------------------------------------------------------------
Read(t) == \/ ReadAuthenticate(t)
           \/ GetTransactions(t)
           \/ DetailsAccess(t) \/ DetailsRow(t) \/ DetailsReceipt(t)
           \/ DetailsSplits(t) \/ DetailsRefused(t)
           \/ GetStatistics(t)

(* The steps of Ledger.tla; a refusal that is not handled above is an      *)
(* error of the reading handlers too.                                      *)
Other(t) == /\ \/ Call(t) \/ EmptyToken(t) \/ Begin(t) \/ Handler(t) \/ Crash(t)
               \/ req[t].op \notin ReadOps /\ Authenticate(t)
               \/ pc[t] \notin {"row", "receipt", "splits"} /\ Refuse(t)
            /\ ShowNothing

ReadNext == \/ \E t \in Threads : ReadCall(t) \/ Read(t) \/ Other(t)
            \/ Environment /\ ShowNothing

ReadSpec == ReadInit /\ [][ReadNext]_readVars

-----------------------------------------------------------------------------
(* Properties.                                                             *)

Shows(t, op) == req[t].op = op /\ Answers(t, "OK")

(* The inductive invariant (ReadsProofs.tla): that of Ledger.tla, and what *)
(* getTransactionData has asked stays true between its transactions.  The  *)
(* row that is read by its id is the caller's, or gone; the row that was   *)
(* read was the caller's.                                                  *)
ReadInv == /\ IInv
           /\ seen \in [Threads -> TxnRow \cup {Nothing}]
           /\ \A t \in Threads :
                /\ req[t].op \in ReadingOps => req[t].valid
                /\ pc[t] \in {"row", "receipt", "splits"} => CheckedTxn(req[t])
                /\ pc[t] \in {"receipt", "splits"} =>
                     seen[t] # Nothing /\ seen[t].user = req[t].user

(* The row whose details are shown is the caller's, and so is every        *)
(* character of its splits, although ownership is asked once, and the row  *)
(* and the splits are read by id in later transactions.  It says nothing   *)
(* of the receipt, see DetailsReceipt.                                     *)
DetailsAreOwn ==
  [][\A t \in Threads : LET u == req[t].user IN
       Shows(t, "GetTransactionDetails") =>
         /\ answer'.row.user = u
         /\ \A s \in DOMAIN answer'.splits : OwnsChr(db, u, answer'.splits[s].chr)
     ]_readVars

(* A page, its count and its sums are of the same moment and of the same   *)
(* transactions: when everything is on the page and the sums fit, they are *)
(* the sums of the page.                                                   *)
PagesAddUp ==
  [][\A t \in Threads :
       Shows(t, "GetTransactions") =>
         LET page == answer'.page
             sum(type) == SumFunctionOnSet(Amounts(page),
                            {i \in DOMAIN page : page[i].info.type = type})
         IN /\ Cardinality(DOMAIN page) <= answer'.count
            /\ Cardinality(DOMAIN page) < PageSize =>
                 /\ answer'.count = Cardinality(DOMAIN page)
                 /\ sum(0) <= MaxInt => answer'.totals.income = sum(0)
                 /\ sum(1) <= MaxInt => answer'.totals.expense = sum(1)
     ]_readVars

(* The parts of a chart add up to the total that it divides, and so does   *)
(* what the percentages are taken of: of what fits into 32 bits.           *)
Adds(chart, total) ==
  \/ chart.base = total /\ SumFunction(chart.parts) = total
  \/ total = 0 /\ (SumFunction(chart.parts) > MaxInt
                   \/ \E g \in DOMAIN chart.parts : chart.parts[g] = 0)

(* The categories of the expenses, and those of the incomes, divide what   *)
(* is shown as their total.                                                *)
ChartsAddUp ==
  [][\A t \in Threads :
       Shows(t, "GetStatistics") =>
         /\ Adds(answer'.expenses, answer'.totals.expense)
         /\ Adds(answer'.incomes, answer'.totals.income)
     ]_readVars

(* What is shown per character is what the user's own expenses were        *)
(* divided into, although the query only asks whose the characters are.    *)
CharactersAddUp ==
  [][\A t \in Threads :
       Shows(t, "GetStatistics") =>
         LET mine == {s \in DOMAIN db.split :
                        /\ OwnsSplit(db, req[t].user, s)
                        /\ db.txn[db.split[s].txn].info.type = 1}
         IN Adds(answer'.characters,
                 Int32(SumFunctionOnSet(Amounts(db.split), mine)))
     ]_readVars

(* With the reading handlers among them, too, calls come to an end: each   *)
(* query of theirs brings a call nearer to its answer.                     *)
ReadersAdvance == [][Advances]_readVars
=============================================================================
