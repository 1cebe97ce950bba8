-------------------------------- MODULE MCReads --------------------------------
(* u1 has spent 2 in a category and divided it, u2 has spent and divided 3 *)
(* and calls nothing.  Amounts of 2 and 3 together exceed the 32-bit       *)
(* bound, which is 4: the sums of u1's page, of her categories and of what *)
(* her character has spent do once she has a second transaction and has    *)
(* divided it.                                                             *)
EXTENDS Reads, TLC

CONSTANTS u1, u2, main, other

Spent(n) == [type |-> 1, amount |-> n]

Prices == {Spent(2), Spent(3)}

WalletDb == [txn |-> 1 :> [user |-> u1, cat |-> 1, info |-> Spent(2)]
                     @@ 2 :> [user |-> u2, cat |-> 0, info |-> Spent(3)],
             split |-> 1 :> [txn |-> 1, chr |-> 1, info |-> Spent(2)]
                       @@ 2 :> [txn |-> 2, chr |-> 2, info |-> Spent(3)],
             chr |-> 1 :> [user |-> u1, name |-> main]
                     @@ 2 :> [user |-> u2, name |-> main],
             cat |-> 1 :> other]

WalletSeq == [txn |-> 3, split |-> 3, chr |-> 3, cat |-> 2]

EmptyRequest == [op |-> "none", user |-> NoUser, valid |-> FALSE, txn |-> 0,
                 split |-> 0, chr |-> 0, cat |-> 0, name |-> NoName,
                 info |-> NoInfo]

(* The writes that change what the readers see: to u1's rows, with columns *)
(* that are accepted (the others are in MCLedgerLoads).  An update changes *)
(* amount and category together.                                           *)
Writes == {r \in Requests : /\ r.txn # 2 /\ r.split # 2
                            /\ r.info # RefusedInfo
                            /\ r.op = "CreateTransaction"
                               => r.cat = 0 /\ r.info = Spent(3)
                            /\ r.op = "UpdateTransaction"
                               => (r.cat = 1 <=> r.info = Spent(2))
                            /\ r.op = "CreateSplit"
                               => r.chr = 1 /\ r.info = Spent(3)}

MCReadNext ==
  /\ ReadNext
  /\ \A t \in Threads : req'[t] \in Writes \cup ReadRequests \cup {NoReq}

MCReadSpec == ReadInit /\ [][MCReadNext]_readVars

(* The threads of the pool are interchangeable. *)
Symmetry == Permutations(Threads)
=============================================================================
