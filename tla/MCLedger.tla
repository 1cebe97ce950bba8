------------------------------- MODULE MCLedger -------------------------------
(* Two users share the server.  Each starts with one character; u1 renamed *)
(* her main one.  In WalletDb she has a transaction; in SharedDb u2 has    *)
(* one, with a split, in a category that is everybody's.                   *)
EXTENDS Ledger, TLC

CONSTANTS u1, u2, main, other, x1, x2

Characters == 1 :> [user |-> u1, name |-> other]
              @@ 2 :> [user |-> u2, name |-> main]

Expense == [user |-> u1, cat |-> 0, info |-> x1]

WalletDb == [txn |-> 1 :> Expense, split |-> <<>>, chr |-> Characters,
             cat |-> <<>>]

WalletSeq == [txn |-> 2, split |-> 1, chr |-> 3, cat |-> 1]

SharedDb == [txn |-> 1 :> [user |-> u2, cat |-> 1, info |-> x1],
             split |-> 1 :> [txn |-> 1, chr |-> 2, info |-> x1],
             chr |-> Characters,
             cat |-> 1 :> other]

SharedSeq == [txn |-> 2, split |-> 2, chr |-> 3, cat |-> 2]

EmptyRequest == [op |-> "none", user |-> NoUser, valid |-> FALSE, txn |-> 0,
                 split |-> 0, chr |-> 0, cat |-> 0, name |-> NoName,
                 info |-> NoInfo]

(* The threads of the pool are interchangeable. *)
Symmetry == Permutations(Threads)
==============================================================================
