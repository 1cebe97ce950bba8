------------------------------ MODULE MCReceipts ------------------------------
(* Two users scan the same receipts; one category exists, one does not. *)
EXTENDS Receipts, TLC

NoRequest == [op |-> "none", user |-> NoUser, key |-> NoKey, receipt |-> 0,
              create |-> FALSE, cat |-> NoCategory]

(* Threads, users and receipts are interchangeable. *)
Symmetry == Permutations(Threads) \cup Permutations(Users) \cup Permutations(Keys)
=============================================================================
