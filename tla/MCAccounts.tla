------------------------------ MODULE MCAccounts ------------------------------
(* Two devices, and enough users for one of them to be added twice. *)
EXTENDS Accounts

NoRequest == [op |-> "none", device |-> NoDevice, user |-> 0]

(* The connection does not break, so that a transaction is refused only    *)
(* because another thread holds the connection.                            *)
CalmSpec == Init /\ [][Next /\ link' # "broken"]_vars
=============================================================================
