---------------------------- MODULE MCLedgerLoads ----------------------------
(* Three workloads in one run.  A workload is where the server starts and  *)
(* which requests the clients send; all ids are drawn from the bounds, and *)
(* a sequence that starts past its bound issues nothing.                   *)
EXTENDS MCLedger

VARIABLE load

(* Both users create and delete transactions; u1 divides hers, and u2      *)
(* tries to, with u1's character.                                          *)
Money == [db |-> WalletDb,
          seq |-> [WalletSeq EXCEPT !.chr = MaxChr + 1, !.cat = MaxCat + 1],
          requests |->
            {r \in Requests :
               /\ r.op \in {"CreateTransaction", "DeleteTransaction",
                            "CreateSplit", "DeleteSplit"}
               /\ r.info \in {x1, NoInfo} /\ r.cat = 0 /\ r.chr <= 2
               /\ r.user = u2 => r.op # "DeleteSplit" /\ r.chr <= 1}]

(* u1 divides her transaction while her characters come and go; an amount  *)
(* or a name may be refused.                                               *)
People == [db |-> WalletDb,
           seq |-> [WalletSeq EXCEPT !.txn = MaxTxn + 1, !.split = MaxSplit,
                                     !.cat = MaxCat + 1],
           requests |->
             {r \in Requests :
                /\ r.op \in {"CreateSplit", "UpdateSplit",
                             "ManageCharacter", "DeleteCharacter"}
                /\ r.user # u2 /\ r.txn <= 1 /\ r.split \in {0, MaxSplit}
                /\ r.op = "CreateSplit" => r.info = x1 /\ r.chr # 2
                /\ r.op = "UpdateSplit" => r.info # x1
                /\ r.name = RefusedName => r.chr = 1
                /\ r.chr \in {0, 2} => r.name # other}]

(* u1 uses and deletes the categories that u2's transaction is in too; a   *)
(* receipt may be missing, a name too long.                                *)
Shared == [db |-> SharedDb,
           seq |-> [SharedSeq EXCEPT !.chr = MaxChr + 1],
           requests |->
             {r \in Requests :
                /\ r.op \in {"CreateTransaction", "UpdateTransaction",
                             "ManageCategory", "DeleteCategory", "none"}
                /\ r.user # u2 /\ r.info # x2
                /\ r.op = "CreateTransaction" => r.cat = 1
                /\ r.txn = 1 => r.cat = 1
                /\ r.info = RefusedInfo => r.cat = 0 /\ r.txn = 2
                /\ r.op = "ManageCategory" /\ r.cat = 0 => r.name = main
                /\ r.name = RefusedName => r.cat = 1}]

Loads == [money |-> Money, people |-> People, shared |-> Shared]

LoadInit == /\ load \in DOMAIN Loads
            /\ link \in {"open", "null"}
            /\ owner = NoThread
            /\ db = Loads[load].db
            /\ seq = Loads[load].seq
            /\ NoCalls

LoadNext == /\ Next
            /\ \A t \in Threads : req'[t] \in Loads[load].requests \cup {NoReq}
            /\ UNCHANGED load

LoadSpec == LoadInit /\ [][LoadNext]_<<vars, load>>
==============================================================================
