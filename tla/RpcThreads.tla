------------------------------ MODULE RpcThreads ------------------------------
(***************************************************************************)
(* The worker threads of the gRPC server, each running one handler of      *)
(* FinanceServiceImpl at a time over the shared database session.          *)
(*                                                                         *)
(* A handler is a sequence of database transactions of its own, so other   *)
(* threads' transactions come in between.  A step is makeTransaction()     *)
(* (Begin or Refuse) or all the statements of one transaction up to the    *)
(* destructor that commits it: while a thread holds the connection no      *)
(* other statement reaches the database, see PsqlConnection.tla.           *)
(***************************************************************************)
EXTENDS DbSession, Integers

CONSTANT NoReq  \* the request of a thread that has no call

VARIABLES seq,    \* the SERIAL sequences of the database
          pc,     \* per thread: the database transaction its handler is at
          req,    \* per thread: the request
          reply   \* the response that left the server in the last step, if any

vars == <<link, owner, db, seq, pc, req, reply>>

Codes == {"none", "OK", "UNAUTHORIZED", "INVALID_REQUEST", "NOT_FOUND",
          "SERVER_ERROR", "PARSING_ERROR"}

NoReply == [to |-> NoThread, code |-> "none", id |-> 0]

NoCalls == /\ pc = [t \in Threads |-> "idle"]
           /\ req = [t \in Threads |-> NoReq]
           /\ reply = NoReply

(* Thread t is inside the transaction of this stage of its handler. *)
At(t, op, stage) == owner = t /\ req[t].op = op /\ pc[t] = stage

Go(t, stage) == /\ pc' = [pc EXCEPT ![t] = stage]
                /\ reply' = NoReply
                /\ UNCHANGED req

Reply(t, code, id) == /\ pc' = [pc EXCEPT ![t] = "idle"]
                      /\ req' = [req EXCEPT ![t] = NoReq]
                      /\ reply' = [to |-> t, code |-> code, id |-> id]

(* The process ends: no call in progress is ever answered. *)
Lost == /\ pc' = [t \in Threads |-> "idle"]
        /\ req' = [t \in Threads |-> NoReq]
        /\ reply' = NoReply

(* A transaction that only looked something up ends. *)
EndRead(t) == Release(t) /\ UNCHANGED <<db, seq>>

(* A SELECT in a transaction of its own: go on, or answer NOT_FOUND. *)
Lookup(t, found, next) ==
  /\ EndRead(t)
  /\ IF found THEN Go(t, next) ELSE Reply(t, "NOT_FOUND", 0)

(* The transaction that writes is committed and the call answered; or the  *)
(* connection is lost during COMMIT and the process ends without a word.   *)
Write(t, newDb, code, id) ==
  \/ Release(t) /\ db' = newDb /\ Reply(t, code, id)
  \/ InDoubt(t) /\ db' \in {db, newDb} /\ Lost

(* nextval(): drawn before the row is checked, and never given back. *)
Nextval(q, max) == IF q <= max THEN q + 1 ELSE q

Begin(t) == /\ pc[t] # "idle"
            /\ Acquire(t)
            /\ reply' = NoReply
            /\ UNCHANGED <<seq, pc, req>>

(* Mutant: a refused makeTransaction() is tried again. *)
RefuseRetries(t) ==
  /\ pc[t] # "idle"
  /\ Refused(t)
  /\ reply' = NoReply
  /\ UNCHANGED <<link, owner, db, seq, pc, req>>

(* makeTransaction() threw.  authenticateUser swallows the exception and   *)
(* calls the token invalid; anywhere else the handler answers an error.    *)
Refuse(t) ==
  /\ pc[t] # "idle"
  /\ Refused(t)
  /\ Reply(t, IF pc[t] = "auth" THEN "UNAUTHORIZED" ELSE "SERVER_ERROR", 0)
  /\ UNCHANGED <<link, owner, db, seq>>

(* The process ends: in the destructor of a transaction whose connection   *)
(* is gone, or in makeTransaction() on a connection that never was.        *)
Crash(t) == /\ \/ Terminate(t)
               \/ pc[t] # "idle" /\ NullDereference
            /\ Lost
            /\ UNCHANGED seq

Environment == /\ Drop \/ Start
               /\ reply' = NoReply
               /\ UNCHANGED <<seq, pc, req>>
=============================================================================
