------------------------------ MODULE DbSession ------------------------------
(***************************************************************************)
(* What the service may rely on of its database session: the one           *)
(* pqxx::connection that every gRPC worker thread shares through           *)
(* std::shared_ptr<IDatabase> db_.                                         *)
(*                                                                         *)
(* A thread that obtains a transaction holds the connection until the      *)
(* PsqlTransaction is destroyed; nobody queues for it: makeTransaction()   *)
(* throws while another transaction is registered.  The database contents  *)
(* db change only in the step that ends a transaction, once, as a whole.   *)
(*                                                                         *)
(* PsqlConnection.tla shows this is what PsqlDatabase and PsqlTransaction  *)
(* do statement by statement; the service modules EXTEND this one.         *)
(***************************************************************************)
CONSTANTS Threads,     \* the worker threads of the gRPC server
          NoThread     \* "no transaction is registered on the connection"

ASSUME NoThreadAssumption == NoThread \notin Threads

VARIABLES link,        \* state of the process and of its connection
          owner,       \* the thread whose pqxx::work is registered
          db           \* the committed contents of the database

sessionVars == <<link, owner, db>>

(* "down": the server process is not running.  "null": it runs, connect()  *)
(* threw and conn_ stayed null.  "broken": the backend went away; nothing  *)
(* in the repository reconnects.                                           *)
Links == {"down", "null", "open", "broken"}

(* makeTransaction() returns a transaction. *)
Acquire(t) == /\ link = "open"
              /\ owner = NoThread
              /\ owner' = t
              /\ UNCHANGED <<link, db>>

(* makeTransaction() throws: usage_error while another work is registered, *)
(* broken_connection when BEGIN cannot be sent.                            *)
Refused(t) == /\ owner # t
              /\ \/ link = "broken"
                 \/ link = "open" /\ owner # NoThread

(* *conn_ with a null conn_: undefined, in every build a null dereference  *)
(* inside libpqxx that ends the process.                                   *)
NullDereference == /\ link = "null"
                   /\ link' = "down"
                   /\ owner' = NoThread
                   /\ UNCHANGED db

(* The transaction object is destroyed and COMMIT (or the ROLLBACK that    *)
(* the server makes of it) succeeds; db' is left to the caller.            *)
Release(t) == /\ link = "open"
              /\ owner = t
              /\ owner' = NoThread
              /\ UNCHANGED link

(* abort(): rolled back, or the server already forgot the transaction. *)
Rollback(t) == /\ owner = t
               /\ owner' = NoThread
               /\ UNCHANGED <<link, db>>

(* The connection is gone when the destructor commits: the exception       *)
(* leaves a noexcept destructor and std::terminate ends the process.       *)
Terminate(t) == /\ link = "broken"
                /\ owner = t
                /\ link' = "down"
                /\ owner' = NoThread
                /\ UNCHANGED db

(* The connection is lost while COMMIT is under way: the server may have   *)
(* committed, in_doubt_error is thrown, and the process ends as above;     *)
(* db' is left to the caller.                                              *)
InDoubt(t) == /\ link = "open"
              /\ owner = t
              /\ link' = "down"
              /\ owner' = NoThread

(* The same loss during an explicit commit(): the caller gets the          *)
(* exception and keeps the transaction object.                             *)
InDoubtCommit(t) == /\ link = "open"
                    /\ owner = t
                    /\ link' = "broken"
                    /\ UNCHANGED owner

(* The database server closes the session or the network fails. *)
Drop == /\ link = "open"
        /\ link' = "broken"
        /\ UNCHANGED <<owner, db>>

(* The process is started again and calls connect(), whose result main()   *)
(* does not look at.                                                       *)
Start == /\ link = "down"
         /\ link' \in {"open", "null"}
         /\ UNCHANGED <<owner, db>>

-----------------------------------------------------------------------------
(* As a specification of its own, over any contents of the database.       *)

SessionInit == /\ link \in {"down", "null", "open"}
               /\ owner = NoThread

SessionNext ==
  \/ \E t \in Threads: \/ Acquire(t)
                       \/ Release(t)
                       \/ Rollback(t)
                       \/ Terminate(t)
                       \/ InDoubt(t)
                       \/ InDoubtCommit(t)
  \/ NullDereference \/ Drop \/ Start

SessionSpec == SessionInit /\ [][SessionNext]_sessionVars
=============================================================================
