---------------------------- MODULE PsqlConnection ----------------------------
(***************************************************************************)
(* cxx::PsqlDatabase and cxx::PsqlTransaction over one pqxx::connection,   *)
(* call by call: makeTransaction, executeQuery, commit, abort and the      *)
(* destructor that commits, with statements that fail, a connection that   *)
(* breaks at any moment, and the process that ends and starts again.       *)
(*                                                                         *)
(* The connection has one server-side transaction at a time (view, ok).    *)
(* A statement is a member of Statements and the committed contents are    *)
(* the set of statements that took effect, so that "which statements of    *)
(* which transaction got committed" is what the properties can see.        *)
(*                                                                         *)
(* libpqxx and the server are external; each of their calls is one step,   *)
(* which is an assumption: no lock of the repository keeps two threads'    *)
(* calls apart.  PsqlRaces.tla shows what happens when they overlap.       *)
(***************************************************************************)
EXTENDS FiniteSets

CONSTANTS Threads, NoThread, Statements

ASSUME PsqlAssumption == NoThread \notin Threads

VARIABLES
  link,        \* as in DbSession: process and connection
  registered,  \* thread whose work the connection has registered
  db,          \* statements whose effects are committed
  view,        \* what the open server-side transaction sees
  ok,          \* FALSE once a statement of it failed: COMMIT rolls back
  obj,         \* per thread: its PsqlTransaction ("closed": txn_ is null)
  sent,        \* per thread: statements of its transaction that returned rows
  result       \* per thread: how its last call ended

vars == <<link, registered, db, view, ok, obj, sent, result>>

Results == {"none", "rows", "nullopt", "threw"}

Init == /\ link \in {"open", "null"}
        /\ registered = NoThread
        /\ db = {}
        /\ view = {}
        /\ ok = TRUE
        /\ obj = [t \in Threads |-> "none"]
        /\ sent = [t \in Threads |-> {}]
        /\ result = [t \in Threads |-> "none"]

Returns(t, r) == result' = [result EXCEPT ![t] = r]

(* What COMMIT leaves in the database: a failed transaction is rolled back *)
(* by the server, and COMMIT still reports success.                        *)
AfterCommit == IF ok THEN view ELSE db

(* The work is unregistered and the server-side transaction is over. *)
WorkEnds(t) == /\ registered' = NoThread
               /\ view' = {}
               /\ ok' = TRUE
               /\ sent' = [sent EXCEPT ![t] = {}]

(* The process ends: every object on every thread's stack is gone and the  *)
(* server forgets the open transaction.                                    *)
ProcessEnds == /\ link' = "down"
               /\ registered' = NoThread
               /\ obj' = [t \in Threads |-> "none"]
               /\ sent' = [t \in Threads |-> {}]
               /\ result' = [t \in Threads |-> "none"]
               /\ ok' = TRUE
               /\ view' = {}

-----------------------------------------------------------------------------
(* Mutant: the registration check of pqxx::work is lost; the second BEGIN  *)
(* joins the transaction that is already open on the connection.           *)
MakeTransactionShared(t) ==
  /\ obj[t] = "none"
  /\ link = "open"
  /\ registered' = t
  /\ view' = IF registered = NoThread THEN db ELSE view
  /\ ok' = (registered = NoThread \/ ok)
  /\ obj' = [obj EXCEPT ![t] = "live"]
  /\ sent' = [sent EXCEPT ![t] = {}]
  /\ Returns(t, "none")
  /\ UNCHANGED <<link, db>>

MakeTransaction(t) ==
  /\ obj[t] = "none"
  /\ link = "open"
  /\ registered = NoThread
  /\ registered' = t
  /\ view' = db
  /\ ok' = TRUE
  /\ obj' = [obj EXCEPT ![t] = "live"]
  /\ sent' = [sent EXCEPT ![t] = {}]
  /\ Returns(t, "none")
  /\ UNCHANGED <<link, db>>

(* pqxx::work throws: another work is registered, or BEGIN cannot be sent. *)
MakeTransactionThrows(t) ==
  /\ obj[t] = "none"
  /\ link = "broken" \/ (link = "open" /\ registered # NoThread)
  /\ Returns(t, "threw")
  /\ UNCHANGED <<link, registered, db, view, ok, obj, sent>>

(* conn_ is null because connect() threw: *conn_ is undefined behaviour.   *)
MakeTransactionOnNull(t) ==
  /\ link = "null"
  /\ obj[t] = "none"
  /\ ProcessEnds
  /\ UNCHANGED db

(* executeQuery returns the rows. *)
ExecuteRows(t, s) ==
  /\ obj[t] = "live"
  /\ link = "open" /\ ok
  /\ view' = view \cup {s}
  /\ sent' = [sent EXCEPT ![t] = @ \cup {s}]
  /\ Returns(t, "rows")
  /\ UNCHANGED <<link, registered, db, ok, obj>>

(* executeQuery catches and returns nullopt: the server rejected this      *)
(* statement or an earlier one, or the connection is gone.                 *)
ExecuteNullopt(t) ==
  /\ obj[t] = "live"
  /\ ok' = FALSE
  /\ Returns(t, "nullopt")
  /\ UNCHANGED <<link, registered, db, view, obj, sent>>

(* Mutant: commit() keeps what the statements before the failed one did.   *)
CommitIgnoringErrors(t) ==
  /\ obj[t] = "live"
  /\ link = "open"
  /\ db' = view
  /\ WorkEnds(t)
  /\ obj' = [obj EXCEPT ![t] = "closed"]
  /\ UNCHANGED <<link, result>>

(* commit(): COMMIT, then txn_.reset() unregisters the work.  On a closed  *)
(* transaction it logs and changes nothing.                                *)
Commit(t) ==
  /\ obj[t] = "live"
  /\ link = "open"
  /\ db' = AfterCommit
  /\ WorkEnds(t)
  /\ obj' = [obj EXCEPT ![t] = "closed"]
  /\ UNCHANGED <<link, result>>

(* commit() throws and txn_ stays set: the connection was gone already, or *)
(* is lost during COMMIT, which the server may or may not have done.       *)
CommitThrows(t) ==
  /\ obj[t] = "live"
  /\ \/ link = "broken" /\ UNCHANGED db
     \/ link = "open" /\ db' \in {db, AfterCommit}
  /\ link' = "broken"
  /\ Returns(t, "threw")
  /\ UNCHANGED <<registered, view, ok, obj, sent>>

(* abort(): ROLLBACK, whose failure libpqxx only reports, then reset().    *)
Abort(t) ==
  /\ obj[t] = "live"
  /\ WorkEnds(t)
  /\ obj' = [obj EXCEPT ![t] = "closed"]
  /\ UNCHANGED <<link, db, result>>

(* Mutant: the destructor forgets the work instead of closing it.          *)
DestroyLeaks(t) ==
  /\ obj[t] # "none"
  /\ obj[t] = "live" => link = "open"
  /\ obj' = [obj EXCEPT ![t] = "none"]
  /\ Returns(t, "none")
  /\ UNCHANGED <<link, registered, db, view, ok, sent>>

(* The destructor: commits a transaction nobody closed, also when the      *)
(* scope is left by an exception or an early return.                       *)
Destroy(t) ==
  /\ \/ /\ obj[t] = "live"
        /\ link = "open"
        /\ db' = AfterCommit
        /\ WorkEnds(t)
     \/ /\ obj[t] = "closed"
        /\ UNCHANGED <<registered, db, view, ok, sent>>
  /\ obj' = [obj EXCEPT ![t] = "none"]
  /\ Returns(t, "none")
  /\ UNCHANGED link

(* The destructor's commit throws out of a noexcept function:              *)
(* std::terminate.  The connection was gone already, or is lost during     *)
(* COMMIT.                                                                 *)
DestroyTerminates(t) ==
  /\ obj[t] = "live"
  /\ \/ link = "broken" /\ UNCHANGED db
     \/ link = "open" /\ db' \in {db, AfterCommit}
  /\ ProcessEnds

(* Environment: the connection breaks between two calls. *)
Drop == /\ link = "open"
        /\ link' = "broken"
        /\ UNCHANGED <<registered, db, view, ok, obj, sent, result>>

(* A new process; connect() opens the connection or throws. *)
Connect == /\ link = "down"
           /\ link' \in {"open", "null"}
           /\ UNCHANGED <<registered, db, view, ok, obj, sent, result>>

Call(t) == \/ MakeTransaction(t) \/ MakeTransactionThrows(t)
           \/ MakeTransactionOnNull(t)
           \/ \E s \in Statements : ExecuteRows(t, s)
           \/ ExecuteNullopt(t)
           \/ Commit(t) \/ CommitThrows(t) \/ Abort(t)

LeaveScope(t) == Destroy(t) \/ DestroyTerminates(t)

Next == \/ \E t \in Threads : Call(t) \/ LeaveScope(t)
        \/ Drop \/ Connect

(* A handler's scope ends: its transaction object is destroyed.            *)
Fairness == \A t \in Threads : WF_vars(LeaveScope(t))

Spec == Init /\ [][Next]_vars

FairSpec == Spec /\ Fairness

-----------------------------------------------------------------------------
(* The values of the variables. *)
TypeOK == /\ link \in {"down", "null", "open", "broken"}
          /\ registered \in Threads \cup {NoThread}
          /\ db \subseteq Statements
          /\ view \subseteq Statements
          /\ ok \in BOOLEAN
          /\ obj \in [Threads -> {"none", "live", "closed"}]
          /\ sent \in [Threads -> SUBSET Statements]
          /\ result \in [Threads -> Results]

(* The connection never believes a work to be registered that no thread    *)
(* can still close, and no two threads have a live PsqlTransaction.        *)
OneLiveTransaction ==
  \A t \in Threads : obj[t] = "live" <=> registered = t

(* What the server would commit is exactly what this thread was told       *)
(* succeeded: no statement of another thread is in the open transaction.   *)
ViewIsOwners ==
  \A t \in Threads : obj[t] = "live" => view = db \cup sent[t]

(* The three together are inductive (PsqlConnectionProofs.tla). *)
IInv == TypeOK /\ OneLiveTransaction /\ ViewIsOwners

(* The committed contents change only on behalf of one live transaction,   *)
(* and then by all the statements of it that returned rows; never by those *)
(* of a transaction whose executeQuery answered nullopt (i_database.h:     *)
(* transactions "ensure atomicity").                                       *)
AllOrNothing ==
  [][db' # db => \E t \in Threads : /\ obj[t] = "live"
                                    /\ ok
                                    /\ db' = db \cup sent[t]]_vars

(* A connection someone holds becomes free again: the destructor           *)
(* unregisters the work, or ends the process.  Were it to stay registered, *)
(* every later call of every thread would be refused.                      *)
ConnectionIsFreed == registered # NoThread ~> registered = NoThread

Session == INSTANCE DbSession WITH owner <- registered

(* The statement-level behaviour is a behaviour of the abstract session.   *)
ImplementsSession == Session!SessionSpec
=============================================================================
