------------------------------- MODULE PsqlRaces -------------------------------
(***************************************************************************)
(* Two calls of PsqlDatabase::makeTransaction() that overlap in time.      *)
(*                                                                         *)
(* The gRPC server runs handlers on several threads, all of them over one  *)
(* pqxx::connection, and nothing in the repository locks it.  pqxx::work   *)
(* looks whether another transaction is registered and then registers      *)
(* itself and sends BEGIN, without synchronisation: a data race.  Of the   *)
(* outcomes of the race this is the mildest, an interleaving of the two    *)
(* halves of the constructor.  BEGIN inside a transaction is a warning to  *)
(* PostgreSQL, so both threads go on in the same one.                      *)
(***************************************************************************)
EXTENDS PsqlConnection

VARIABLE passed  \* threads that found the connection free, not yet registered

(* The connection is open and does not break. *)
RaceInit == Init /\ link = "open" /\ passed = {}

(* The first half of pqxx::work's constructor. *)
FindFree(t) == /\ obj[t] = "none"
               /\ link = "open"
               /\ registered = NoThread
               /\ passed' = passed \cup {t}
               /\ UNCHANGED vars

(* The second half: the later of two registrations replaces the earlier,   *)
(* and its BEGIN joins the transaction that is open already.               *)
Register(t) ==
  /\ t \in passed
  /\ link = "open"
  /\ passed' = passed \ {t}
  /\ registered' = t
  /\ view' = IF registered = NoThread THEN db ELSE view
  /\ ok' = (registered = NoThread \/ ok)
  /\ obj' = [obj EXCEPT ![t] = "live"]
  /\ sent' = [sent EXCEPT ![t] = {}]
  /\ Returns(t, "none")
  /\ UNCHANGED <<link, db>>

(* No race is under way: transactions are closed as in PsqlConnection. *)
Alone(t) == passed = {} /\ \A u \in Threads \ {t} : obj[u] # "live"

RaceStep(t) == \/ FindFree(t)
               \/ Register(t)
               \/ /\ \/ MakeTransactionThrows(t)
                     \/ \E s \in Statements : ExecuteRows(t, s)
                     \/ ExecuteNullopt(t)
                     \/ Alone(t) /\ (Commit(t) \/ Abort(t) \/ Destroy(t))
                  /\ UNCHANGED passed

RaceNext == \E t \in Threads : RaceStep(t)

RaceSpec == RaceInit /\ [][RaceNext]_<<vars, passed>>

(* What i_database.h says of makeTransaction(): transactions "ensure       *)
(* atomicity, consistency, isolation, and durability".  It does not hold   *)
(* when two calls overlap: a thread's COMMIT or ROLLBACK then decides on   *)
(* another thread's statements too.                                        *)
TransactionsAreIsolated == ViewIsOwners
=============================================================================
