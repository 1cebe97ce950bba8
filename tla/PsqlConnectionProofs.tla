------------------------- MODULE PsqlConnectionProofs -------------------------
(***************************************************************************)
(* What PsqlConnection.tla promises, for any number of threads and         *)
(* statements: one live transaction at a time, nobody else's statements in *)
(* it, all of it or nothing of it committed, and therefore a DbSession.    *)
(***************************************************************************)
EXTENDS PsqlConnection, TLAPS

(* The invariant holds in the initial states: no object is live. *)
LEMMA InitIInv == Init => IInv
  BY PsqlAssumption
  DEF Init, IInv, TypeOK, OneLiveTransaction, ViewIsOwners, Results

(* Every call of every thread, and the environment, preserves it. *)
LEMMA NextIInv == IInv /\ [Next]_vars => IInv'
  <1> SUFFICES ASSUME IInv, [Next]_vars PROVE IInv'
    OBVIOUS
  <1> USE PsqlAssumption DEF IInv, TypeOK, OneLiveTransaction, ViewIsOwners,
          Returns, Results
  <1>1. ASSUME NEW t \in Threads, MakeTransaction(t) PROVE IInv'
    BY <1>1 DEF MakeTransaction
  <1>2. ASSUME NEW t \in Threads, MakeTransactionThrows(t) PROVE IInv'
    BY <1>2 DEF MakeTransactionThrows
  <1>3. ASSUME NEW t \in Threads, MakeTransactionOnNull(t) PROVE IInv'
    BY <1>3 DEF MakeTransactionOnNull, ProcessEnds
  <1>4. ASSUME NEW t \in Threads, NEW s \in Statements, ExecuteRows(t, s)
        PROVE IInv'
    BY <1>4 DEF ExecuteRows
  <1>5. ASSUME NEW t \in Threads, ExecuteNullopt(t) PROVE IInv'
    BY <1>5 DEF ExecuteNullopt
  <1>6. ASSUME NEW t \in Threads, Commit(t) PROVE IInv'
    BY <1>6 DEF Commit, WorkEnds, AfterCommit
  <1>7. ASSUME NEW t \in Threads, CommitThrows(t) PROVE IInv'
    BY <1>7 DEF CommitThrows, AfterCommit
  <1>8. ASSUME NEW t \in Threads, Abort(t) PROVE IInv'
    BY <1>8 DEF Abort, WorkEnds
  <1>9. ASSUME NEW t \in Threads, Destroy(t) PROVE IInv'
    <2>1. CASE obj[t] = "live"
      BY <1>9, <2>1 DEF Destroy, WorkEnds, AfterCommit
    <2>2. CASE obj[t] = "closed"
      BY <1>9, <2>2 DEF Destroy
    <2> QED BY <1>9, <2>1, <2>2 DEF Destroy
  <1>10. ASSUME NEW t \in Threads, DestroyTerminates(t) PROVE IInv'
    BY <1>10 DEF DestroyTerminates, ProcessEnds, AfterCommit
  <1>11. CASE Drop
    BY <1>11 DEF Drop
  <1>12. CASE Connect
    BY <1>12 DEF Connect
  <1>13. CASE UNCHANGED vars
    BY <1>13 DEF vars
  <1> QED
    BY <1>1, <1>2, <1>3, <1>4, <1>5, <1>6, <1>7, <1>8, <1>9, <1>10, <1>11,
       <1>12, <1>13 DEF Next, Call, LeaveScope

(* Every invariant of the run is this one: see IInv. *)
THEOREM InductiveInvariant == Spec => []IInv
  BY InitIInv, NextIInv, PTL DEF Spec

(* In every reachable state at most one thread has a live transaction, it  *)
(* is the one the connection has registered, and the open transaction      *)
(* holds that thread's statements and nobody else's.                       *)
THEOREM Invariance == Spec => [](TypeOK /\ OneLiveTransaction /\ ViewIsOwners)
  BY InductiveInvariant, PTL DEF IInv

(* A transaction's statements become visible all together, and only those  *)
(* of a live transaction none of whose statements failed.                  *)
THEOREM Atomicity == Spec => AllOrNothing
  <1>1. IInv /\ [Next]_vars
        => [db' # db => \E t \in Threads : /\ obj[t] = "live"
                                           /\ ok
                                           /\ db' = db \cup sent[t]]_vars
    <2> SUFFICES ASSUME IInv, Next, db' # db
                 PROVE \E t \in Threads : /\ obj[t] = "live"
                                          /\ ok
                                          /\ db' = db \cup sent[t]
      BY DEF vars
    <2> USE DEF IInv, ViewIsOwners, AfterCommit
    <2>1. ASSUME NEW t \in Threads, Call(t)
          PROVE  obj[t] = "live" /\ ok /\ db' = db \cup sent[t]
      BY <2>1 DEF Call, MakeTransaction, MakeTransactionThrows,
         MakeTransactionOnNull, ExecuteRows, ExecuteNullopt, Commit,
         CommitThrows, Abort
    <2>2. ASSUME NEW t \in Threads, LeaveScope(t)
          PROVE  obj[t] = "live" /\ ok /\ db' = db \cup sent[t]
      BY <2>2 DEF LeaveScope, Destroy, DestroyTerminates
    <2>3. ~ Drop /\ ~ Connect
      BY DEF Drop, Connect
    <2> QED BY <2>1, <2>2, <2>3 DEF Next
  <1> QED BY <1>1, InductiveInvariant, PTL DEF Spec, AllOrNothing

(* Statement by statement, the wallet's database classes implement the     *)
(* session the service modules are written against.                        *)
THEOREM SessionRefinement == Spec => ImplementsSession
  <1>1. Init => Session!SessionInit
    BY DEF Init, Session!SessionInit
  <1>2. IInv /\ [Next]_vars => [Session!SessionNext]_(Session!sessionVars)
    <2> SUFFICES ASSUME IInv, Next
                 PROVE  Session!SessionNext \/ UNCHANGED Session!sessionVars
      BY DEF vars, Session!sessionVars
    <2> USE DEF IInv, TypeOK, OneLiveTransaction, Session!sessionVars
    <2>1. ASSUME NEW t \in Threads, MakeTransaction(t)
          PROVE Session!Acquire(t)
      BY <2>1 DEF MakeTransaction, Session!Acquire
    <2>2. ASSUME NEW t \in Threads, MakeTransactionOnNull(t)
          PROVE Session!NullDereference
      BY <2>2 DEF MakeTransactionOnNull, ProcessEnds, Session!NullDereference
    <2>3. ASSUME NEW t \in Threads,
                 \/ MakeTransactionThrows(t) \/ ExecuteNullopt(t)
                 \/ \E s \in Statements : ExecuteRows(t, s)
          PROVE UNCHANGED Session!sessionVars
      BY <2>3 DEF MakeTransactionThrows, ExecuteNullopt, ExecuteRows
    <2>4. ASSUME NEW t \in Threads, Commit(t)
          PROVE Session!Release(t)
      BY <2>4 DEF Commit, WorkEnds, Session!Release
    <2>5. ASSUME NEW t \in Threads, CommitThrows(t)
          PROVE Session!InDoubtCommit(t) \/ UNCHANGED Session!sessionVars
      BY <2>5 DEF CommitThrows, Session!InDoubtCommit
    <2>6. ASSUME NEW t \in Threads, Abort(t)
          PROVE Session!Rollback(t)
      BY <2>6 DEF Abort, WorkEnds, Session!Rollback
    <2>7. ASSUME NEW t \in Threads, Destroy(t)
          PROVE Session!Release(t) \/ UNCHANGED Session!sessionVars
      BY <2>7 DEF Destroy, WorkEnds, Session!Release
    <2>8. ASSUME NEW t \in Threads, DestroyTerminates(t)
          PROVE Session!Terminate(t) \/ Session!InDoubt(t)
      BY <2>8 DEF DestroyTerminates, ProcessEnds, Session!Terminate,
         Session!InDoubt
    <2>9. CASE Drop
      BY <2>9 DEF Drop, Session!Drop, Session!SessionNext
    <2>10. CASE Connect
      BY <2>10 DEF Connect, Session!Start, Session!SessionNext
    <2> QED
      BY <2>1, <2>2, <2>3, <2>4, <2>5, <2>6, <2>7, <2>8, <2>9, <2>10
      DEF Next, Call, LeaveScope, Session!SessionNext
  <1> QED BY <1>1, <1>2, InductiveInvariant, PTL DEF Spec, ImplementsSession,
     Session!SessionSpec
=============================================================================
