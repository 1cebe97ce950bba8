---------------------------- MODULE AccountsProofs ----------------------------
(***************************************************************************)
(* For any number of threads, devices and users: whatever calls come       *)
(* between the three transactions of Authenticate, a device is linked only *)
(* to users that were added for it, and a call with a token goes on with a *)
(* user who has this token.                                                *)
(***************************************************************************)
EXTENDS Accounts, TLAPS

(* What a step does to the users: they stay as they are, and at most the   *)
(* next one of the sequence is added.                                      *)
UsersStay == /\ db' \in Databases
             /\ seq' \in 1..MaxUser + 1
             /\ \A i \in DOMAIN db.users : /\ i \in DOMAIN db'.users
                                           /\ db'.users[i] = db.users[i]
             /\ \A i \in DOMAIN db'.users : i < seq'

(* Every link of a device, old or new, is to a user with its token. *)
LinksAreOwn == \A row \in db'.data : /\ row[1] \in DOMAIN db'.users
                                     /\ db'.users[row[1]] = row[2]

LEMMA NoWrite ==
  ASSUME IInv, UNCHANGED <<db, seq>>
  PROVE  UsersStay /\ LinksAreOwn
  BY DEF IInv, TypeOK, TokensAreOwn, UsersStay, LinksAreOwn

(* A user is added under an id that nobody has. *)
LEMMA AddedUserTable ==
  ASSUME NEW d \in Databases, NEW i \in 1..MaxUser, NEW token \in Devices,
         i \notin DOMAIN d.users
  PROVE  /\ AddedUser(d, i, token) \in Databases
         /\ AddedUser(d, i, token).data = d.data
         /\ DOMAIN AddedUser(d, i, token).users = DOMAIN d.users \cup {i}
         /\ AddedUser(d, i, token).users[i] = token
         /\ \A j \in DOMAIN d.users :
              AddedUser(d, i, token).users[j] = d.users[j]
  <1> DEFINE f == [j \in DOMAIN d.users \cup {i} |->
                     IF j = i THEN token ELSE d.users[j]]
  <1>1. PICK I \in SUBSET (1..MaxUser) : d.users \in [I -> Devices]
    BY DEF Databases
  <1>2. f \in [I \cup {i} -> Devices] /\ I \cup {i} \in SUBSET (1..MaxUser)
    BY <1>1
  <1>3. AddedUser(d, i, token) = [d EXCEPT !.users = f]
    BY DEF AddedUser
  <1>4. AddedUser(d, i, token) = [users |-> f, data |-> d.data]
    BY <1>3 DEF Databases
  <1>5. f \in UNION {[J -> Devices] : J \in SUBSET (1..MaxUser)}
    BY <1>2
  <1>6. AddedUser(d, i, token) \in Databases
    BY <1>4, <1>5 DEF Databases
  <1> QED BY <1>4, <1>6

(* What every step may rely on. *)
LEMMA Before ==
  ASSUME IInv
  PROVE  /\ db \in Databases /\ seq \in 1..MaxUser + 1 /\ MaxUser \in Nat
         /\ \A i \in DOMAIN db.users : i \in 1..MaxUser /\ i < seq
         /\ seq \notin DOMAIN db.users
  <1>1. db \in Databases /\ seq \in 1..MaxUser + 1 /\ MaxUser \in Nat
    BY AccountsAssumption DEF IInv, TypeOK
  <1>2. PICK I \in SUBSET (1..MaxUser) : db.users \in [I -> Devices]
    BY <1>1 DEF Databases
  <1>3. DOMAIN db.users \subseteq 1..MaxUser
    BY <1>2
  <1>4. \A i \in DOMAIN db.users : i < seq
    BY DEF IInv
  <1>5. seq \notin DOMAIN db.users
    BY <1>1, <1>4
  <1> QED BY <1>1, <1>3, <1>4, <1>5

LEMMA AddUserEffect ==
  ASSUME IInv, NEW t \in Threads, AddUser(t)
  PROVE  UsersStay /\ LinksAreOwn
  <1> DEFINE new == AddedUser(db, seq, req[t].device)
  <1>1. /\ seq' = Nextval(seq, MaxUser)
        /\ db' = db \/ (seq <= MaxUser /\ db' = new)
    BY DEF AddUser
  <1>2. seq' \in 1..MaxUser + 1 /\ seq <= seq' /\ (seq <= MaxUser => seq < seq')
    BY <1>1, Before DEF Nextval
  <1>3. \A i \in DOMAIN db.users : i < seq'
    BY <1>2, Before
  <1>4. CASE db' = db
    BY <1>2, <1>3, <1>4, Before DEF IInv, TokensAreOwn, UsersStay, LinksAreOwn
  <1>5. CASE seq <= MaxUser /\ db' = new
    <2>1. req[t].device \in Devices /\ seq \in 1..MaxUser
      BY <1>5, Before DEF AddUser, At, IInv, QueriesHaveDevices
    <2>2. /\ db' \in Databases
          /\ db'.data = db.data
          /\ DOMAIN db'.users = DOMAIN db.users \cup {seq}
          /\ \A i \in DOMAIN db.users : db'.users[i] = db.users[i]
      BY <1>5, <2>1, Before, AddedUserTable
    <2>3. UsersStay
      BY <1>2, <1>3, <1>5, <2>2, Before DEF UsersStay
    <2>4. LinksAreOwn
      BY <2>2 DEF IInv, TokensAreOwn, LinksAreOwn
    <2> QED BY <2>3, <2>4
  <1> QED BY <1>1, <1>4, <1>5

LEMMA LinkDeviceEffect ==
  ASSUME IInv, NEW t \in Threads, LinkDevice(t)
  PROVE  UsersStay /\ LinksAreOwn
  <1> DEFINE row == <<req[t].user, req[t].device>>
             new == Linked(db, req[t].user, req[t].device)
  <1>1. seq' = seq /\ (db' = db \/ db' = new)
    BY DEF LinkDevice, Write
  <1>2. CASE db' = db
    BY <1>1, <1>2, NoWrite
  <1>3. CASE db' = new
    <2>1. /\ req[t].user \in DOMAIN db.users
          /\ db.users[req[t].user] = req[t].device
          /\ req[t].device \in Devices
      BY DEF LinkDevice, At, IInv, TokensAreOwn, QueriesHaveDevices
    <2>2. row \in (1..MaxUser) \X Devices
      BY <2>1, Before
    <2>3. /\ db' \in Databases
          /\ db'.users = db.users
          /\ db'.data = db.data \cup {row}
      BY <1>3, <2>2, Before DEF Linked, Databases
    <2>4. UsersStay
      BY <1>1, <2>3, Before DEF UsersStay
    <2>5. LinksAreOwn
      BY <2>1, <2>3 DEF IInv, TokensAreOwn, LinksAreOwn
    <2> QED BY <2>4, <2>5
  <1> QED BY <1>1, <1>2, <1>3

LEMMA NextEffect ==
  ASSUME IInv, [Next]_vars
  PROVE  UsersStay /\ LinksAreOwn
  <1>1. ASSUME NEW t \in Threads, Call(t) PROVE UNCHANGED <<db, seq>>
    BY <1>1 DEF Call
  <1>2. ASSUME NEW t \in Threads, EmptyField(t) PROVE UNCHANGED <<db, seq>>
    BY <1>2 DEF EmptyField
  <1>3. ASSUME NEW t \in Threads, Query(t) PROVE UNCHANGED <<db, seq>>
    BY <1>3 DEF Query, Begin, Refuse, Crash, Acquire, Terminate,
       NullDereference
  <1>4. ASSUME NEW t \in Threads, FindUser(t) PROVE UNCHANGED <<db, seq>>
    BY <1>4 DEF FindUser, EndRead
  <1>5. ASSUME NEW t \in Threads,
               AuthenticateUser(t) \/ GetCharacters(t) \/ GetCategories(t)
        PROVE  UNCHANGED <<db, seq>>
    BY <1>5 DEF AuthenticateUser, GetCharacters, GetCategories, EndRead
  <1>6. CASE Environment
    BY <1>6, NoWrite DEF Environment, Drop, Start
  <1>7. CASE UNCHANGED vars
    BY <1>7, NoWrite DEF vars
  <1> QED
    BY <1>1, <1>2, <1>3, <1>4, <1>5, <1>6, <1>7, NoWrite, AddUserEffect,
       LinkDeviceEffect DEF Next, Step

-----------------------------------------------------------------------------
(* The conversations.                                                      *)

(* The types, and what stays of the conversations of the threads but u. *)
Talks(u) == /\ link' \in Links
            /\ owner' \in Threads \cup {NoThread}
            /\ pc' \in [Threads -> Stages]
            /\ req' \in [Threads -> RequestType]
            /\ reply'.to \in Threads \cup {NoThread}
            /\ reply'.code \in Codes
            /\ \A t \in Threads \ {u} : /\ pc'[t] = pc[t]
                                        /\ req'[t] = req[t]
                                        /\ owner' = t => owner = t

(* The invariant's part about thread t, after the step. *)
SoundAfter(t) ==
  /\ owner' = t \/ pc'[t] \in {"add", "link", "read"} =>
       pc'[t] # "idle" /\ req'[t].device \in Devices
  /\ pc'[t] \in {"link", "read"} =>
       /\ req'[t].user \in DOMAIN db'.users
       /\ db'.users[req'[t].user] = req'[t].device

LEMMA OneThreadMoves ==
  ASSUME IInv, UsersStay, LinksAreOwn, NEW u \in Threads, Talks(u),
         SoundAfter(u)
  PROVE  IInv'
  <1>1. ASSUME NEW t \in Threads PROVE SoundAfter(t)
    <2>1. CASE t # u
      <3>1. pc'[t] = pc[t] /\ req'[t] = req[t] /\ (owner' = t => owner = t)
        BY <2>1 DEF Talks
      <3> QED BY <3>1 DEF SoundAfter, IInv, QueriesHaveDevices, TokensAreOwn,
                 UsersStay
    <2> QED BY <2>1
  <1>2. TypeOK'
    BY DEF TypeOK, Talks, UsersStay
  <1>3. QueriesHaveDevices' /\ TokensAreOwn'
    BY <1>1 DEF SoundAfter, QueriesHaveDevices, TokensAreOwn, LinksAreOwn
  <1> QED BY <1>2, <1>3 DEF IInv, UsersStay

(* The process ends: nobody has a call any more. *)
LEMMA ProcessEnds ==
  ASSUME IInv, UsersStay, LinksAreOwn, Lost, link' = "down",
         owner' = NoThread
  PROVE  IInv'
  <1>1. TypeOK'
    BY AccountsAssumption
    DEF TypeOK, Lost, Links, Stages, RequestType, NoReply, Codes, UsersStay
  <1>2. QueriesHaveDevices' /\ TokensAreOwn'
    BY NoThreadAssumption
    DEF Lost, QueriesHaveDevices, TokensAreOwn, LinksAreOwn
  <1> QED BY <1>1, <1>2 DEF IInv, UsersStay

(* Thread u answers its call and does not hold the connection. *)
LEMMA Answering ==
  ASSUME IInv, UsersStay, LinksAreOwn, NEW u \in Threads, NEW code \in Codes,
         NEW id, Reply(u, code, id), link' \in Links,
         owner' = NoThread \/ (owner' = owner /\ owner # u)
  PROVE  IInv'
  <1>1. Talks(u)
    <2>1. NoReq \in RequestType
      BY AccountsAssumption DEF RequestType
    <2>2. pc' \in [Threads -> Stages] /\ req' \in [Threads -> RequestType]
      BY <2>1 DEF IInv, TypeOK, Reply, Stages
    <2>3. \A t \in Threads \ {u} : pc'[t] = pc[t] /\ req'[t] = req[t]
      BY DEF IInv, TypeOK, Reply
    <2>4. reply'.to \in Threads \cup {NoThread} /\ reply'.code \in Codes
      BY DEF Reply
    <2>5. /\ owner' \in Threads \cup {NoThread}
          /\ \A t \in Threads \ {u} : owner' = t => owner = t
      BY NoThreadAssumption DEF IInv, TypeOK
    <2> QED BY <2>2, <2>3, <2>4, <2>5 DEF Talks
  <1>2. SoundAfter(u)
    BY NoThreadAssumption DEF IInv, TypeOK, SoundAfter, Reply
  <1> QED BY <1>1, <1>2, OneThreadMoves

(* Thread u has learned its user and gives the connection back. *)
LEMMA Knowing ==
  ASSUME IInv, UsersStay, LinksAreOwn, NEW u \in Threads, owner = u,
         NEW stage \in {"link", "read"}, NEW i, Know(u, i, stage),
         i \in DOMAIN db'.users, db'.users[i] = req[u].device,
         i \in 0..MaxUser, link' \in Links, owner' = NoThread
  PROVE  IInv'
  <1>1. Talks(u)
    BY NoThreadAssumption
    DEF IInv, TypeOK, Talks, Know, Stages, RequestType, NoReply, Codes
  <1>2. SoundAfter(u)
    BY NoThreadAssumption
    DEF IInv, TypeOK, SoundAfter, Know, QueriesHaveDevices
  <1> QED BY <1>1, <1>2, OneThreadMoves

-----------------------------------------------------------------------------
LEMMA CallKeeps ==
  ASSUME IInv, UsersStay, LinksAreOwn, NEW t \in Threads, Call(t)
  PROVE  IInv'
  <1>1. PICK r \in Requests :
          /\ req' = [req EXCEPT ![t] = r]
          /\ pc' = [pc EXCEPT ![t] =
                      IF r.op = "Authenticate" THEN "find" ELSE "auth"]
    BY DEF Call
  <1>2. r \in RequestType
    BY AccountsAssumption DEF Requests, RequestType
  <1>3. Talks(t)
    BY <1>1, <1>2 DEF Call, IInv, TypeOK, Talks, Stages, NoReply, Codes
  <1>4. SoundAfter(t)
    BY <1>1 DEF Call, IInv, TypeOK, QueriesHaveDevices, SoundAfter
  <1> QED BY <1>3, <1>4, OneThreadMoves

LEMMA EmptyFieldKeeps ==
  ASSUME IInv, UsersStay, LinksAreOwn, NEW t \in Threads, EmptyField(t)
  PROVE  IInv'
  <1>1. /\ owner # t /\ owner' = owner /\ link' \in Links
        /\ \/ Reply(t, "INVALID_REQUEST", 0)
           \/ Reply(t, "UNAUTHORIZED", 0)
    BY DEF EmptyField, IInv, TypeOK
  <1> QED BY <1>1, Answering DEF Codes

LEMMA QueryKeeps ==
  ASSUME IInv, UsersStay, LinksAreOwn, NEW t \in Threads, Query(t)
  PROVE  IInv'
  <1>1. CASE Begin(t)
    <2>1. Talks(t)
      BY <1>1 DEF Begin, Acquire, IInv, TypeOK, Talks, NoReply, Codes
    <2>2. req[t].device \in Devices
      BY DEF Query, IInv, TypeOK, RequestType
    <2>3. SoundAfter(t)
      BY <1>1, <2>2
      DEF Begin, Acquire, SoundAfter, IInv, TokensAreOwn
    <2> QED BY <2>1, <2>3, OneThreadMoves
  <1>2. CASE Refuse(t)
    <2>1. /\ owner # t /\ owner' = owner /\ link' \in Links
          /\ Reply(t, "UNAUTHORIZED", 0) \/ Reply(t, "SERVER_ERROR", 0)
      BY <1>2 DEF Refuse, Refused, IInv, TypeOK
    <2> QED BY <2>1, Answering DEF Codes
  <1>3. CASE Crash(t)
    <2>1. Lost /\ link' = "down" /\ owner' = NoThread
      BY <1>3 DEF Crash, Terminate, NullDereference
    <2> QED BY <2>1, ProcessEnds
  <1> QED BY <1>1, <1>2, <1>3 DEF Query

LEMMA FindUserKeeps ==
  ASSUME IInv, UsersStay, LinksAreOwn, NEW t \in Threads, FindUser(t)
  PROVE  IInv'
  <1>1. owner = t /\ owner' = NoThread /\ link' \in Links
    BY DEF FindUser, At, EndRead, Release, IInv, TypeOK
  <1>2. CASE Go(t, "add")
    <2>1. Talks(t)
      BY <1>1, <1>2, NoThreadAssumption
      DEF Go, IInv, TypeOK, Talks, Stages, NoReply, Codes
    <2>2. SoundAfter(t)
      BY <1>1, <1>2, NoThreadAssumption
      DEF Go, IInv, TypeOK, SoundAfter, QueriesHaveDevices
    <2> QED BY <2>1, <2>2, OneThreadMoves
  <1>3. ASSUME NEW i, Reply(t, "OK", db.users[i]) PROVE IInv'
    BY <1>1, <1>3, Answering DEF Codes
  <1> QED BY <1>2, <1>3 DEF FindUser

LEMMA AddUserKeeps ==
  ASSUME IInv, UsersStay, LinksAreOwn, NEW t \in Threads, AddUser(t)
  PROVE  IInv'
  <1>1. owner = t
    BY DEF AddUser, At
  <1>2. CASE InDoubt(t) /\ Lost
    BY <1>2, ProcessEnds DEF InDoubt
  <1>3. CASE Release(t) /\ Reply(t, "SERVER_ERROR", 0)
    <2>1. link' \in Links /\ owner' = NoThread
      BY <1>3 DEF Release, IInv, TypeOK
    <2> QED BY <1>3, <2>1, Answering DEF Codes
  <1>4. CASE /\ seq <= MaxUser /\ Release(t) /\ Know(t, seq, "link")
             /\ db' = AddedUser(db, seq, req[t].device)
    <2>1. link' \in Links /\ owner' = NoThread
      BY <1>4 DEF Release, IInv, TypeOK
    <2>2. req[t].device \in Devices /\ seq \in 1..MaxUser
      BY <1>1, <1>4, Before DEF IInv, QueriesHaveDevices
    <2>3. seq \in DOMAIN db'.users /\ db'.users[seq] = req[t].device
      BY <1>4, <2>2, Before, AddedUserTable
    <2>4. seq \in 0..MaxUser
      BY <2>2
    <2> QED BY <1>1, <1>4, <2>1, <2>3, <2>4, Knowing
  <1> QED BY <1>2, <1>3, <1>4 DEF AddUser

LEMMA LinkDeviceKeeps ==
  ASSUME IInv, UsersStay, LinksAreOwn, NEW t \in Threads, LinkDevice(t)
  PROVE  IInv'
  <1>1. CASE InDoubt(t) /\ Lost
    BY <1>1, ProcessEnds DEF InDoubt
  <1>2. CASE Release(t) /\ Reply(t, "OK", req[t].device)
    <2>1. link' \in Links /\ owner' = NoThread
      BY <1>2 DEF Release, IInv, TypeOK
    <2> QED BY <1>2, <2>1, Answering DEF Codes
  <1> QED BY <1>1, <1>2 DEF LinkDevice, Write

LEMMA TokenCallKeeps ==
  ASSUME IInv, UsersStay, LinksAreOwn, NEW t \in Threads,
         AuthenticateUser(t) \/ GetCharacters(t) \/ GetCategories(t)
  PROVE  IInv'
  <1>1. owner = t /\ owner' = NoThread /\ link' \in Links /\ db' = db
    BY DEF AuthenticateUser, GetCharacters, GetCategories, At, EndRead,
       Release, IInv, TypeOK
  <1>2. CASE \E i \in UsersWith(db, req[t].device) : Know(t, i, "read")
    <2>1. PICK i \in UsersWith(db, req[t].device) : Know(t, i, "read")
      BY <1>2
    <2>2. /\ i \in DOMAIN db'.users /\ db'.users[i] = req[t].device
          /\ i \in 0..MaxUser
      BY <1>1, Before DEF UsersWith
    <2> QED BY <1>1, <2>1, <2>2, Knowing
  <1>3. ASSUME NEW id, Reply(t, "OK", id) PROVE IInv'
    BY <1>1, <1>3, Answering DEF Codes
  <1>4. CASE Reply(t, "UNAUTHORIZED", 0)
    BY <1>1, <1>4, Answering DEF Codes
  <1> QED BY <1>2, <1>3, <1>4 DEF AuthenticateUser, GetCharacters,
             GetCategories

LEMMA InitIInv == Init => IInv
  <1> SUFFICES ASSUME Init PROVE IInv
    OBVIOUS
  <1>1. db \in Databases
    BY DEF Init, Databases
  <1>2. TypeOK
    BY <1>1, AccountsAssumption
    DEF Init, NoCalls, TypeOK, Links, Stages, RequestType, NoReply, Codes
  <1>3. QueriesHaveDevices /\ TokensAreOwn
    BY NoThreadAssumption
    DEF Init, NoCalls, QueriesHaveDevices, TokensAreOwn
  <1> QED BY <1>2, <1>3 DEF IInv, Init

LEMMA NextIInv == IInv /\ [Next]_vars => IInv'
  <1> SUFFICES ASSUME IInv, [Next]_vars PROVE IInv'
    OBVIOUS
  <1>1. UsersStay /\ LinksAreOwn
    BY NextEffect
  <1>2. ASSUME NEW t \in Threads, Call(t) \/ Step(t) PROVE IInv'
    BY <1>1, <1>2, CallKeeps, EmptyFieldKeeps, QueryKeeps, FindUserKeeps,
       AddUserKeeps, LinkDeviceKeeps, TokenCallKeeps DEF Step
  <1>3. CASE Environment
    <2>1. /\ link' \in Links /\ owner' = owner /\ db' = db /\ seq' = seq
          /\ pc' = pc /\ req' = req /\ reply' = NoReply
      BY <1>3 DEF Environment, Drop, Start, Links
    <2> QED BY <2>1 DEF IInv, TypeOK, QueriesHaveDevices, TokensAreOwn,
               NoReply, Codes
  <1>4. CASE UNCHANGED vars
    BY <1>4 DEF vars, IInv, TypeOK, QueriesHaveDevices, TokensAreOwn
  <1> QED BY <1>2, <1>3, <1>4 DEF Next

(* Every invariant of the run is this one: see IInv. *)
THEOREM InductiveInvariant == Spec => []IInv
  BY InitIInv, NextIInv, PTL DEF Spec

(* For every number of threads and devices: a device is linked only to     *)
(* users with its own token, and a call with a token continues as a user   *)
(* who has it.                                                             *)
THEOREM TokenOwnership == Spec => []TokensAreOwn
  <1>1. IInv => TokensAreOwn
    BY DEF IInv
  <1> QED BY <1>1, InductiveInvariant, PTL

(* What Authenticate answers with OK is a token that a stored user has,    *)
(* now and later, whether or not the device could be linked and however    *)
(* many registrations run at the same time.                                *)
THEOREM KnownTokens == Spec => TokensAreKnown
  <1> DEFINE Known(t) == /\ reply'.id = req[t].device
                         /\ UsersWith(db', reply'.id) # {}
             UsersKept == \A device \in Devices :
                            UsersWith(db, device) \subseteq UsersWith(db', device)
  <1>1. ASSUME IInv, Next, NEW t \in Threads, Answers(t, "OK"),
               req[t].op = "Authenticate"
        PROVE  Known(t)
    <2>1. ASSUME NEW s \in Threads, FindUser(s) PROVE Known(t)
      <3>1. PICK i \in LinkedTo(db, req[s].device) : Reply(s, "OK", db.users[i])
        BY <1>1, <2>1 DEF FindUser, Go, NoReply, Answers
      <3>2. s = t /\ db' = db /\ reply'.id = db.users[i]
        BY <1>1, <2>1, <3>1 DEF Reply, Answers, FindUser, EndRead
      <3>3. i \in DOMAIN db.users /\ db.users[i] = req[t].device
        BY <1>1, <3>1, <3>2 DEF IInv, TokensAreOwn, LinkedTo
      <3>4. i \in UsersWith(db', reply'.id)
        BY <3>2, <3>3 DEF UsersWith
      <3> QED BY <3>2, <3>3, <3>4
    <2>2. ASSUME NEW s \in Threads, LinkDevice(s) PROVE Known(t)
      <3>1. Reply(s, "OK", req[s].device)
        BY <1>1, <2>2 DEF LinkDevice, Write, Lost, NoReply, Answers
      <3>2. s = t /\ reply'.id = req[t].device
        BY <1>1, <3>1 DEF Reply, Answers
      <3>3. UsersStay
        BY <1>1, <2>2, LinkDeviceEffect
      <3>4. /\ req[t].user \in DOMAIN db.users
            /\ db.users[req[t].user] = req[t].device
        BY <1>1, <2>2, <3>2 DEF LinkDevice, At, IInv, TokensAreOwn
      <3>5. req[t].user \in UsersWith(db', reply'.id)
        BY <3>2, <3>3, <3>4 DEF UsersStay, UsersWith
      <3> QED BY <3>2, <3>5
    <2>3. ASSUME NEW s \in Threads, EmptyField(s) \/ Query(s) \/ AddUser(s)
          PROVE  FALSE
      BY <1>1, <2>3
      DEF EmptyField, Query, Begin, Refuse, Crash, AddUser, Know, Reply, Lost,
          NoReply, Answers
    <2>4. ASSUME NEW s \in Threads,
                 AuthenticateUser(s) \/ GetCharacters(s) \/ GetCategories(s)
          PROVE  FALSE
      BY <1>1, <2>4
      DEF AuthenticateUser, GetCharacters, GetCategories, At, Know, Reply,
          NoReply, Answers
    <2>5. ASSUME NEW s \in Threads, Call(s) PROVE FALSE
      BY <1>1, <2>5 DEF Call, NoReply, Answers
    <2>6. ~ Environment
      BY <1>1 DEF Environment, NoReply, Answers
    <2> QED BY <1>1, <2>1, <2>2, <2>3, <2>4, <2>5, <2>6 DEF Next, Step
  <1>2. ASSUME IInv, [Next]_vars PROVE UsersKept
    BY <1>2, NextEffect DEF UsersStay, UsersWith
  <1>3. IInv /\ [Next]_vars =>
          [/\ \A t \in Threads :
                Answers(t, "OK") /\ req[t].op = "Authenticate" => Known(t)
           /\ UsersKept]_vars
    BY <1>1, <1>2
  <1> QED BY <1>3, InductiveInvariant, PTL DEF Spec, TokensAreKnown

-----------------------------------------------------------------------------
(* Registration and the calls with a token are clients of the abstract     *)
(* session, too: their steps are its steps.                                *)
THEOREM UsesSession == Spec => SessionSpec
  <1>1. Init => SessionInit
    BY DEF Init, SessionInit
  <1>2. [Next]_vars => [SessionNext]_sessionVars
    <2>1. ASSUME NEW t \in Threads,
                 \/ FindUser(t) \/ AddUser(t) \/ LinkDevice(t)
                 \/ AuthenticateUser(t) \/ GetCharacters(t) \/ GetCategories(t)
          PROVE  Release(t) \/ InDoubt(t)
      BY <2>1 DEF FindUser, AddUser, LinkDevice, AuthenticateUser,
         GetCharacters, GetCategories, EndRead, Write
    <2>2. ASSUME NEW t \in Threads, Begin(t) \/ Crash(t)
          PROVE  SessionNext
      BY <2>2 DEF Begin, Crash, SessionNext
    <2>3. ASSUME NEW t \in Threads, Call(t) \/ EmptyField(t) \/ Refuse(t)
          PROVE  UNCHANGED sessionVars
      BY <2>3 DEF Call, EmptyField, Refuse, sessionVars
    <2>4. CASE Environment
      BY <2>4 DEF Environment, SessionNext
    <2>5. CASE UNCHANGED vars
      BY <2>5 DEF vars, sessionVars
    <2>6. ASSUME NEW t \in Threads, Release(t) \/ InDoubt(t)
          PROVE  SessionNext
      BY <2>6 DEF SessionNext
    <2> QED BY <2>1, <2>2, <2>3, <2>4, <2>5, <2>6 DEF Next, Step, Query
  <1> QED BY <1>1, <1>2, PTL DEF Spec, SessionSpec
=============================================================================
