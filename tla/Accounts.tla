------------------------------- MODULE Accounts -------------------------------
(***************************************************************************)
(* Devices register and log in (FinanceServiceImpl::Authenticate), and     *)
(* other calls present the token they were given (authenticateUser).       *)
(*                                                                         *)
(* Authenticate looks the device up, adds a user and links the device to   *)
(* the user in three database transactions: another Authenticate of the    *)
(* same device, a refused transaction or the end of the process can come   *)
(* between any two of them.  Two calls of one device may both find nothing *)
(* and add two users with the same token.                                  *)
(*                                                                         *)
(* The token made for a device is "generated_token_" and the device's id:  *)
(* here it is the device itself.  db has the two tables: users, from ids   *)
(* to tokens (docs/service/db.sql does not ask for unique tokens), and     *)
(* users_data, pairs of a user and a device, with the columns that the     *)
(* queries name.                                                           *)
(*                                                                         *)
(* PostgreSQL may refuse a statement on a healthy connection, because of a *)
(* text that is too long or a column that is missing (the users_data of    *)
(* db.sql has no device_id).  Authenticate takes a failed SELECT for an    *)
(* unknown device, and does not look at the result of the INSERT that      *)
(* links the device.                                                       *)
(***************************************************************************)
EXTENDS RpcThreads

CONSTANTS Devices,
          NoDevice,    \* an empty device_id or token
          MaxUser,     \* the last value of the sequence of users.id
          Refusable    \* the stages whose statement PostgreSQL may refuse

ASSUME AccountsAssumption ==
  /\ MaxUser \in Nat
  /\ NoDevice \notin Devices
  /\ Refusable \subseteq {"find", "add", "link", "auth"}
  /\ NoReq = [op |-> "none", device |-> NoDevice, user |-> 0]

Lists == {"GetCharacters", "GetCategories"}

(* user is what the handler has learned about the user so far. *)
Requests == [op : Lists \cup {"Authenticate"}, device : Devices \cup {NoDevice},
             user : {0}]

Databases == [users : UNION {[I -> Devices] : I \in SUBSET (1..MaxUser)},
              data : SUBSET ((1..MaxUser) \X Devices)]

Stages == {"idle", "find", "add", "link", "auth", "read"}

RequestType == [op : Lists \cup {"Authenticate", "none"},
                device : Devices \cup {NoDevice}, user : 0..MaxUser]

UsersWith(d, token) == {i \in DOMAIN d.users : d.users[i] = token}

AddedUser(d, i, token) ==
  [d EXCEPT !.users =
     [j \in DOMAIN d.users \cup {i} |-> IF j = i THEN token ELSE d.users[j]]]

LinkedTo(d, device) == {i \in DOMAIN d.users : <<i, device>> \in d.data}

Init == /\ link \in {"open", "null"}
        /\ owner = NoThread
        /\ db = [users |-> <<>>, data |-> {}]
        /\ seq = 1
        /\ NoCalls

(* Learn the user and go on to the next transaction. *)
Know(t, i, stage) == /\ req' = [req EXCEPT ![t].user = i]
                     /\ pc' = [pc EXCEPT ![t] = stage]
                     /\ reply' = NoReply

Call(t) == /\ pc[t] = "idle"
           /\ link # "down"
           /\ \E r \in Requests :
                /\ req' = [req EXCEPT ![t] = r]
                /\ pc' = [pc EXCEPT ![t] =
                            IF r.op = "Authenticate" THEN "find" ELSE "auth"]
           /\ reply' = NoReply
           /\ UNCHANGED <<link, owner, db, seq>>

(* An empty device id or token is refused without a query. *)
EmptyField(t) ==
  /\ pc[t] \in {"find", "auth"}
  /\ owner # t
  /\ req[t].device = NoDevice
  /\ Reply(t, IF pc[t] = "find" THEN "INVALID_REQUEST" ELSE "UNAUTHORIZED", 0)
  /\ UNCHANGED <<link, owner, db, seq>>

(* What makeTransaction() does; it is not reached with an empty field. *)
Query(t) == /\ req[t].device # NoDevice
            /\ Begin(t) \/ Refuse(t) \/ Crash(t)

-----------------------------------------------------------------------------
(* Authenticate.                                                           *)

(* The token of some user that the device is linked to (LIMIT 1); without  *)
(* a row, and also without a result, a user is added.                      *)
FindUser(t) ==
  /\ At(t, "Authenticate", "find")
  /\ EndRead(t)
  /\ \/ /\ LinkedTo(db, req[t].device) = {} \/ "find" \in Refusable
        /\ Go(t, "add")
     \/ \E i \in LinkedTo(db, req[t].device) : Reply(t, "OK", db.users[i])

(* Mutant: a user that could not be added is not noticed. *)
AddUserUnchecked(t) ==
  LET newDb == IF seq <= MaxUser THEN AddedUser(db, seq, req[t].device)
               ELSE db
  IN /\ At(t, "Authenticate", "add")
     /\ \/ Release(t) /\ db' = newDb /\ Know(t, seq, "link")
        \/ InDoubt(t) /\ db' \in {db, newDb} /\ Lost
     /\ seq' = Nextval(seq, MaxUser)

(* add_user(): fails when the sequence has no more values, or when the     *)
(* statement is refused.                                                   *)
AddUser(t) ==
  LET newDb == IF seq <= MaxUser THEN AddedUser(db, seq, req[t].device)
               ELSE db
  IN /\ At(t, "Authenticate", "add")
     /\ \/ /\ seq <= MaxUser
           /\ Release(t)
           /\ db' = newDb
           /\ Know(t, seq, "link")
        \/ /\ seq > MaxUser \/ "add" \in Refusable
           /\ Release(t) /\ UNCHANGED db
           /\ Reply(t, "SERVER_ERROR", 0)
        \/ InDoubt(t) /\ db' \in {db, newDb} /\ Lost
     /\ seq' = Nextval(seq, MaxUser)

(* The device is linked to user i. *)
Linked(d, i, device) == [d EXCEPT !.data = @ \cup {<<i, device>>}]

(* Mutant: the user added last is linked, not the one add_user returned. *)
LinkLastUser(t) ==
  /\ At(t, "Authenticate", "link")
  /\ \/ Write(t, Linked(db, seq - 1, req[t].device), "OK", req[t].device)
     \/ "link" \in Refusable /\ Write(t, db, "OK", req[t].device)
  /\ UNCHANGED seq

(* INSERT INTO users_data, whose result is not looked at: the token is     *)
(* answered also when the device is not linked.                            *)
LinkDevice(t) ==
  /\ At(t, "Authenticate", "link")
  /\ \/ Write(t, Linked(db, req[t].user, req[t].device), "OK", req[t].device)
     \/ "link" \in Refusable /\ Write(t, db, "OK", req[t].device)
  /\ UNCHANGED seq

-----------------------------------------------------------------------------
(* Calls with a token.                                                     *)

(* The first of the users with this token, in no particular order; without *)
(* a row, or without a result, the token is called invalid.                *)
AuthenticateUser(t) ==
  /\ owner = t
  /\ pc[t] = "auth"
  /\ EndRead(t)
  /\ \/ /\ UsersWith(db, req[t].device) = {} \/ "auth" \in Refusable
        /\ Reply(t, "UNAUTHORIZED", 0)
     \/ \E i \in UsersWith(db, req[t].device) : Know(t, i, "read")

(* The user's characters; the answer is identified by the user. *)
GetCharacters(t) == /\ At(t, "GetCharacters", "read")
                    /\ EndRead(t)
                    /\ Reply(t, "OK", req[t].user)

(* The categories, which are the same for every user. *)
GetCategories(t) == /\ At(t, "GetCategories", "read")
                    /\ EndRead(t)
                    /\ Reply(t, "OK", 0)

-----------------------------------------------------------------------------
Step(t) == \/ EmptyField(t) \/ Query(t)
           \/ FindUser(t) \/ AddUser(t) \/ LinkDevice(t)
           \/ AuthenticateUser(t) \/ GetCharacters(t) \/ GetCategories(t)

Next == \/ \E t \in Threads : Call(t) \/ Step(t)
        \/ Environment

Spec == Init /\ [][Next]_vars

(* The operating system runs every thread of the pool. *)
Fairness == \A t \in Threads : WF_vars(Step(t))

FairSpec == Spec /\ Fairness

-----------------------------------------------------------------------------
(* Properties.                                                             *)

(* The values of the variables. *)
TypeOK == /\ link \in Links
          /\ owner \in Threads \cup {NoThread}
          /\ db \in Databases
          /\ seq \in 1..MaxUser + 1
          /\ pc \in [Threads -> Stages]
          /\ req \in [Threads -> RequestType]
          /\ reply.to \in Threads \cup {NoThread}
          /\ reply.code \in Codes

(* A device is linked only to users that were added for it, and the user a *)
(* call goes on with has the token that the call presented: whatever other *)
(* registrations come in between, nobody gets into another's wallet.       *)
TokensAreOwn ==
  /\ \A row \in db.data : /\ row[1] \in DOMAIN db.users
                          /\ db.users[row[1]] = row[2]
  /\ \A t \in Threads :
       pc[t] \in {"link", "read"} => /\ req[t].user \in DOMAIN db.users
                                    /\ db.users[req[t].user] = req[t].device

(* A call that has reached the database has a device id or a token. *)
QueriesHaveDevices ==
  \A t \in Threads :
    owner = t \/ pc[t] \in {"add", "link", "read"} =>
      pc[t] # "idle" /\ req[t].device \in Devices

(* The inductive invariant (AccountsProofs.tla). *)
IInv == /\ TypeOK
        /\ \A i \in DOMAIN db.users : i < seq
        /\ QueriesHaveDevices
        /\ TokensAreOwn

(* Thread t answers its call in this step. *)
Answers(t, code) == pc[t] # "idle" /\ reply'.to = t /\ reply'.code = code

(* Whoever is given a token can use it, for good: when Authenticate        *)
(* answers, the token is the device's own and a stored user has it, and no *)
(* later call takes a user or a token away.  That the device is linked to  *)
(* this user is not said: the INSERT that links it may have failed, and    *)
(* the next Authenticate of the device then adds another user.             *)
TokensAreKnown ==
  [][/\ \A t \in Threads :
          Answers(t, "OK") /\ req[t].op = "Authenticate" =>
            /\ reply'.id = req[t].device
            /\ UsersWith(db', reply'.id) # {}
     /\ \A device \in Devices :
          UsersWith(db, device) \subseteq UsersWith(db', device)]_vars

(* Every call is answered, or the process it was made to ends: nobody      *)
(* waits for the connection, and a holder always gives it back.            *)
CallsEnd == \A t \in Threads : pc[t] # "idle" ~> pc[t] = "idle"

(* What service.proto says of UNAUTHORIZED: "Отсутствие или неверный       *)
(* токен" (a token that is missing or wrong).  It does not hold: when      *)
(* another thread has the connection, authenticateUser swallows the        *)
(* exception of makeTransaction() and the good token of a device that is   *)
(* completely registered is refused.                                       *)
UnauthorizedMeansUnknown ==
  [][\A t \in Threads :
       Answers(t, "UNAUTHORIZED") => LinkedTo(db, req[t].device) = {}]_vars
=============================================================================
