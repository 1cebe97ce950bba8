------------------------------ MODULE HttpProofs ------------------------------
(* The inductive invariant of the HTTP client and server in the tests, and *)
(* what follows from it: for any number of calls, clients, headers and     *)
(* responses.                                                              *)
EXTENDS Http, TLAPS

-----------------------------------------------------------------------------
(* Headers.                                                                *)

(* Merging headers gives headers. *)
LEMMA MergeType ==
  ASSUME NEW P, NEW Q, NEW a \in Headers(P), NEW b \in Headers(Q)
  PROVE  MergeHeaders(a, b) \in Headers(P \cup Q)
<1>1. PICK S \in SUBSET HeaderNames : a \in [S -> P]
  BY DEF Headers
<1>2. PICK T \in SUBSET HeaderNames : b \in [T -> Q]
  BY DEF Headers
<1>3. MergeHeaders(a, b) \in [S \cup T -> P \cup Q]
  BY <1>1, <1>2 DEF MergeHeaders
<1> QED
  BY <1>3 DEF Headers

LEMMA DefaultType == DefaultHeaders \in Headers({"default"})
<1>1. DefaultHeaders \in [{UserAgent} -> {"default"}]
  BY DEF DefaultHeaders
<1> QED
  BY <1>1, HeaderAssumption DEF Headers

-----------------------------------------------------------------------------
(* The clients.                                                            *)

ClientTypeOK ==
  /\ once \in BOOLEAN
  /\ lib \in Nat
  /\ clients \in Seq(Headers({"default", "initial"}))
  /\ orphaned \in BOOLEAN

ClientIInv == ClientTypeOK /\ OnceIsFirst /\ LibraryIsUp

(* Making a client, also in vain, and destroying one keep the count of     *)
(* libcurl's initialisations right.                                        *)
LEMMA ClientStep ==
  ClientIInv /\ (MakeClient \/ MakeClientFails \/ DestroyClient
                 \/ UNCHANGED clientVars) => ClientIInv'
<1> SUFFICES ASSUME ClientIInv,
                    MakeClient \/ MakeClientFails \/ DestroyClient
                    \/ UNCHANGED clientVars
             PROVE  ClientIInv'
  OBVIOUS
<1> USE DEF ClientIInv, ClientTypeOK, OnceIsFirst, LibraryIsUp, Initialised
<1>1. CASE MakeClient
  <2>1. PICK initial \in Headers({"initial"}) :
          clients' = Append(clients, MergeHeaders(DefaultHeaders, initial))
    BY <1>1 DEF MakeClient
  <2>2. MergeHeaders(DefaultHeaders, initial) \in Headers({"default", "initial"})
    <3>1. {"default"} \cup {"initial"} = {"default", "initial"}
      OBVIOUS
    <3> QED
      BY <3>1, DefaultType, MergeType
  <2>3. clients' \in Seq(Headers({"default", "initial"}))
    BY <2>1, <2>2
  <2>4. once' = TRUE /\ lib' = 1 /\ orphaned' = FALSE
    BY <1>1 DEF MakeClient
  <2>5. ClientTypeOK'
    BY <2>3, <2>4
  <2> QED
    BY <2>4, <2>5
<1>2. CASE MakeClientFails
  BY <1>2 DEF MakeClientFails
<1>3. CASE DestroyClient
  <2>1. clients # <<>> /\ clients' = [i \in 1 .. Len(clients) - 1 |-> clients[i]]
    BY <1>3 DEF DestroyClient
  <2>2. Len(clients) \in Nat /\ Len(clients) > 0
    BY <2>1
  <2>3. /\ clients' \in Seq(Headers({"default", "initial"}))
        /\ Len(clients') = Len(clients) - 1
    BY <2>1, <2>2
  <2>4. Len(clients) = 1 => clients' = <<>>
    BY <2>3
  <2>5. /\ lib' = IF lib = 0 THEN 0 ELSE lib - 1
        /\ orphaned' = (Len(clients) > 1)
        /\ once' = once
    BY <1>3 DEF DestroyClient
  <2> QED
    BY <2>1, <2>2, <2>3, <2>4, <2>5
<1>4. CASE UNCHANGED clientVars
  BY <1>4 DEF clientVars
<1> QED
  BY <1>1, <1>2, <1>3, <1>4

-----------------------------------------------------------------------------
(* Client, server and what is between them.                                *)

ServerTypeOK ==
  /\ server \in {"none", "starting", "loop", "select", "recv", "parse",
                 "send", "close", "returned"}
  /\ running \in BOOLEAN
  /\ response \in Responses \cup {DefaultResponse}
  /\ last = NoRequest \/ \E r \in Request : last = Received(r)
  /\ queue \in Seq(Connection)
  /\ conn \in Connection
  /\ inbox \in Responses \cup {DefaultResponse, "none"}

TestTypeOK ==
  /\ test \in {"idle", "wait", "ready", "join", "connect", "send", "receive",
               "crashed"}
  /\ asked \in Request \cup {NoRequest}
  /\ result \in Responses \cup {DefaultResponse, "none", "error"}

(* The invariant without its client. *)
ServerIInv == /\ ServerTypeOK
              /\ TestTypeOK
              /\ OneIsOpen
              /\ ConnectionsAreServed
              /\ InboxIsAnswer
              /\ LeftByFailure
              /\ StopsForGood

LEMMA PartsOfIInv == HttpIInv <=> ClientIInv /\ ServerIInv
<1>1. TypeOK <=> ClientTypeOK /\ ServerTypeOK /\ TestTypeOK
  BY DEF TypeOK, ClientTypeOK, ServerTypeOK, TestTypeOK
<1>2. ServerIInv => TestsDoNotRace
  BY DEF ServerIInv, LeftByFailure, TestsDoNotRace, Done
<1> QED
  BY <1>1, <1>2 DEF HttpIInv, ClientIInv, ServerIInv

(* The test's own steps. *)
LEMMA TestStep ==
  ASSUME ServerIInv,
         \/ NewServer \/ ServerIsMade \/ DeleteServer \/ ServerIsDeleted
         \/ NewClient \/ DeleteClient \/ ChangeResponse
  PROVE  ServerIInv'
<1> USE DEF ServerIInv, ServerTypeOK, TestTypeOK, OneIsOpen, Open,
            ConnectionsAreServed, InboxIsAnswer, LeftByFailure, StopsForGood,
            Done, network, serverVars
<1>1. CASE NewServer
  BY <1>1 DEF NewServer, StartServer
<1>2. CASE ServerIsMade
  BY <1>2 DEF ServerIsMade, WaitForStart
<1>3. CASE DeleteServer
  BY <1>3 DEF DeleteServer, StopServer
<1>4. CASE ServerIsDeleted
  BY <1>4 DEF ServerIsDeleted, Join
<1>5. CASE NewClient
  BY <1>5 DEF NewClient
<1>6. CASE DeleteClient
  BY <1>6 DEF DeleteClient
<1>7. CASE ChangeResponse
  BY <1>7 DEF ChangeResponse, SetResponse
<1> QED
  BY <1>1, <1>2, <1>3, <1>4, <1>5, <1>6, <1>7

(* A call, from its request to its result. *)
LEMMA CallType == ServerIInv /\ ClientIInv /\ Call => asked' \in Request
<1> SUFFICES ASSUME ServerIInv, ClientIInv, Call
             PROVE  asked' \in Request
  OBVIOUS
<1>1. PICK c \in DOMAIN clients, headers \in Headers({"request"}),
          body \in {"none", "text", "line", "long"} :
        asked' = [id |-> NextId, body |-> body,
                  headers |-> MergeHeaders(clients[c], headers)]
  BY DEF Call
<1>2. clients[c] \in Headers({"default", "initial"})
  BY DEF ClientIInv, ClientTypeOK
<1>3. {"default", "initial"} \cup {"request"} = {"default", "initial", "request"}
  OBVIOUS
<1>4. MergeHeaders(clients[c], headers)
        \in Headers({"default", "initial", "request"})
  BY <1>2, <1>3, MergeType
<1>5. NextId \in 1 .. MaxCalls
  BY BoundsAssumption
  DEF Call, NextId, ServerIInv, TestTypeOK, Request
<1> QED
  BY <1>1, <1>4, <1>5 DEF Request

(* What is done to every connection of a queue leaves a queue. *)
LEMMA OnAll ==
  ASSUME NEW q \in Seq(Connection), NEW f, DOMAIN f = DOMAIN q,
         f = [i \in DOMAIN q |-> f[i]],
         \A i \in DOMAIN q : f[i] \in Connection
  PROVE  f \in Seq(Connection) /\ Len(f) = Len(q)
<1>1. DOMAIN q = 1 .. Len(q) /\ Len(q) \in Nat
  OBVIOUS
<1>2. f = [i \in 1 .. Len(q) |-> f[i]]
  BY <1>1
<1> QED
  BY <1>1, <1>2

(* A request is sent on the connection that is open ... *)
LEMMA SendOnAll ==
  ASSUME NEW q \in Seq(Connection), NEW r \in Request, NEW sent,
         sent = [i \in DOMAIN q |-> WithRequest(q[i], r)]
  PROVE  /\ sent \in Seq(Connection)
         /\ DOMAIN sent = DOMAIN q /\ Len(sent) = Len(q)
         /\ \A i \in DOMAIN q :
              sent[i].open => q[i].open /\ sent[i].request = r
<1>1. \A c \in Connection : WithRequest(c, r) \in Connection
  BY DEF WithRequest, Connection
<1>2. \A c \in Connection : WithRequest(c, r).open =>
                             c.open /\ WithRequest(c, r).request = r
  BY DEF WithRequest, Connection
<1>3. \A i \in DOMAIN q : q[i] \in Connection
  OBVIOUS
<1>4. \A i \in DOMAIN q : sent[i] = WithRequest(q[i], r)
  OBVIOUS
<1>5. \A i \in DOMAIN q : sent[i].open => q[i].open /\ sent[i].request = r
  BY <1>2, <1>3, <1>4
<1>6. DOMAIN sent = DOMAIN q /\ sent = [i \in DOMAIN q |-> sent[i]]
  OBVIOUS
<1>7. \A i \in DOMAIN q : sent[i] \in Connection
  BY <1>1, <1>3, <1>4
<1>8. sent \in Seq(Connection) /\ Len(sent) = Len(q)
  BY <1>6, <1>7, OnAll
<1> QED
  BY <1>5, <1>6, <1>8

(* ... and a call that fails closes it. *)
LEMMA CloseAll ==
  ASSUME NEW q \in Seq(Connection), NEW closed,
         closed = [i \in DOMAIN q |-> Closed(q[i])]
  PROVE  /\ closed \in Seq(Connection)
         /\ DOMAIN closed = DOMAIN q /\ Len(closed) = Len(q)
         /\ \A i \in DOMAIN q : ~ closed[i].open
<1>1. \A c \in Connection : Closed(c) \in Connection /\ ~ Closed(c).open
  BY DEF Closed, Connection
<1>2. \A i \in DOMAIN q : q[i] \in Connection
  OBVIOUS
<1>3. \A i \in DOMAIN q : closed[i] = Closed(q[i])
  OBVIOUS
<1>4. \A i \in DOMAIN q : closed[i] \in Connection /\ ~ closed[i].open
  BY <1>1, <1>2, <1>3
<1>5. DOMAIN closed = DOMAIN q /\ closed = [i \in DOMAIN q |-> closed[i]]
  OBVIOUS
<1> QED
  BY <1>4, <1>5, OnAll

LEMMA CallStep ==
  ASSUME ServerIInv, ClientIInv,
         Call \/ Connect \/ SendRequest \/ Return \/ Throw
  PROVE  ServerIInv'
<1> USE RequestAssumption, ResponseAssumption
    DEF ServerIInv, ServerTypeOK, TestTypeOK, OneIsOpen, Open,
        ConnectionsAreServed, InboxIsAnswer, LeftByFailure, StopsForGood,
        Done, network, serverVars
<1>1. CASE Call
  <2>1. asked' \in Request
    BY <1>1, CallType
  <2>2. /\ test = "ready" /\ test' = "connect" /\ result' = "none"
        /\ UNCHANGED serverVars
    BY <1>1 DEF Call
  <2> QED
    BY <2>1, <2>2
<1>2. CASE Connect
  <2> DEFINE new == [request |-> NoRequest, open |-> TRUE]
  <2>1. new \in Connection
    BY DEF Connection
  <2>2. /\ test = "connect" /\ test' = "send"
        /\ server \notin {"none", "starting", "returned"}
        /\ queue' = Append(queue, new)
        /\ UNCHANGED <<server, running, response, last, conn, inbox, asked,
                       result>>
    BY <1>2 DEF Connect
  <2>3. ServerTypeOK' /\ TestTypeOK'
    BY <2>1, <2>2
  <2>4. OneIsOpen'
    <3>1. /\ DOMAIN queue' = 1 .. Len(queue) + 1
          /\ Len(queue') = Len(queue) + 1
          /\ queue'[Len(queue) + 1] = new
          /\ \A i \in DOMAIN queue : queue'[i] = queue[i]
      BY <2>1, <2>2
    <3>2. \A i \in DOMAIN queue : ~ queue[i].open
      BY <2>2
    <3> QED
      BY <2>2, <3>1, <3>2
  <2>5. ConnectionsAreServed' /\ InboxIsAnswer' /\ LeftByFailure'
        /\ StopsForGood'
    BY <2>2
  <2> QED
    BY <2>3, <2>4, <2>5
<1>3. CASE SendRequest
  <2>1. /\ test = "send" /\ test' = "receive"
        /\ queue' = [i \in DOMAIN queue |-> WithRequest(queue[i], asked)]
        /\ conn' = WithRequest(conn, asked)
        /\ UNCHANGED <<server, running, response, last, inbox, asked, result>>
    BY <1>3 DEF SendRequest
  <2>2. asked \in Request
    BY <2>1
  <2>3. /\ queue' \in Seq(Connection)
        /\ DOMAIN queue' = DOMAIN queue /\ Len(queue') = Len(queue)
        /\ \A i \in DOMAIN queue :
             queue'[i].open => queue[i].open /\ queue'[i].request = asked
    BY <2>1, <2>2, SendOnAll
  <2>4. CASE conn.open
    <3>1. conn' = [request |-> asked, open |-> TRUE] /\ conn.request = NoRequest
      BY <2>1, <2>4 DEF WithRequest
    <3>2. conn' \in Connection
      BY <2>2, <3>1 DEF Connection
    <3> QED
      BY <2>1, <2>2, <2>3, <2>4, <3>1, <3>2 DEF NoConnection
  <2>5. CASE ~ conn.open
    <3>1. conn' = conn
      BY <2>1, <2>5 DEF WithRequest
    <3>2. ServerTypeOK' /\ TestTypeOK'
      BY <2>1, <2>3, <3>1
    <3>3. OneIsOpen'
      <4>1. \A i \in DOMAIN queue' : queue'[i].open =>
              queue'[i].request = asked /\ i = Len(queue')
        BY <2>3
      <4> QED
        BY <2>1, <2>2, <2>5, <3>1, <4>1
    <3>4. ConnectionsAreServed'
      BY <2>1, <2>3, <3>1
    <3>5. InboxIsAnswer' /\ LeftByFailure' /\ StopsForGood'
      BY <2>1
    <3> QED
      BY <3>2, <3>3, <3>4, <3>5
  <2> QED
    BY <2>4, <2>5
<1>4. CASE Return
  <2>1. /\ test = "receive" /\ test' = "ready"
        /\ inbox # "none" /\ inbox' = "none" /\ result' = inbox
        /\ conn' = Closed(conn)
        /\ UNCHANGED <<server, running, response, last, queue, asked>>
    BY <1>4 DEF Return
  <2>2. queue = <<>> /\ server \notin {"recv", "parse", "send"}
    BY <2>1
  <2>3. ServerTypeOK' /\ TestTypeOK'
    BY <2>1 DEF Connection, Closed
  <2>4. OneIsOpen' /\ InboxIsAnswer' /\ LeftByFailure' /\ StopsForGood'
    BY <2>1, <2>2 DEF Closed
  <2>5. conn = NoConnection => conn' = NoConnection
    BY <2>1 DEF NoConnection, Closed
  <2>6. ConnectionsAreServed'
    BY <2>1, <2>2, <2>5
  <2> QED
    BY <2>3, <2>4, <2>6
<1>5. CASE Throw
  <2>1. /\ test' = "ready" /\ inbox' = "none" /\ result' = "error"
        /\ test \in {"connect", "send", "receive"}
        /\ queue' = [i \in DOMAIN queue |-> Closed(queue[i])]
        /\ conn' = Closed(conn)
        /\ UNCHANGED <<server, running, response, last, asked>>
    BY <1>5 DEF Throw
  <2>2. Closed(conn) \in Connection /\ ~ Closed(conn).open
        /\ Closed(conn).request = conn.request
    BY DEF Closed, Connection
  <2>3. /\ queue' \in Seq(Connection)
        /\ DOMAIN queue' = DOMAIN queue /\ Len(queue') = Len(queue)
        /\ \A i \in DOMAIN queue : ~ queue'[i].open
        /\ conn' \in Connection
    BY <2>1, <2>2, CloseAll
  <2>4. ServerTypeOK' /\ TestTypeOK'
    BY <2>1, <2>3
  <2>5. OneIsOpen'
    <3>1. \A i \in DOMAIN queue' : ~ queue'[i].open
      BY <2>1, <2>2, <2>3
    <3>2. ~ conn'.open
      BY <2>1, <2>2
    <3> QED
      BY <2>1, <3>1, <3>2
  <2>6. ConnectionsAreServed'
    <3>1. queue = <<>> => queue' = <<>>
      BY <2>3
    <3>2. conn = NoConnection => conn' = NoConnection
      BY <2>1 DEF Closed, NoConnection
    <3>3. conn'.request = conn.request
      BY <2>1, <2>2
    <3> QED
      BY <2>1, <3>1, <3>2, <3>3
  <2>7. InboxIsAnswer' /\ LeftByFailure' /\ StopsForGood'
    BY <2>1
  <2> QED
    BY <2>4, <2>5, <2>6, <2>7
<1> QED
  BY <1>1, <1>2, <1>3, <1>4, <1>5

(* The thread of the server. *)
LEMMA ServerThreadStep ==
  ASSUME ServerIInv, ServerStep
  PROVE  ServerIInv'
<1> USE RequestAssumption, ResponseAssumption
    DEF ServerIInv, ServerTypeOK, TestTypeOK, OneIsOpen, Open,
        ConnectionsAreServed, InboxIsAnswer, LeftByFailure, StopsForGood,
        Done, network
<1> UNCHANGED <<clientVars, test, asked, result>>
  BY DEF ServerStep
<1>1. CASE BindFails \/ Listen
  BY <1>1 DEF BindFails, Listen
<1>2. CASE Loop \/ SelectTimesOut
  BY <1>2 DEF Loop, SelectTimesOut
<1>3. CASE Accept
  <2>1. /\ server = "select" /\ queue # <<>> /\ queue' = Tail(queue)
        /\ \/ server' = "recv" /\ conn' = Head(queue)
           \/ server' = "loop" /\ conn' = conn
        /\ UNCHANGED <<running, response, last, inbox>>
    BY <1>3 DEF Accept
  <2>2. /\ Head(queue) = queue[1] /\ Head(queue) \in Connection
        /\ Tail(queue) \in Seq(Connection)
        /\ Len(Tail(queue)) = Len(queue) - 1
        /\ DOMAIN Tail(queue) = 1 .. Len(queue) - 1
        /\ \A i \in DOMAIN Tail(queue) : Tail(queue)[i] = queue[i + 1]
    BY <2>1
  <2>3. ServerTypeOK' /\ TestTypeOK'
    BY <2>1, <2>2
  <2>4. Head(queue).open => Tail(queue) = <<>>
    BY <2>1, <2>2
  <2>5. OneIsOpen'
    <3>1. \A i \in DOMAIN queue' :
            /\ queue'[i] = queue[i + 1] /\ i + 1 \in DOMAIN queue
            /\ i + 1 = Len(queue) => i = Len(queue')
      BY <2>1, <2>2
    <3>2. conn'.open => Open(conn') /\ queue' = <<>> /\ test \in {"send", "receive"}
      BY <2>1, <2>2, <2>4 DEF NoConnection
    <3> QED
      BY <2>1, <3>1, <3>2
  <2>6. ConnectionsAreServed' /\ InboxIsAnswer' /\ LeftByFailure'
        /\ StopsForGood'
    BY <2>1
  <2> QED
    BY <2>3, <2>5, <2>6
<1>4. CASE Receive \/ ReceiveNothing
  BY <1>4 DEF Receive, ReceiveNothing
<1>5. CASE Parse
  BY <1>5 DEF Parse, Connection
<1>6. CASE Send
  BY <1>6 DEF Send
<1>7. CASE Close
  BY <1>7 DEF Close, NoConnection, Connection
<1>8. CASE LoopEnds
  <2>1. /\ server = "loop" /\ ~ running /\ server' = "returned"
        /\ queue' = <<>>
        /\ UNCHANGED <<running, response, last, conn, inbox>>
    BY <1>8 DEF LoopEnds
  <2> QED
    BY <2>1
<1> QED
  BY <1>1, <1>2, <1>3, <1>4, <1>5, <1>6, <1>7, <1>8
  DEF ServerStep, ServerThread

-----------------------------------------------------------------------------
LEMMA InitIInv == Init => HttpIInv
<1> SUFFICES ASSUME Init PROVE HttpIInv
  OBVIOUS
<1>1. ClientIInv
  <2>1. once = FALSE /\ lib = 0 /\ clients = <<>> /\ orphaned = FALSE
    BY DEF Init, ClientInit
  <2>2. <<>> \in Seq(Headers({"default", "initial"}))
    OBVIOUS
  <2>3. ClientTypeOK
    BY <2>1, <2>2 DEF ClientTypeOK
  <2> QED
    BY <2>1, <2>3 DEF ClientIInv, OnceIsFirst, LibraryIsUp
<1>2. ServerIInv
  <2>1. /\ server = "none" /\ running = FALSE /\ response = DefaultResponse
        /\ last = NoRequest /\ queue = <<>> /\ conn = NoConnection
        /\ inbox = "none"
    BY DEF Init, ServerInit
  <2>2. test = "idle" /\ asked = NoRequest /\ result = "none"
    BY DEF Init
  <2>3. NoConnection \in Connection /\ ~ NoConnection.open
    BY DEF NoConnection, Connection
  <2>4. ServerTypeOK
    <3>1. <<>> \in Seq(Connection)
      OBVIOUS
    <3> QED
      BY <2>1, <2>3, <3>1 DEF ServerTypeOK
  <2>5. TestTypeOK
    BY <2>2 DEF TestTypeOK
  <2> QED
    BY <2>1, <2>2, <2>3, <2>4, <2>5
    DEF ServerIInv, OneIsOpen, ConnectionsAreServed, InboxIsAnswer,
        LeftByFailure, StopsForGood, Done
<1> QED
  BY <1>1, <1>2, PartsOfIInv

LEMMA StepIInv == HttpIInv /\ [Next]_vars => HttpIInv'
<1> SUFFICES ASSUME HttpIInv, [Next]_vars
             PROVE  HttpIInv'
  OBVIOUS
<1>1. ClientIInv /\ ServerIInv
  BY PartsOfIInv
<1>2. ClientIInv'
  <2>1. MakeClient \/ MakeClientFails \/ DestroyClient \/ UNCHANGED clientVars
    BY DEF Next, vars, NewServer, ServerIsMade, DeleteServer, ServerIsDeleted,
           NewClient, DeleteClient, ChangeResponse, Call, Connect,
           SendRequest, Return, Throw, ServerStep
  <2> QED
    BY <1>1, <2>1, ClientStep
<1>3. ServerIInv'
  <2>1. CASE UNCHANGED vars
    BY <1>1, <2>1
    DEF vars, serverVars, network, ServerIInv, ServerTypeOK, TestTypeOK,
        OneIsOpen, Open, ConnectionsAreServed, InboxIsAnswer, LeftByFailure,
        StopsForGood, Done
  <2>2. CASE Next
    BY <1>1, <2>2, TestStep, CallStep, ServerThreadStep DEF Next
  <2> QED
    BY <2>1, <2>2
<1>4. ClientIInv' /\ ServerIInv' => HttpIInv'
  BY PartsOfIInv, PTL
<1> QED
  BY <1>2, <1>3, <1>4

(* What the run checks as HttpIInv holds for any constants. *)
THEOREM HttpInvariance == Spec => []HttpIInv
BY InitIInv, StepIInv, PTL DEF Spec

(* Tests whose calls all return have no data race with the server. *)
THEOREM NoRaces == Spec => []TestsDoNotRace
<1>1. HttpIInv => TestsDoNotRace
  BY DEF HttpIInv
<1> QED
  BY <1>1, HttpInvariance, PTL

(* The library is initialised as long as no client was destroyed beside    *)
(* the ones that live.                                                     *)
THEOREM LibraryStaysUp == Spec => []LibraryIsUp
<1>1. HttpIInv => LibraryIsUp
  BY DEF HttpIInv
<1> QED
  BY <1>1, HttpInvariance, PTL

(* A call that returns gives the response that was set, and its request is *)
(* what the server has recorded.                                           *)
LEMMA ReturnServes ==
  ASSUME HttpIInv, [Next]_vars,
         test = "receive", test' = "ready", result' # "error"
  PROVE  /\ result' = response
         /\ last.id = asked.id
         /\ last.headers = asked.headers
         /\ asked.body \in {"none", "text"} => last.body = asked.body
<1>1. Return
  BY DEF Next, vars, NewServer, ServerIsMade, DeleteServer, ServerIsDeleted,
         NewClient, DeleteClient, ChangeResponse, Call, Connect, SendRequest,
         Throw, ServerStep
<1>2. result' = inbox /\ inbox # "none"
  BY <1>1 DEF Return
<1>3. inbox = response /\ last = Received(asked)
  BY <1>2 DEF HttpIInv, InboxIsAnswer
<1>4. asked \in Request
  BY DEF HttpIInv, TypeOK, OneIsOpen
<1>5. /\ Received(asked).id = asked.id
      /\ Received(asked).headers = asked.headers
      /\ asked.body \in {"none", "text"} => Received(asked).body = asked.body
  BY <1>4 DEF Received, Request
<1> QED
  BY <1>2, <1>3, <1>5

THEOREM CallsAreServedTheorem == Spec => CallsAreServed
<1>1. HttpIInv /\ [Next]_vars =>
        [test = "receive" /\ test' = "ready" /\ result' # "error" =>
           /\ result' = response
           /\ last.id = asked.id
           /\ last.headers = asked.headers
           /\ asked.body \in {"none", "text"} => last.body = asked.body]_vars
  BY ReturnServes
<1> QED
  BY <1>1, HttpInvariance, PTL DEF Spec, CallsAreServed
=============================================================================
