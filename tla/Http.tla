--------------------------------- MODULE Http ---------------------------------
(***************************************************************************)
(* The client and the server of utils/http as the tests use them: one      *)
(* thread makes servers and clients, sets responses, calls the server      *)
(* through a client and looks at what the server has recorded.  A call     *)
(* that takes too long or loses its connection ends with an exception, and *)
(* leaves a closed connection to the server.                               *)
(***************************************************************************)
EXTENDS TestHttpServer, CurlHttpClient

CONSTANTS MaxCalls,   \* bound: calls to one server
          MaxClients  \* bound: clients that live at the same time

VARIABLES
  test,    \* where the thread of the test is
  asked,   \* the request of its last call to this server
  result   \* how that call ended: a response, or "error"

vars == <<serverVars, clientVars, test, asked, result>>

Request == [id : 1 .. MaxCalls,
            body : {"none", "text", "line", "long"},
            headers : Headers({"default", "initial", "request"})]

ASSUME RequestAssumption == NoRequest \notin Request
ASSUME BoundsAssumption == MaxCalls \in Nat /\ MaxClients \in Nat

Init == /\ ServerInit
        /\ ClientInit
        /\ test = "idle"
        /\ asked = NoRequest
        /\ result = "none"

-----------------------------------------------------------------------------
(* The test makes and destroys its objects.                                *)

NewServer == /\ test = "idle"
             /\ StartServer
             /\ test' = "wait"
             /\ asked' = NoRequest
             /\ result' = "none"
             /\ UNCHANGED clientVars

ServerIsMade == /\ test = "wait"
                /\ WaitForStart
                /\ test' = "ready"
                /\ UNCHANGED <<clientVars, asked, result>>

DeleteServer == /\ test = "ready"
                /\ StopServer
                /\ test' = "join"
                /\ UNCHANGED <<clientVars, asked, result>>

ServerIsDeleted == /\ test = "join"
                   /\ Join
                   /\ test' = "idle"
                   /\ UNCHANGED <<clientVars, asked, result>>

NewClient == /\ test \in {"idle", "ready"}
             /\ Len(clients) < MaxClients
             /\ MakeClient \/ MakeClientFails
             /\ UNCHANGED <<serverVars, test, asked, result>>

DeleteClient == /\ test \in {"idle", "ready"}
                /\ DestroyClient
                /\ UNCHANGED <<serverVars, test, asked, result>>

(* The members are written without a lock.  When the server is just        *)
(* building a response from them the strings it reads may be gone.         *)
ChangeResponse == /\ test = "ready"
                  /\ SetResponse
                  /\ \/ UNCHANGED test
                     \/ server = "send" /\ test' = "crashed"
                  /\ UNCHANGED <<clientVars, asked, result>>

-----------------------------------------------------------------------------
(* performRequest().                                                       *)

NextId == IF asked = NoRequest THEN 1 ELSE asked.id + 1

(* Only POST and PUT have a body. *)
Call == /\ test = "ready"
        /\ NextId <= MaxCalls
        /\ \E c \in DOMAIN clients, headers \in Headers({"request"}),
              body \in {"none", "text", "line", "long"} :
             asked' = [id |-> NextId, body |-> body,
                       headers |-> MergeHeaders(clients[c], headers)]
        /\ test' = "connect"
        /\ result' = "none"
        /\ UNCHANGED <<serverVars, clientVars>>

Connect == /\ test = "connect"
           /\ server \notin {"none", "starting", "returned"}
           /\ queue' = Append(queue, [request |-> NoRequest, open |-> TRUE])
           /\ test' = "send"
           /\ UNCHANGED <<server, running, response, last, conn, inbox,
                          clientVars, asked, result>>

(* What a connection that is open gets. *)
WithRequest(c, r) == IF c.open THEN [request |-> r, open |-> TRUE] ELSE c

SendRequest == /\ test = "send"
               /\ queue' = [i \in DOMAIN queue |-> WithRequest(queue[i], asked)]
               /\ conn' = WithRequest(conn, asked)
               /\ test' = "receive"
               /\ UNCHANGED <<server, running, response, last, inbox,
                              clientVars, asked, result>>

Closed(c) == [request |-> c.request, open |-> FALSE]

(* The response is there. *)
Return == /\ test = "receive"
          /\ inbox # "none"
          /\ result' = inbox
          /\ inbox' = "none"
          /\ conn' = Closed(conn)
          /\ test' = "ready"
          /\ UNCHANGED <<server, running, response, last, queue, clientVars,
                         asked>>

(* Mutant: a call that fails does not close its connection. *)
ThrowStillOpen == /\ test \in {"connect", "send", "receive"}
                  /\ result' = "error"
                  /\ test' = "ready"
                  /\ UNCHANGED <<serverVars, clientVars, asked>>

(* Refused, reset, out of time: performRequest() throws. *)
Throw == /\ test \in {"connect", "send", "receive"}
         /\ result' = "error"
         /\ queue' = [i \in DOMAIN queue |-> Closed(queue[i])]
         /\ conn' = Closed(conn)
         /\ inbox' = "none"
         /\ test' = "ready"
         /\ UNCHANGED <<server, running, response, last, clientVars, asked>>

-----------------------------------------------------------------------------
ServerStep == ServerThread /\ UNCHANGED <<clientVars, test, asked, result>>

Next == /\ test # "crashed"
        /\ \/ NewServer \/ ServerIsMade \/ DeleteServer \/ ServerIsDeleted
           \/ NewClient \/ DeleteClient \/ ChangeResponse
           \/ Call \/ Connect \/ SendRequest \/ Return \/ Throw
           \/ ServerStep

(* The thread of the server runs, and join() returns when it can. *)
Fairness == /\ WF_vars(test # "crashed" /\ ServerStep)
            /\ WF_vars(ServerIsDeleted)

Spec == Init /\ [][Next]_vars /\ Fairness

-----------------------------------------------------------------------------
(* Properties.                                                             *)

Connection == [request : Request \cup {NoRequest}, open : BOOLEAN]

TypeOK ==
  /\ server \in {"none", "starting", "loop", "select", "recv", "parse",
                 "send", "close", "returned"}
  /\ running \in BOOLEAN
  /\ response \in Responses \cup {DefaultResponse}
  /\ last = NoRequest \/ \E r \in Request : last = Received(r)
  /\ queue \in Seq(Connection)
  /\ conn \in Connection
  /\ inbox \in Responses \cup {DefaultResponse, "none"}
  /\ once \in BOOLEAN
  /\ lib \in Nat
  /\ clients \in Seq(Headers({"default", "initial"}))
  /\ orphaned \in BOOLEAN
  /\ test \in {"idle", "wait", "ready", "join", "connect", "send", "receive",
               "crashed"}
  /\ asked \in Request \cup {NoRequest}
  /\ result \in Responses \cup {DefaultResponse, "none", "error"}

(* Only the call in progress has an open connection, the youngest one.     *)
Open(c) == /\ c.open
           /\ c.request = IF test = "send" THEN NoRequest ELSE asked

OneIsOpen ==
  /\ test \in {"connect", "send", "receive"} => asked # NoRequest
  /\ \A i \in DOMAIN queue : queue[i].open =>
       Open(queue[i]) /\ i = Len(queue) /\ test \in {"send", "receive"}
  /\ conn.open => Open(conn) /\ queue = <<>> /\ test \in {"send", "receive"}

(* The server has a connection while it serves one. *)
ConnectionsAreServed ==
  /\ server \in {"none", "starting", "returned"} => queue = <<>>
  /\ server \notin {"recv", "parse", "send", "close"} => conn = NoConnection
  /\ server \in {"parse", "send"} => conn.request # NoRequest
  /\ server = "send" => last = Received(conn.request)

(* When a response has come back the server is done with the call. *)
Done == queue = <<>> /\ server \notin {"recv", "parse", "send"}

InboxIsAnswer ==
  inbox # "none" => /\ test = "receive" /\ Done
                    /\ inbox = response
                    /\ last = Received(asked)

(* Only a call that failed leaves something for the server to do. *)
LeftByFailure ==
  test \notin {"connect", "send", "receive"} /\ result # "error" => Done

(* The destructor's running_ = false is not overwritten by run(). *)
StopsForGood == /\ test \notin {"wait", "idle"} => server # "starting"
                /\ test = "join" => ~ running

OnceIsFirst == ~ once => lib = 0 /\ clients = <<>>

(* The test's thread and the server's meet in response and in what was     *)
(* recorded only after a call that failed: a call that returns has seen    *)
(* the server finish with both.  So a test whose calls all return has no   *)
(* data race.                                                              *)
TestsDoNotRace ==
  test = "ready" /\ server \in {"parse", "send"} => result = "error"

HttpIInv == /\ TypeOK
            /\ OneIsOpen
            /\ ConnectionsAreServed
            /\ InboxIsAnswer
            /\ LeftByFailure
            /\ StopsForGood
            /\ OnceIsFirst
            /\ LibraryIsUp
            /\ TestsDoNotRace

(* A call that returns gives the response that was set before it, and the  *)
(* server has recorded its request, not that of an earlier call that       *)
(* failed and was answered late: every header that was asked for, the ones *)
(* of the call over the ones of the client over the default, and no other. *)
CallsAreServed ==
  [][test = "receive" /\ test' = "ready" /\ result' # "error" =>
       /\ result' = response
       /\ last.id = asked.id
       /\ last.headers = asked.headers
       /\ asked.body \in {"none", "text"} => last.body = asked.body]_vars

(* The destructor of the server returns: also when a connection was left   *)
(* behind, and when the server never came up.                              *)
ServerStops == test = "join" ~> test # "join"
=============================================================================
