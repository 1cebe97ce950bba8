---------------------------- MODULE TestHttpServer ----------------------------
(***************************************************************************)
(* The HTTP server of the tests: an object whose thread accepts one        *)
(* connection after the other, takes a request with one recv() and sends   *)
(* the response that the test has set.  Apart from two atomic flags        *)
(* nothing that the two threads share is protected.                        *)
(*                                                                         *)
(* External: the sockets.  A connection is in the queue of the listening   *)
(* socket until it is accepted; inbox is what has come back to the client  *)
(* on the one connection that it has not closed.                           *)
(***************************************************************************)
EXTENDS Sequences, Naturals

CONSTANTS Responses,       \* what setResponse() sets
          DefaultResponse, \* 200 and "OK"
          NoRequest

ASSUME ResponseAssumption ==
  DefaultResponse \notin Responses /\ "none" \notin Responses \cup {DefaultResponse}

VARIABLES
  server,    \* where the thread is; "none" without a server
  running,   \* running_
  response,  \* statusCode_, responseBody_, responseHeaders_
  last,      \* lastRequest...; NoRequest while requestReceived_ is false
  queue,     \* connections to accept: the request, and open to the client
  conn,      \* the accepted connection
  inbox

network == <<queue, conn, inbox>>

serverVars == <<server, running, response, last, network>>

NoConnection == [request |-> NoRequest, open |-> FALSE]

(* Of a body recv() takes at most 4095 bytes, less what comes before it,   *)
(* and getline() does not keep a newline at its end.                       *)
Received(r) == [r EXCEPT !.body = CASE @ = "long" -> "cut"
                                    [] @ = "line" -> "text"
                                    [] OTHER -> @]

ServerInit == /\ server = "none"
              /\ running = FALSE
              /\ response = DefaultResponse
              /\ last = NoRequest
              /\ queue = <<>>
              /\ conn = NoConnection
              /\ inbox = "none"

-----------------------------------------------------------------------------
(* On the thread of the test.                                              *)

StartServer == /\ server = "none"
               /\ server' = "starting"
               /\ running' = FALSE
               /\ response' = DefaultResponse
               /\ last' = NoRequest
               /\ UNCHANGED network

(* Mutant: the constructor does not wait. *)
DoNotWait == UNCHANGED serverVars

(* The constructor sleeps for 100 ms.  Nothing else sees to it that the    *)
(* thread is in its loop, or gone, when the constructor returns: the sleep *)
(* is taken to be long enough.                                             *)
WaitForStart == server # "starting" /\ UNCHANGED serverVars

(* The destructor up to join() ... *)
StopServer == /\ running' = FALSE
              /\ UNCHANGED <<server, response, last, network>>

(* ... which returns after run(). *)
Join == /\ server = "returned"
        /\ server' = "none"
        /\ UNCHANGED <<running, response, last, network>>

SetResponse == /\ response' \in Responses
               /\ UNCHANGED <<server, running, last, network>>

-----------------------------------------------------------------------------
(* run(), on the thread of the server.                                     *)

(* There is no socket, or the port is taken. *)
BindFails == /\ server = "starting"
             /\ server' = "returned"
             /\ UNCHANGED <<running, response, last, network>>

Listen == /\ server = "starting"
          /\ server' = "loop"
          /\ running' = TRUE
          /\ UNCHANGED <<response, last, network>>

(* running_ is looked at before select(), so that one more connection may  *)
(* be accepted after it was cleared.                                       *)
Loop == /\ server = "loop" /\ running
        /\ server' = "select"
        /\ UNCHANGED <<running, response, last, network>>

SelectTimesOut == /\ server = "select"
                  /\ queue = <<>>
                  /\ server' = "loop"
                  /\ UNCHANGED <<running, response, last, network>>

(* A connection that accept() fails for is out of the queue, too. *)
Accept == /\ server = "select"
          /\ queue # <<>>
          /\ queue' = Tail(queue)
          /\ \/ server' = "recv" /\ conn' = Head(queue)
             \/ server' = "loop" /\ UNCHANGED conn
          /\ UNCHANGED <<running, response, last, inbox>>

(* Mutant: the response is sent before the request is parsed. *)
ReceiveAndAnswer ==
  /\ server = "recv"
  /\ conn.request # NoRequest
  /\ server' = "parse"
  /\ inbox' = IF conn.open THEN response ELSE inbox
  /\ UNCHANGED <<running, response, last, queue, conn>>

(* handleConnection() blocks until there is a request ... *)
Receive == /\ server = "recv"
           /\ conn.request # NoRequest
           /\ server' = "parse"
           /\ UNCHANGED <<running, response, last, network>>

(* ... or the client has closed the connection without one. *)
ReceiveNothing == /\ server = "recv"
                  /\ conn.request = NoRequest /\ ~ conn.open
                  /\ server' = "close"
                  /\ UNCHANGED <<running, response, last, network>>

(* Mutant: the headers of the request before are not cleared. *)
ParseOver ==
  /\ server = "parse"
  /\ LET new == Received(conn.request)
         old == IF last = NoRequest THEN new.headers ELSE last.headers
     IN last' = [new EXCEPT !.headers =
          [h \in DOMAIN @ \cup DOMAIN old |->
             IF h \in DOMAIN @ THEN @[h] ELSE old[h]]]
  /\ server' = "send"
  /\ UNCHANGED <<running, response, network>>

Parse == /\ server = "parse"
         /\ last' = Received(conn.request)
         /\ server' = "send"
         /\ UNCHANGED <<running, response, network>>

(* buildResponse() and send() *)
Send == /\ server = "send"
        /\ server' = "close"
        /\ inbox' = IF conn.open THEN response ELSE inbox
        /\ UNCHANGED <<running, response, last, queue, conn>>

(* Closing a socket with unread bytes of a long request resets the         *)
(* connection: a response that the client has not read yet may be lost.    *)
Close == /\ server = "close"
         /\ server' = "loop"
         /\ conn' = NoConnection
         /\ inbox' \in IF conn.open /\ conn.request # NoRequest
                          /\ conn.request.body = "long"
                       THEN {inbox, "none"} ELSE {inbox}
         /\ UNCHANGED <<running, response, last, queue>>

(* The listening socket is closed, and with it what is in its queue. *)
LoopEnds == /\ server = "loop" /\ ~ running
            /\ server' = "returned"
            /\ queue' = <<>>
            /\ UNCHANGED <<running, response, last, conn, inbox>>

ServerThread == \/ BindFails \/ Listen
                \/ Loop \/ SelectTimesOut \/ Accept \/ LoopEnds
                \/ Receive \/ ReceiveNothing \/ Parse \/ Send \/ Close
=============================================================================
