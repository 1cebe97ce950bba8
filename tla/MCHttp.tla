-------------------------------- MODULE MCHttp --------------------------------
(* Two workloads in one run: one client whose calls differ in their        *)
(* bodies, or two clients and calls that differ in their headers.          *)
EXTENDS Http

VARIABLE load

LoadInit == Init /\ load \in {"bodies", "headers"}

Plain(headers) == DOMAIN headers = {UserAgent}

OneClient == /\ Len(clients') <= 1
             /\ \A i \in DOMAIN clients' : Plain(clients'[i])
             /\ asked' # NoRequest =>
                  Plain(asked'.headers) /\ asked'.body # "text"

TwoCalls == /\ asked' # NoRequest => asked'.id <= 2 /\ asked'.body = "text"
            /\ response' = response

LoadNext == /\ Next
            /\ load = "bodies" => OneClient
            /\ load = "headers" => TwoCalls
            /\ UNCHANGED load

LoadSpec == LoadInit /\ [][LoadNext]_<<vars, load>> /\ Fairness
=============================================================================
