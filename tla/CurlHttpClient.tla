---------------------------- MODULE CurlHttpClient ----------------------------
(***************************************************************************)
(* CurlHttpClient objects: libcurl's process-wide initialisation, which    *)
(* the first constructor and every destructor touch, and the headers of a  *)
(* request, a map from names to where their value comes from.              *)
(*                                                                         *)
(* External: libcurl counts curl_global_init() against                     *)
(* curl_global_cleanup(), and curl_easy_init() initialises what is not.    *)
(***************************************************************************)
EXTENDS Sequences, Naturals

CONSTANTS HeaderNames, UserAgent

ASSUME HeaderAssumption == UserAgent \in HeaderNames

VARIABLES
  once,     \* curlInitializationFlag
  lib,      \* how often libcurl is initialised
  clients,  \* initialHeaders_ of the clients that live, by age
  orphaned  \* a client was destroyed beside the ones that live

clientVars == <<once, lib, clients, orphaned>>

Headers(places) == UNION {[S -> places] : S \in SUBSET HeaderNames}

DefaultHeaders == [h \in {UserAgent} |-> "default"]

(* mergeHeaders(): map::insert() keeps what is there. *)
MergeHeaders(init, over) ==
  [h \in DOMAIN init \cup DOMAIN over |->
     IF h \in DOMAIN over THEN over[h] ELSE init[h]]

ClientInit == /\ once = FALSE
              /\ lib = 0
              /\ clients = <<>>
              /\ orphaned = FALSE

(* makeCurlHandler(): call_once(), then curl_easy_init(). *)
Initialised == IF once THEN lib ELSE lib + 1

MakeClient ==
  /\ once' = TRUE
  /\ lib' = IF Initialised = 0 THEN 1 ELSE Initialised
  /\ \E initial \in Headers({"initial"}) :
       clients' = Append(clients, MergeHeaders(DefaultHeaders, initial))
  /\ orphaned' = FALSE

(* Mutant: a constructor that throws cleans up. *)
MakeClientFailsCleanly ==
  /\ once' = TRUE
  /\ lib' = 0
  /\ UNCHANGED <<clients, orphaned>>

(* There is no handle: the constructor throws. *)
MakeClientFails ==
  /\ once' = TRUE
  /\ lib' \in {Initialised, IF Initialised = 0 THEN 1 ELSE Initialised}
  /\ UNCHANGED <<clients, orphaned>>

(* The destructor of the youngest client. *)
DestroyClient ==
  /\ clients # <<>>
  /\ clients' = [i \in 1 .. Len(clients) - 1 |-> clients[i]]
  /\ lib' = IF lib = 0 THEN 0 ELSE lib - 1
  /\ orphaned' = (Len(clients) > 1)
  /\ UNCHANGED once

(* While a client lives the library it was made with is initialised, and   *)
(* only once - unless a younger client was destroyed beside it, which one  *)
(* of the tests does: every destructor cleans up, but only the first       *)
(* constructor of the process initialises.                                 *)
LibraryIsUp == /\ lib <= 1
               /\ clients # <<>> /\ ~ orphaned => lib = 1
=============================================================================
