--------------------------- MODULE MCPsqlConnection ---------------------------
(* Three worker threads share the connection; three distinguishable        *)
(* statements, enough for two transactions to interleave and for one of    *)
(* them to fail half way.                                                  *)
EXTENDS PsqlConnection
=============================================================================
