----------------------------- MODULE MCXMLNewsPS -----------------------------
(* XMLNewsPS alone, against publishers that do anything a publisher may.   *)
EXTENDS XMLNewsPS
=============================================================================
