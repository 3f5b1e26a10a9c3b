------------------------------ MODULE MCServer ------------------------------
(* Two workers and three clients, an error of accept and a worker that      *)
(* fails.                                                                   *)
EXTENDS Server
=============================================================================
