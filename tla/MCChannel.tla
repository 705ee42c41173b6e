------------------------------ MODULE MCChannel ------------------------------
(* Instances of Channel for TLC; the constants are given in the .cfg files. *)
EXTENDS Channel
=============================================================================
