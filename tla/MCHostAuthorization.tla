------------------------ MODULE MCHostAuthorization ------------------------
(* An instance of HostAuthorization for TLC; the constants are in the .cfg. *)
EXTENDS HostAuthorization
=============================================================================
