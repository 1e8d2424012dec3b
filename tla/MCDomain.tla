------------------------------ MODULE MCDomain ------------------------------
(***************************************************************************)
(* Instance of Domain for TLC.                                            *)
(***************************************************************************)
EXTENDS Domain
=============================================================================
