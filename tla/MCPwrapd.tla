------------------------------ MODULE MCPwrapd ------------------------------
(***************************************************************************)
(* Small instances of Pwrapd for TLC.                                      *)
(***************************************************************************)
EXTENDS Pwrapd, TLC
=============================================================================
