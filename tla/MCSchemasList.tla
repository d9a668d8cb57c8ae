--------------------------- MODULE MCSchemasList ---------------------------
(***************************************************************************)
(* Small instances of SchemasList for TLC.                                 *)
(***************************************************************************)
EXTENDS SchemasList, TLC
=============================================================================
