----------------------------- MODULE MCRealtime -----------------------------
(***************************************************************************)
(* Small instance of  Realtime for TLC: two tenants, one subscriber with   *)
(* and one without a table and user filter.                                *)
(***************************************************************************)
EXTENDS Realtime, TLC

CONSTANTS s1, s2

Change(schema, table, user) == [schema |-> schema, table |-> table, user |-> user]
\* One change everybody at a wants, one for the unfiltered subscriber only (its
\* other half of the filter excludes it), one of another tenant.
MCEvent == {Change("a", "docs", "ann"), Change("a", "docs", "bob"), Change("b", "docs", "ann")}
MCFilter == (s1 :> Change("a", All, All)) @@ (s2 :> Change("a", "docs", "ann"))
=============================================================================
