--------------------------- MODULE MCSubscription ---------------------------
(***************************************************************************)
(* Small instance of Subscription for TLC.                                 *)
(***************************************************************************)
EXTENDS Subscription, TLC
=============================================================================
