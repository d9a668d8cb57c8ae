-------------------------------- MODULE MCSdk --------------------------------
(***************************************************************************)
(* Small instance of SdkClient for TLC: two users, rows of each in every   *)
(* table the policy is on.                                                 *)
(***************************************************************************)
EXTENDS SdkClient, TLC

CONSTANTS d1, d2, e1, g1, u1, u2
MCTableOf == (d1 :> "documents") @@ (d2 :> "documents") @@ (e1 :> "embeddings") @@ (g1 :> "geo")
MCOwnerOf == (d1 :> u1) @@ (d2 :> u2) @@ (e1 :> u1) @@ (g1 :> u1)
=============================================================================
