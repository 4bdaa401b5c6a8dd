---------------------------- MODULE RpcClientMC ----------------------------
(***************************************************************************)
(* One lone call and one batch of two, whose replies can be mixed.          *)
(***************************************************************************)
EXTENDS RpcClient, TLC

CONSTANTS lone, batch, r1, r2, r3

MCIdsOf == (lone :> <<r1>>) @@ (batch :> <<r2, r3>>)
=============================================================================
