----------------------------- MODULE MCBackends -----------------------------
(***************************************************************************)
(* Instance of Backends for TLC: three calls, one account and one customer *)
(* that exist, an amount below a cent, one of whole cents and a negative   *)
(* one.                                                                    *)
(***************************************************************************)
EXTENDS Backends, TLC

CONSTANTS acc, cust, smb, vip

MCOpening == acc :> 100
MCFirstTier == cust :> smb
MCAmounts == {4, 20, -30}

CallSymmetry == Permutations(Calls)
=============================================================================
