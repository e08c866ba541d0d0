----------------------------- MODULE MCGateway -----------------------------
(***************************************************************************)
(* Instance of Gateway for TLC: a client of each kind of registration and  *)
(* one whose session names none, one Entra token per user, one of them     *)
(* without "sub", and three environments: two that differ in signing key,  *)
(* regimes and audit database, and one whose second backend has a misspelt *)
(* regime of its own.                                                      *)
(***************************************************************************)
EXTENDS Gateway, TLC

CONSTANTS crm, ledger, k1, k2, t1, t2

MCClients == {[id |-> "https://client/doc", url |-> "https with host and path"],
              [id |-> "uuid", url |-> "none"], [id |-> "", url |-> "none"]}

Claim(sub, oid, azp, appid) == [sub |-> sub, oid |-> oid, azp |-> azp, appid |-> appid]
MCClaims ==
    t1 :> Claim("alice", "object-a", "broker", "") @@ t2 :> Claim("", "object-b", "", "broker")
MCUserOf == t1 :> "alice" @@ t2 :> "object-b"

Environment(key, profile, own, dsn) ==
    [key |-> key, missing |-> {}, profile |-> profile, own |-> crm :> "" @@ ledger :> own,
     dsn |-> dsn]
MCEnvironments ==
    {Environment(k1, "obo", "", TRUE), Environment(k2, "m2m", "obo", FALSE),
     Environment(k1, "m2m", "ob0", TRUE)}

RequestSymmetry == Permutations(Requests)
=============================================================================
