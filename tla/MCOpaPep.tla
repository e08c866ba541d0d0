------------------------------ MODULE MCOpaPep ------------------------------
(***************************************************************************)
(* Instances of OpaPep for TLC: two backends, one per downstream regime,   *)
(* one governed tool on each, and one ungoverned name that both serve.     *)
(* bob lacks the role of the tool on the OBO backend, whose tokens carry   *)
(* no jti.                                                                 *)
(***************************************************************************)
EXTENDS OpaPep, TLC

CONSTANTS crm, ledger, alice, bob, listCustomers, postEntry, ghost

MCProfile == crm :> "m2m" @@ ledger :> "obo"
MCBothObo == crm :> "obo" @@ ledger :> "obo"
MCServerOf == listCustomers :> crm @@ postEntry :> ledger
MCServed == crm :> {listCustomers, ghost} @@ ledger :> {postEntry, ghost}
MCOpaque == {t \in Tokens : t.aud = ledger}
MCEntitled == [u \in Users |-> IF u = bob THEN {listCustomers} ELSE Tools]

RequestSymmetry == Permutations(Requests)
=============================================================================
