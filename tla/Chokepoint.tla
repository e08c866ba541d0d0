---------------------------- MODULE Chokepoint ----------------------------
(***************************************************************************)
(* What the gateway promises about one (request, backend) pair, whatever   *)
(* the order of its coroutines: the policy decision comes first, a         *)
(* credential for the backend exists only after an "allow", the backend    *)
(* sees a credential only after it exists, and at most one audit verdict   *)
(* is recorded, one that agrees with how far the pair got.                 *)
(*                                                                         *)
(* The opening lines of app/middleware/opa_pep.py and the docstring of     *)
(* OpaPep._authorize ("Decide, mint on allow, proceed, audit") state this  *)
(* order.  OpaPep.tla is the detailed machine, shown to implement it.      *)
(***************************************************************************)

CONSTANT Pairs      \* every (request, backend) pair the gateway may serve

VARIABLES
    phase,          \* how far the pair has got
    verdict         \* the status its audit row carries, "none" before it

vars == <<phase, verdict>>

Phases == {"undecided", "denied", "allowed", "minted", "reached"}
Verdicts == {"none", "denied", "error", "ok", "upstream_error"}

Init ==
    /\ phase = [p \in Pairs |-> "undecided"]
    /\ verdict = [p \in Pairs |-> "none"]

(* The policy decision point answers; no answer counts as "denied".        *)
Decide(p) ==
    /\ phase[p] = "undecided"
    /\ \E d \in {"denied", "allowed"} : phase' = [phase EXCEPT ![p] = d]
    /\ UNCHANGED verdict

(* A backend credential comes into existence: only once allowed, and never *)
(* after the pair was written off as an error.                             *)
Mint(p) ==
    /\ phase[p] = "allowed"
    /\ verdict[p] = "none"
    /\ phase' = [phase EXCEPT ![p] = "minted"]
    /\ UNCHANGED verdict

(* The backend is contacted with that credential.                          *)
Reach(p) ==
    /\ phase[p] = "minted"
    /\ verdict[p] \in {"none", "ok"}
    /\ phase' = [phase EXCEPT ![p] = "reached"]
    /\ UNCHANGED verdict

Truthful(p, v) ==
    \/ v = "denied" /\ phase[p] = "denied"
    \/ v = "error" /\ phase[p] = "allowed"
    \/ v \in {"ok", "upstream_error"} /\ phase[p] \in {"minted", "reached"}

(* The audit row, at most once.                                            *)
Record(p) ==
    /\ verdict[p] = "none"
    /\ \E v \in Verdicts : Truthful(p, v) /\ verdict' = [verdict EXCEPT ![p] = v]
    /\ UNCHANGED phase

Next == \E p \in Pairs : Decide(p) \/ Mint(p) \/ Reach(p) \/ Record(p)

Spec == Init /\ [][Next]_vars
=============================================================================
