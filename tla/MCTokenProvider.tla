-------------------------- MODULE MCTokenProvider --------------------------
(***************************************************************************)
(* Instances of TokenProvider for TLC.  A unit of time stands for the skew *)
(* of 60 s: what matters is lifetimes below, at and above Skew, exchanges  *)
(* that take none of it, all of it or more, and a clock that passes        *)
(* expiry.                                                                 *)
(***************************************************************************)
EXTENDS TokenProvider

(* No module chooses, and only users that brought a token are alike.       *)
Symmetry == Permutations(Callers) \cup Permutations(Users \ Tokenless)
=============================================================================
