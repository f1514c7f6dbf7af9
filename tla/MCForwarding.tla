---------------------------- MODULE MCForwarding ----------------------------
(***************************************************************************)
(* Forwarding for TLC: requests of the browser are interchangeable.        *)
(***************************************************************************)
EXTENDS Forwarding, TLC

Symmetry == Permutations(Requests) \cup Permutations(Tokens)
=============================================================================
