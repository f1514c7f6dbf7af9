------------------------------- MODULE MCSetup -------------------------------
(***************************************************************************)
(* Setup for TLC: the owner's entry alone, without a password at first;    *)
(* the slots for forms are interchangeable.                                *)
(***************************************************************************)
EXTENDS Setup, TLC

NoEnv      == [e \in Entries |-> NoPassword]
OneAddress == [e \in Entries |-> "A"]
Symmetry   == Permutations(Forms)
=============================================================================
