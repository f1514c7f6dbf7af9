------------------------------- MODULE MCGate -------------------------------
(***************************************************************************)
(* Gate for TLC.  Entry 0 is the owner's, entry 1 a guest's; neither has a *)
(* password in the environment unless the name says so.                    *)
(***************************************************************************)
EXTENDS Gate

FromFile  == [e \in Entries |-> NoPassword]
OwnerEnv  == [e \in Entries |-> IF e = 0 THEN "p" ELSE NoPassword]
Distinct  == [e \in Entries |-> IF e = 0 THEN "p" ELSE "q"]
InOrder   == [e \in Entries |-> CASE e = 0 -> "A" [] e = 1 -> "B" [] e = 2 -> "C"]
=============================================================================
