----------------------------- MODULE MCAccessLog -----------------------------
(***************************************************************************)
(* AccessLogger for TLC.  As the log and the key leave each other alone,   *)
(* they are looked at one at a time: calls are made while no key is looked *)
(* for, and by two loggers at most.  Calls of log() are interchangeable.   *)
(***************************************************************************)
EXTENDS AccessLogger, TLC

Focus ==
  \/ stamped = MaxFile
  \/ /\ logger < MaxLoggers
     /\ hmacKey = <<>> /\ keyFile = <<>>
     /\ \A g \in Loggers : keyInit[g] \in {"none", "read", "done"}

Symmetry == Permutations(Calls)
=============================================================================
