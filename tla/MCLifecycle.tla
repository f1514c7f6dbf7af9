----------------------------- MODULE MCLifecycle -----------------------------
(***************************************************************************)
(* Lifecycle for TLC.  The last application is there for sessions alone:   *)
(* what happens to tunnels and to the readers of the viewer is looked at   *)
(* with one application less.                                              *)
(***************************************************************************)
EXTENDS Lifecycle

Focus ==
  phase[MaxInstances] # "unborn" =>
    /\ \A u \in Slots : tun[u] = NoTunnel
    /\ \A i \in Instances : ~viewing[i]
=============================================================================
