------------------------------- MODULE Tunnels -------------------------------
(***************************************************************************)
(* WebSocket tunnels through the gate (lib/proxy.mjs, the upgrade handler): *)
(* a client's socket and one to the upstream, which know of each other only *)
(* once the upstream has switched protocols.  The session is looked at     *)
(* before the first await and never again.                                 *)
(*                                                                         *)
(* Each tunnel belongs to the gate that accepted it; the gates are those   *)
(* of the module that extends this one.                                    *)
(***************************************************************************)
EXTENDS Integers

CONSTANTS
  Slots,        \* bound: tunnels at a time
  MaxInstances  \* bound: gates in one behaviour

ASSUME TunnelAssumption == MaxInstances \in Nat \ {0}

Instances == 1..MaxInstances

VARIABLE tun  \* tun[u]: the tunnel in slot u

NoTunnel == [at |-> "idle", gate |-> 0, client |-> "gone"]

\* A tunnel waits for the DSH cookie or for the upstream's answer, is wired, or
\* was answered with nobody left at the other end (orphan) - and is paused for
\* good when the upstream then sends something (stuck).  The client is there, has
\* ended its half, or its socket is destroyed.
Tunnel == [at : {"cookie", "asked", "wired", "orphan", "stuck"}, gate : Instances,
           client : {"here", "ended", "gone"}]

TunnelsInit == tun = [u \in Slots |-> NoTunnel]

TunnelsTypeOK ==
  /\ tun \in [Slots -> Tunnel \cup {NoTunnel}]
  /\ \A u \in Slots : tun[u].at \in {"orphan", "stuck"} => tun[u].client = "gone"

-----------------------------------------------------------------------------
(* Steps of a tunnel.  Definitions named Faulty... are seeded faults:      *)
(* plausible slips in the definition that follows them, never used by a    *)
(* step, kept to see that each property can fail.                          *)

\* The request comes with a session; without a DSH cookie to wait for, the
\* upstream is asked at once.
Upgrade(u, g) ==
  /\ tun[u] = NoTunnel
  /\ \E at \in {"cookie", "asked"} :
       tun' = [tun EXCEPT ![u] = [at |-> at, gate |-> g, client |-> "here"]]

\* The fetch is over, with or without a cookie; whether the client is still
\* there is not asked.
Dial(u) ==
  /\ tun[u].at = "cookie"
  /\ tun' = [tun EXCEPT ![u].at = "asked"]

FaultySwitched(u) ==
  /\ tun[u].at = "asked"
  /\ tun' = [tun EXCEPT ![u].at = IF tun[u].client = "here" THEN "wired" ELSE "orphan"]

\* 101: the two sockets are piped into each other, and each is destroyed when
\* the other one closes - from now on.
Switched(u) ==
  /\ tun[u].at = "asked"
  /\ tun' = [tun EXCEPT ![u].at = IF tun[u].client = "gone" THEN "orphan" ELSE "wired"]

\* Any other answer, passed on without its body, or an error.
NotSwitched(u) ==
  /\ tun[u].at = "asked"
  /\ tun' = [tun EXCEPT ![u] = NoTunnel]

\* FIN: it is passed on through the pipe, now or once there is one.
ClientEnds(u) ==
  /\ tun[u].client = "here"
  /\ tun' = [tun EXCEPT ![u].client = "ended"]

FaultyClientLost(q) == IF q.at = "idle" THEN q ELSE [q EXCEPT !.client = "gone"]

\* The client's socket is destroyed: of a wired tunnel the other one is, too.
ClientLost(q) ==
  IF q.at \in {"idle", "wired"} THEN NoTunnel ELSE [q EXCEPT !.client = "gone"]

ClientResets(u) ==
  /\ tun[u].client # "gone"
  /\ tun' = [tun EXCEPT ![u] = ClientLost(@)]

\* What is sent to nobody waits for a drain that never comes.
UpstreamTalks(u) ==
  /\ tun[u].at = "orphan"
  /\ tun' = [tun EXCEPT ![u].at = "stuck"]

\* The upstream's socket closes; a paused one does not see the end, only a reset.
UpstreamCloses(u) ==
  /\ tun[u].at \in {"wired", "orphan", "stuck"}
  /\ tun' = [tun EXCEPT ![u] = NoTunnel]

TunnelStep(u) ==
  \/ Dial(u)
  \/ Switched(u)
  \/ NotSwitched(u)
  \/ ClientEnds(u)
  \/ ClientResets(u)
  \/ UpstreamTalks(u)
  \/ UpstreamCloses(u)
=============================================================================
