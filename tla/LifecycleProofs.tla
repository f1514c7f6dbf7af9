--------------------------- MODULE LifecycleProofs ---------------------------
(***************************************************************************)
(* Proofs about Lifecycle, for any number of applications of the plugin,   *)
(* tunnels, sessions and providers.  The applications come one after the   *)
(* other; but for the sessions an older one opens or ends behind its back, *)
(* the Map of the newest has what the file replays to.                     *)
(***************************************************************************)
EXTENDS Lifecycle, TLAPS

USE TunnelAssumption, LifecycleAssumption

-----------------------------------------------------------------------------
(* The inductive invariant                                                 *)

\* What is not applied yet has nothing; what is applied again was disposed first.
InTurn ==
  /\ \A i \in Instances : phase[i] = "unborn" =>
       gate[i] = "none" /\ viewer[i] = "none" /\ ~changing[i] /\ trying[i] = {}
  /\ \A i, j \in Instances : i < j /\ phase[j] # "unborn" => phase[i] = "disposed"

\* A gate that is not up has no tunnels, one that is closed was disposed; a viewer
\* that is up when its application is not came up late, and timers stop first.
Ordered ==
  \A i \in Instances :
    /\ gate[i] \in {"none", "starting"} => \A u \in Slots : tun[u].gate # i
    /\ gate[i] = "closed" => phase[i] = "disposed"
    /\ phase[i] \in {"closing", "disposed"} /\ viewer[i] = "up" => <<"viewer", i>> \in late
    /\ phase[i] # "running" => timers[i] = 0

Newest(i) == \A j \in Instances : j > i => phase[j] = "unborn"

\* A session is opened once.
Fresh ==
  \A i \in Instances :
    /\ trying[i] \cap issued = {}
    /\ \A j \in Instances : j # i => trying[i] \cap trying[j] = {}

\* It can still change the sessions, or serves them.
Alive(i) ==
  \/ phase[i] \in {"running", "closing"}
  \/ changing[i]
  \/ trying[i] # {}
  \/ gate[i] \in {"starting", "up"}

\* A gate that was up in time is that of an application at work.  The Map of the
\* newest application and the file have the same sessions, but for the astray ones,
\* and none that was ended.
InStep ==
  /\ \A i \in Instances :
       gate[i] = "up" /\ <<"gate", i>> \notin late => phase[i] \in {"running", "closing"}
  /\ file \cap over \subseteq astray
  /\ \A i \in Instances : Newest(i) /\ Alive(i) => store[i] \ astray = file \ astray

IInv == /\ LifecycleTypeOK
        /\ InTurn
        /\ Ordered
        /\ Fresh
        /\ InStep
        /\ DisposedIsSilent

-----------------------------------------------------------------------------
(* Tunnels                                                                 *)

LEMMA NoTunnelFields ==
  NoTunnel.at = "idle" /\ NoTunnel.gate = 0 /\ NoTunnel.client = "gone"
BY DEF NoTunnel

\* Destroying the client's socket leaves no client, and no pipe.
LEMMA ClientLostFields ==
  ASSUME NEW q \in Tunnel \cup {NoTunnel}
  PROVE  /\ ClientLost(q) \in Tunnel \cup {NoTunnel}
         /\ ClientLost(q).client = "gone" /\ ClientLost(q).at # "wired"
         /\ ClientLost(q) = NoTunnel \/ ClientLost(q).gate = q.gate
BY NoTunnelFields DEF ClientLost, Tunnel

\* A step of a tunnel changes this one alone.  It stays with its gate, as long as it
\* is there, and without a client it gets none, and no pipe.
LEMMA TunnelStepFields ==
  ASSUME TunnelsTypeOK, NEW u \in Slots, TunnelStep(u)
  PROVE  /\ TunnelsTypeOK'
         /\ \A v \in Slots : v # u => tun'[v] = tun[v]
         /\ tun'[u] = NoTunnel \/ tun'[u].gate = tun[u].gate
         /\ tun[u].client = "gone" /\ tun[u].at # "wired" =>
              tun'[u].client = "gone" /\ tun'[u].at # "wired"
<1>1. tun \in [Slots -> Tunnel \cup {NoTunnel}] /\ tun[u] \in Tunnel \cup {NoTunnel}
  BY DEF TunnelsTypeOK
<1>. SUFFICES \E q \in Tunnel \cup {NoTunnel} :
                /\ tun' = [tun EXCEPT ![u] = q]
                /\ q.at \in {"orphan", "stuck"} => q.client = "gone"
                /\ q = NoTunnel \/ q.gate = tun[u].gate
                /\ tun[u].client = "gone" /\ tun[u].at # "wired" => q.client = "gone" /\ q.at # "wired"
  BY <1>1 DEF TunnelsTypeOK
<1>2. CASE Dial(u)
  <2>. PICK q : q = [tun[u] EXCEPT !.at = "asked"]
    OBVIOUS
  <2>1. tun[u] \in Tunnel
    BY <1>1, <1>2, NoTunnelFields DEF Dial
  <2>2. q \in Tunnel /\ q.at = "asked" /\ q.gate = tun[u].gate /\ q.client = tun[u].client
    BY <2>1 DEF Tunnel
  <2>. QED  BY <1>2, <2>2 DEF Dial
<1>3. CASE Switched(u)
  <2>1. tun[u] \in Tunnel
    BY <1>1, <1>3, NoTunnelFields DEF Switched
  <2>2. CASE tun[u].client = "gone"
    <3>. PICK q : q = [tun[u] EXCEPT !.at = "orphan"]
      OBVIOUS
    <3>1. q \in Tunnel /\ q.at = "orphan" /\ q.gate = tun[u].gate /\ q.client = "gone"
      BY <2>1, <2>2 DEF Tunnel
    <3>2. tun' = [tun EXCEPT ![u] = q]
      BY <1>3, <2>2 DEF Switched
    <3>. QED  BY <3>1, <3>2, <1>3 DEF Switched
  <2>3. CASE tun[u].client # "gone"
    <3>. PICK q : q = [tun[u] EXCEPT !.at = "wired"]
      OBVIOUS
    <3>1. q \in Tunnel /\ q.at = "wired" /\ q.gate = tun[u].gate /\ q.client = tun[u].client
      BY <2>1 DEF Tunnel
    <3>2. tun' = [tun EXCEPT ![u] = q]
      BY <1>3, <2>3 DEF Switched
    <3>. QED  BY <3>1, <3>2, <2>3
  <2>. QED  BY <2>2, <2>3
<1>4. CASE NotSwitched(u) \/ UpstreamCloses(u)
  BY <1>4, NoTunnelFields DEF NotSwitched, UpstreamCloses
<1>5. CASE ClientEnds(u)
  <2>. PICK q : q = [tun[u] EXCEPT !.client = "ended"]
    OBVIOUS
  <2>1. tun[u] \in Tunnel /\ tun[u].client = "here"
    BY <1>1, <1>5, NoTunnelFields DEF ClientEnds
  <2>2. q \in Tunnel /\ q.at = tun[u].at /\ q.gate = tun[u].gate
    BY <2>1 DEF Tunnel
  <2>3. tun[u].at \notin {"orphan", "stuck"}
    BY <2>1 DEF TunnelsTypeOK
  <2>. QED  BY <1>5, <2>1, <2>2, <2>3 DEF ClientEnds
<1>6. CASE ClientResets(u)
  <2>. PICK q : q = ClientLost(tun[u])
    OBVIOUS
  <2>1. /\ q \in Tunnel \cup {NoTunnel} /\ q.client = "gone"
        /\ q = NoTunnel \/ q.gate = tun[u].gate
    BY <1>1, ClientLostFields
  <2>2. tun' = [tun EXCEPT ![u] = q] /\ tun[u].client # "gone"
    BY <1>6 DEF ClientResets
  <2>. QED  BY <2>1, <2>2
<1>7. CASE UpstreamTalks(u)
  <2>. PICK q : q = [tun[u] EXCEPT !.at = "stuck"]
    OBVIOUS
  <2>1. tun[u] \in Tunnel /\ tun[u].client = "gone"
    BY <1>1, <1>7, NoTunnelFields DEF UpstreamTalks, TunnelsTypeOK
  <2>2. q \in Tunnel /\ q.at = "stuck" /\ q.gate = tun[u].gate /\ q.client = "gone"
    BY <2>1 DEF Tunnel
  <2>. QED  BY <1>7, <2>2 DEF UpstreamTalks
<1>. QED  BY <1>2, <1>3, <1>4, <1>5, <1>6, <1>7 DEF TunnelStep

-----------------------------------------------------------------------------
(* Types                                                                   *)

LoginStep(i, t) == LoginBegins(i, t) \/ LoginEnds(i, t) \/ Logout(i, t)

LEMMA TypeStep ==
  ASSUME LifecycleTypeOK, Next
  PROVE  LifecycleTypeOK'
<1>0. TunnelsTypeOK
  BY DEF LifecycleTypeOK
<1>t. ASSUME UNCHANGED tun PROVE TunnelsTypeOK'
  BY <1>0, <1>t DEF TunnelsTypeOK
<1>1. ASSUME NEW i \in Instances, Apply(i) PROVE LifecycleTypeOK'
  BY <1>1, <1>t DEF Apply, LifecycleTypeOK, Phases, Servers
<1>2. ASSUME NEW i \in Instances, GateUp(i) PROVE LifecycleTypeOK'
  BY <1>2, <1>t DEF GateUp, LifecycleTypeOK, sessions, Servers
<1>3. ASSUME NEW i \in Instances, ViewerUp(i) PROVE LifecycleTypeOK'
  BY <1>3, <1>t DEF ViewerUp, LifecycleTypeOK, sessions, Servers
<1>4. ASSUME NEW i \in Instances, NotUp(i) PROVE LifecycleTypeOK'
  BY <1>4, <1>t DEF NotUp, LifecycleTypeOK, sessions, Servers
<1>5. ASSUME NEW i \in Instances, View(i) \/ Viewed(i) PROVE LifecycleTypeOK'
  BY <1>5, <1>t DEF View, Viewed, LifecycleTypeOK, sessions
<1>6. ASSUME NEW i \in Instances, AddDsh(i) PROVE LifecycleTypeOK'
  BY <1>6, <1>t DEF AddDsh, LifecycleTypeOK, sessions
<1>7. ASSUME NEW i \in Instances, NEW t \in Tokens, LoginBegins(i, t) \/ LoginEnds(i, t)
      PROVE  LifecycleTypeOK'
  BY <1>7, <1>t DEF LoginBegins, LoginEnds, Astray, LifecycleTypeOK, servers
<1>8. ASSUME NEW i \in Instances, NEW t \in Tokens, Logout(i, t) PROVE LifecycleTypeOK'
  BY <1>8, <1>t DEF Logout, FileWithout, Astray, LifecycleTypeOK, servers
<1>9. ASSUME NEW i \in Instances, ChangePassword(i) \/ PasswordSaved(i) PROVE LifecycleTypeOK'
  BY <1>9, <1>t DEF ChangePassword, PasswordSaved, FileWithout, Astray, LifecycleTypeOK, servers
<1>10. ASSUME NEW u \in Slots, NEW i \in Instances, TunnelUpgrade(u, i) PROVE LifecycleTypeOK'
  <2>1. PICK at \in {"cookie", "asked"} :
          tun' = [tun EXCEPT ![u] = [at |-> at, gate |-> i, client |-> "here"]]
    BY <1>10 DEF TunnelUpgrade, Upgrade
  <2>2. [at |-> at, gate |-> i, client |-> "here"] \in Tunnel
    BY DEF Tunnel
  <2>3. TunnelsTypeOK'
    BY <1>0, <2>1, <2>2 DEF TunnelsTypeOK
  <2>. QED  BY <1>10, <2>3 DEF TunnelUpgrade, LifecycleTypeOK, servers, sessions
<1>11. ASSUME NEW u \in Slots, TunnelGoesOn(u) PROVE LifecycleTypeOK'
  BY <1>0, <1>11, TunnelStepFields DEF TunnelGoesOn, LifecycleTypeOK, servers, sessions
<1>12. ASSUME NEW i \in Instances, Dispose(i) PROVE LifecycleTypeOK'
  BY <1>12, <1>t DEF Dispose, LifecycleTypeOK, sessions, Phases, Servers
<1>13. ASSUME NEW i \in Instances, DisposeGate(i) PROVE LifecycleTypeOK'
  <2>1. TunnelsTypeOK'
    <3>1. CASE tun' = [u \in Slots |-> IF tun[u].gate = i THEN ClientLost(tun[u]) ELSE tun[u]]
      BY <1>0, <3>1, ClientLostFields DEF TunnelsTypeOK
    <3>. QED  BY <1>13, <1>t, <3>1 DEF DisposeGate
  <2>2. /\ phase' \in [Instances -> Phases] /\ gate' \in [Instances -> Servers \ {"closing"}]
        /\ viewer' \in [Instances -> Servers]
    BY <1>13 DEF DisposeGate, LifecycleTypeOK, Phases, Servers
  <2>. QED  BY <1>13, <2>1, <2>2 DEF DisposeGate, LifecycleTypeOK, sessions
<1>14. CASE Restart
  <2>1. TunnelsTypeOK'
    BY <1>14, NoTunnelFields DEF Restart, TunnelsTypeOK
  <2>2. \A i \in Instances :
          /\ phase'[i] = (IF phase[i] # "unborn" THEN "disposed" ELSE phase[i])
          /\ gate'[i] = (IF phase[i] # "unborn" THEN "closed" ELSE gate[i])
          /\ viewer'[i] = (IF phase[i] # "unborn" THEN "closed" ELSE viewer[i])
          /\ viewing'[i] = (IF phase[i] # "unborn" THEN FALSE ELSE viewing[i])
          /\ timers'[i] = (IF phase[i] # "unborn" THEN 0 ELSE timers[i])
          /\ store'[i] = (IF phase[i] # "unborn" THEN {} ELSE store[i])
          /\ trying'[i] = (IF phase[i] # "unborn" THEN {} ELSE trying[i])
          /\ changing'[i] = (IF phase[i] # "unborn" THEN FALSE ELSE changing[i])
    BY <1>14 DEF Restart
  <2>3. /\ phase' \in [Instances -> Phases] /\ gate' \in [Instances -> Servers \ {"closing"}]
        /\ viewer' \in [Instances -> Servers] /\ viewing' \in [Instances -> BOOLEAN]
        /\ timers' \in [Instances -> 0..MaxTimers] /\ store' \in [Instances -> SUBSET issued]
        /\ changing' \in [Instances -> BOOLEAN] /\ trying' \in [Instances -> SUBSET Tokens]
    <3>1. /\ phase' \in [Instances -> Phases] /\ gate' \in [Instances -> Servers \ {"closing"}]
          /\ viewer' \in [Instances -> Servers]
      BY <1>14 DEF Restart, LifecycleTypeOK, Phases, Servers
    <3>2. viewing' \in [Instances -> BOOLEAN] /\ changing' \in [Instances -> BOOLEAN]
      BY <1>14 DEF Restart, LifecycleTypeOK
    <3>3. timers' \in [Instances -> 0..MaxTimers] /\ store' \in [Instances -> SUBSET issued]
      BY <1>14 DEF Restart, LifecycleTypeOK
    <3>4. trying' \in [Instances -> SUBSET Tokens]
      BY <1>14 DEF Restart, LifecycleTypeOK
    <3>. QED  BY <3>1, <3>2, <3>3, <3>4
  <2>. QED  BY <1>14, <2>1, <2>3 DEF Restart, LifecycleTypeOK
<1>. QED
  BY <1>1, <1>2, <1>3, <1>4, <1>5, <1>6, <1>7, <1>8, <1>9, <1>10, <1>11, <1>12, <1>13, <1>14
  DEF Next
-----------------------------------------------------------------------------
(* The order of the applications                                           *)

\* The process dies: what had been applied is disposed, and the rest as it was.
LEMMA RestartFields ==
  ASSUME LifecycleTypeOK, Restart, NEW i \in Instances
  PROVE  /\ phase[i] = "unborn" =>
              /\ phase'[i] = "unborn" /\ gate'[i] = gate[i] /\ viewer'[i] = viewer[i]
              /\ timers'[i] = timers[i] /\ changing'[i] = changing[i] /\ trying'[i] = trying[i]
         /\ phase[i] # "unborn" =>
              /\ phase'[i] = "disposed" /\ gate'[i] = "closed" /\ viewer'[i] = "closed"
              /\ timers'[i] = 0 /\ ~changing'[i] /\ trying'[i] = {}
         /\ \A u \in Slots : tun'[u] = NoTunnel
         /\ UNCHANGED <<file, issued, over, late, astray>>
BY DEF Restart

LEMMA InTurnStep ==
  ASSUME LifecycleTypeOK, InTurn, Next
  PROVE  InTurn'
<1>1. ASSUME NEW i \in Instances, Apply(i) PROVE InTurn'
  <2>1. \A j \in Instances : j # i =>
          phase'[j] = phase[j] /\ gate'[j] = gate[j] /\ viewer'[j] = viewer[j]
    BY <1>1 DEF Apply, LifecycleTypeOK
  <2>2. phase[i] = "unborn" /\ phase'[i] = "running" /\ UNCHANGED <<changing, trying>>
    BY <1>1 DEF Apply, LifecycleTypeOK
  <2>3. \A k \in Instances : k < i => phase[k] = "disposed"
    <3>. SUFFICES ASSUME NEW k \in Instances, k < i PROVE phase[k] = "disposed"
      OBVIOUS
    <3>1. i - 1 \in Instances /\ phase[i - 1] = "disposed"
      BY <1>1 DEF Apply, Instances
    <3>2. k = i - 1 \/ k < i - 1
      BY DEF Instances
    <3>. QED  BY <3>1, <3>2 DEF InTurn
  <2>4. \A j, k \in Instances : j < k /\ phase'[k] # "unborn" => phase'[j] = "disposed"
    <3>. SUFFICES ASSUME NEW j \in Instances, NEW k \in Instances, j < k, phase'[k] # "unborn"
                  PROVE  phase'[j] = "disposed"
      OBVIOUS
    <3>1. CASE k = i
      BY <2>1, <2>3, <3>1 DEF Instances
    <3>2. CASE k # i
      BY <2>1, <2>2, <3>2 DEF InTurn
    <3>. QED  BY <3>1, <3>2
  <2>. QED  BY <2>1, <2>2, <2>4 DEF InTurn
<1>2. ASSUME NEW i \in Instances, GateUp(i) \/ ViewerUp(i) \/ NotUp(i) PROVE InTurn'
  <2>1. phase[i] # "unborn"
    BY <1>2 DEF GateUp, ViewerUp, NotUp, InTurn
  <2>2. /\ UNCHANGED <<phase, changing, trying>>
        /\ \A j \in Instances : j # i => gate'[j] = gate[j] /\ viewer'[j] = viewer[j]
    BY <1>2 DEF GateUp, ViewerUp, NotUp, sessions, LifecycleTypeOK
  <2>. QED  BY <2>1, <2>2 DEF InTurn
<1>3. ASSUME NEW i \in Instances, View(i) \/ Viewed(i) \/ AddDsh(i) PROVE InTurn'
  BY <1>3 DEF View, Viewed, AddDsh, sessions, InTurn
<1>4. ASSUME NEW i \in Instances, NEW t \in Tokens, LoginStep(i, t) PROVE InTurn'
  <2>1. UNCHANGED <<phase, gate, viewer, changing>> /\ phase[i] # "unborn"
    BY <1>4 DEF LoginStep, LoginBegins, LoginEnds, Logout, Listening, servers, InTurn
  <2>2. \A j \in Instances : j # i => trying'[j] = trying[j]
    BY <1>4 DEF LoginStep, LoginBegins, LoginEnds, Logout, LifecycleTypeOK
  <2>. QED  BY <2>1, <2>2 DEF InTurn
<1>5. ASSUME NEW i \in Instances, ChangePassword(i) \/ PasswordSaved(i) PROVE InTurn'
  <2>1. UNCHANGED <<phase, gate, viewer, trying>> /\ phase[i] # "unborn"
    BY <1>5 DEF ChangePassword, PasswordSaved, servers, InTurn
  <2>2. \A j \in Instances : j # i => changing'[j] = changing[j]
    BY <1>5 DEF ChangePassword, PasswordSaved, LifecycleTypeOK
  <2>. QED  BY <2>1, <2>2 DEF InTurn
<1>6. ASSUME NEW u \in Slots, (\E i \in Instances : TunnelUpgrade(u, i)) \/ TunnelGoesOn(u)
      PROVE  InTurn'
  BY <1>6 DEF TunnelUpgrade, TunnelGoesOn, servers, sessions, InTurn
<1>7. ASSUME NEW i \in Instances, Dispose(i) PROVE InTurn'
  <2>1. phase[i] = "running" /\ phase'[i] = "closing" /\ UNCHANGED <<gate, changing, trying>>
    BY <1>7 DEF Dispose, sessions, LifecycleTypeOK
  <2>2. \A j \in Instances : j # i => phase'[j] = phase[j] /\ viewer'[j] = viewer[j]
    BY <1>7 DEF Dispose, LifecycleTypeOK
  <2>. QED  BY <2>1, <2>2 DEF InTurn
<1>8. ASSUME NEW i \in Instances, DisposeGate(i) PROVE InTurn'
  <2>1. phase[i] = "closing" /\ phase'[i] = "disposed" /\ UNCHANGED <<changing, trying>>
    BY <1>8 DEF DisposeGate, sessions, LifecycleTypeOK
  <2>2. \A j \in Instances : j # i =>
          phase'[j] = phase[j] /\ gate'[j] = gate[j] /\ viewer'[j] = viewer[j]
    BY <1>8 DEF DisposeGate, LifecycleTypeOK
  <2>. QED  BY <2>1, <2>2 DEF InTurn
<1>9. CASE Restart
  <2>1. \A i \in Instances :
          /\ phase[i] = "unborn" => /\ phase'[i] = "unborn" /\ gate'[i] = gate[i]
                                    /\ viewer'[i] = viewer[i] /\ changing'[i] = changing[i]
                                    /\ trying'[i] = trying[i]
          /\ phase[i] # "unborn" => phase'[i] = "disposed"
    BY <1>9, RestartFields
  <2>. QED  BY <2>1 DEF InTurn
<1>. QED
  BY <1>1, <1>2, <1>3, <1>4, <1>5, <1>6, <1>7, <1>8, <1>9 DEF Next, LoginStep

-----------------------------------------------------------------------------
(* Servers and what hangs on them                                          *)

\* A tunnel that is there after a step was there before it, with the same gate, or
\* was accepted in the step, by a gate that is up.
LEMMA TunnelsOfGates ==
  ASSUME LifecycleTypeOK, Next, NEW u \in Slots
  PROVE  \/ tun'[u].gate \in {0, tun[u].gate}
         \/ \E i \in Instances : tun'[u].gate = i /\ gate[i] = "up"
<1>0. TunnelsTypeOK /\ tun[u] \in Tunnel \cup {NoTunnel}
  BY DEF LifecycleTypeOK, TunnelsTypeOK
<1>1. ASSUME NEW v \in Slots, NEW i \in Instances, TunnelUpgrade(v, i)
      PROVE  tun'[u].gate = tun[u].gate \/ (tun'[u].gate = i /\ gate[i] = "up")
  <2>1. gate[i] = "up"
    BY <1>1 DEF TunnelUpgrade, Listening
  <2>2. PICK at \in {"cookie", "asked"} :
          tun' = [tun EXCEPT ![v] = [at |-> at, gate |-> i, client |-> "here"]]
    BY <1>1 DEF TunnelUpgrade, Upgrade
  <2>. QED  BY <1>0, <2>1, <2>2 DEF TunnelsTypeOK
<1>2. ASSUME NEW v \in Slots, TunnelGoesOn(v) PROVE tun'[u].gate \in {0, tun[u].gate}
  BY <1>0, <1>2, TunnelStepFields, NoTunnelFields DEF TunnelGoesOn
<1>3. ASSUME NEW i \in Instances, DisposeGate(i) PROVE tun'[u].gate \in {0, tun[u].gate}
  <2>1. tun'[u] \in {tun[u], ClientLost(tun[u])}
    BY <1>3 DEF DisposeGate
  <2>2. ClientLost(tun[u]) = NoTunnel \/ ClientLost(tun[u]).gate = tun[u].gate
    BY <1>0, ClientLostFields
  <2>3. CASE tun'[u] = tun[u]
    BY <2>3
  <2>4. CASE tun'[u] = ClientLost(tun[u])
    BY <2>2, <2>4, NoTunnelFields
  <2>. QED  BY <2>1, <2>3, <2>4
<1>4. CASE Restart
  BY <1>4, NoTunnelFields DEF Restart
<1>5. ASSUME NEW i \in Instances,
             \/ Apply(i) \/ GateUp(i) \/ ViewerUp(i) \/ NotUp(i) \/ View(i) \/ Viewed(i)
             \/ AddDsh(i) \/ ChangePassword(i) \/ PasswordSaved(i) \/ Dispose(i)
      PROVE  tun'[u].gate = tun[u].gate
  BY <1>5 DEF Apply, GateUp, ViewerUp, NotUp, View, Viewed, AddDsh, ChangePassword,
    PasswordSaved, Dispose
<1>6. ASSUME NEW i \in Instances, NEW t \in Tokens, LoginStep(i, t)
      PROVE  tun'[u].gate = tun[u].gate
  BY <1>6 DEF LoginStep, LoginBegins, LoginEnds, Logout
<1>. QED  BY <1>1, <1>2, <1>3, <1>4, <1>5, <1>6 DEF Next, LoginStep
LEMMA OrderedStep ==
  ASSUME LifecycleTypeOK, InTurn, Ordered, Next
  PROVE  Ordered'
<1>t. ASSUME NEW i \in Instances, gate'[i] \in {"none", "starting"},
             gate[i] \in {"none", "starting"}
      PROVE  \A u \in Slots : tun'[u].gate # i
  <2>. TAKE u \in Slots
  <2>1. tun[u].gate # i
    BY <1>t DEF Ordered
  <2>2. gate[i] # "up"
    BY <1>t
  <2>3. i # 0
    BY DEF Instances
  <2>4. \/ tun'[u].gate \in {0, tun[u].gate}
        \/ \E k \in Instances : tun'[u].gate = k /\ gate[k] = "up"
    BY TunnelsOfGates
  <2>. QED  BY <2>1, <2>2, <2>3, <2>4
<1>1. ASSUME NEW i \in Instances, Apply(i) PROVE Ordered'
  <2>1. \A j \in Instances : j # i =>
          phase'[j] = phase[j] /\ gate'[j] = gate[j] /\ viewer'[j] = viewer[j]
            /\ timers'[j] = timers[j]
    BY <1>1 DEF Apply, LifecycleTypeOK
  <2>2. phase[i] = "unborn" /\ phase'[i] = "running" /\ gate'[i] = "starting"
    BY <1>1 DEF Apply, LifecycleTypeOK
  <2>3. UNCHANGED <<tun, late>> /\ gate[i] = "none"
    BY <1>1, <2>2 DEF Apply, InTurn
  <2>. QED  BY <2>1, <2>2, <2>3 DEF Ordered
<1>2. ASSUME NEW i \in Instances, GateUp(i) PROVE Ordered'
  <2>1. \A j \in Instances : j # i => gate'[j] = gate[j]
    BY <1>2 DEF GateUp, LifecycleTypeOK
  <2>2. gate'[i] = "up" /\ UNCHANGED <<tun, phase, viewer, timers>> /\ late \subseteq late'
    BY <1>2 DEF GateUp, LifecycleTypeOK
  <2>. QED  BY <2>1, <2>2 DEF Ordered
<1>3. ASSUME NEW i \in Instances, ViewerUp(i) PROVE Ordered'
  <2>1. /\ \A j \in Instances : j # i => viewer'[j] = viewer[j]
        /\ UNCHANGED <<tun, phase, gate, timers>> /\ late \subseteq late'
    BY <1>3 DEF ViewerUp, LifecycleTypeOK
  <2>2. phase[i] # "running" => <<"viewer", i>> \in late'
    BY <1>3 DEF ViewerUp
  <2>. QED  BY <2>1, <2>2 DEF Ordered
<1>4. ASSUME NEW i \in Instances, NotUp(i) PROVE Ordered'
  <2>1. \A j \in Instances : gate'[j] = gate[j] \/ (gate[j] = "starting" /\ gate'[j] = "none")
    <3>1. CASE gate[i] = "starting" /\ gate' = [gate EXCEPT ![i] = "none"]
      BY <3>1 DEF LifecycleTypeOK
    <3>. QED  BY <1>4, <3>1 DEF NotUp
  <2>2. \A j \in Instances : viewer'[j] = "up" => viewer[j] = "up"
    BY <1>4 DEF NotUp, LifecycleTypeOK
  <2>3. UNCHANGED <<tun, phase, timers, late>>
    BY <1>4 DEF NotUp
  <2>. QED  BY <2>1, <2>2, <2>3 DEF Ordered
<1>5. ASSUME NEW i \in Instances, View(i) \/ Viewed(i) PROVE Ordered'
  BY <1>5 DEF View, Viewed, Ordered
<1>6. ASSUME NEW i \in Instances, AddDsh(i) PROVE Ordered'
  <2>1. /\ \A j \in Instances : j # i => timers'[j] = timers[j]
        /\ UNCHANGED <<tun, phase, gate, viewer, late>> /\ phase[i] = "running"
    BY <1>6 DEF AddDsh, LifecycleTypeOK
  <2>. QED  BY <2>1 DEF Ordered
<1>7. ASSUME NEW i \in Instances, NEW t \in Tokens, LoginStep(i, t) PROVE Ordered'
  BY <1>7 DEF LoginStep, LoginBegins, LoginEnds, Logout, servers, Ordered
<1>8. ASSUME NEW i \in Instances, ChangePassword(i) \/ PasswordSaved(i) PROVE Ordered'
  BY <1>8 DEF ChangePassword, PasswordSaved, servers, Ordered
<1>9. ASSUME NEW u \in Slots, (\E i \in Instances : TunnelUpgrade(u, i)) \/ TunnelGoesOn(u)
      PROVE  Ordered'
  <2>1. UNCHANGED <<phase, gate, viewer, timers, late>>
    BY <1>9 DEF TunnelUpgrade, TunnelGoesOn, servers
  <2>. QED  BY <1>t, <2>1 DEF Ordered
<1>10. ASSUME NEW i \in Instances, Dispose(i) PROVE Ordered'
  <2>1. /\ phase[i] = "running" /\ phase'[i] = "closing" /\ timers'[i] = 0
        /\ viewer'[i] # "up" /\ UNCHANGED <<tun, gate, late>>
    BY <1>10 DEF Dispose, LifecycleTypeOK
  <2>2. \A j \in Instances : j # i =>
          phase'[j] = phase[j] /\ viewer'[j] = viewer[j] /\ timers'[j] = timers[j]
    BY <1>10 DEF Dispose, LifecycleTypeOK
  <2>. QED  BY <2>1, <2>2 DEF Ordered
<1>11. ASSUME NEW i \in Instances, DisposeGate(i) PROVE Ordered'
  <2>1. /\ phase[i] = "closing" /\ phase'[i] = "disposed" /\ UNCHANGED <<timers, late>>
        /\ gate'[i] = gate[i] \/ gate'[i] = "closed"
        /\ viewer'[i] = "up" => viewer[i] = "up"
    BY <1>11 DEF DisposeGate, LifecycleTypeOK
  <2>2. \A j \in Instances : j # i =>
          phase'[j] = phase[j] /\ gate'[j] = gate[j] /\ viewer'[j] = viewer[j]
    BY <1>11 DEF DisposeGate, LifecycleTypeOK
  <2>. QED  BY <1>t, <2>1, <2>2 DEF Ordered
<1>12. CASE Restart
  <2>1. \A u \in Slots : tun'[u].gate = 0
    BY <1>12, NoTunnelFields DEF Restart
  <2>2. \A i \in Instances :
          /\ phase[i] = "unborn" => /\ phase'[i] = "unborn" /\ gate'[i] = gate[i]
                                    /\ timers'[i] = timers[i]
          /\ phase[i] # "unborn" => /\ phase'[i] = "disposed" /\ gate'[i] = "closed"
                                    /\ viewer'[i] = "closed" /\ timers'[i] = 0
    BY <1>12, RestartFields
  <2>. SUFFICES ASSUME NEW i \in Instances
                PROVE  /\ \A u \in Slots : tun'[u].gate # i
                       /\ gate'[i] = "closed" => phase'[i] = "disposed"
                       /\ phase'[i] \in {"closing", "disposed"} => viewer'[i] # "up"
                       /\ timers'[i] = 0
    BY DEF Ordered
  <2>3. \A u \in Slots : tun'[u].gate # i
    BY <2>1 DEF Instances
  <2>4. CASE phase[i] = "unborn"
    BY <2>2, <2>3, <2>4 DEF Ordered
  <2>5. CASE phase[i] # "unborn"
    BY <2>2, <2>3, <2>5
  <2>. QED  BY <2>4, <2>5
<1>. QED
  BY <1>1, <1>2, <1>3, <1>4, <1>5, <1>6, <1>7, <1>8, <1>9, <1>10, <1>11, <1>12 DEF Next, LoginStep

-----------------------------------------------------------------------------
(* The Map of the newest application and the file                          *)

\* What can change the sessions has been applied.
LEMMA AliveIsApplied ==
  ASSUME InTurn, NEW i \in Instances, Alive(i)
  PROVE  phase[i] # "unborn"
BY DEF InTurn, Alive

\* Of the applications there were, one is the newest.
LEMMA NewestAlone ==
  ASSUME NEW i \in Instances, Newest(i), phase[i] # "unborn",
         NEW j \in Instances, Newest(j), phase[j] # "unborn"
  PROVE  i = j
BY DEF Newest, Instances

\* An application that is not disposed is the newest.
LEMMA AtWorkIsNewest ==
  ASSUME InTurn, NEW i \in Instances, phase[i] \in {"running", "closing"}
  PROVE  Newest(i)
BY DEF InTurn, Newest, Phases

\* What an application does to the sessions is astray unless it is the newest.
LEMMA AstrayUnlessNewest ==
  ASSUME NEW i \in Instances, NEW ts
  PROVE  /\ astray \subseteq Astray(i, ts)
         /\ ~Newest(i) => ts \subseteq Astray(i, ts)
BY DEF Astray, Newest

LEMMA FreshStep ==
  ASSUME LifecycleTypeOK, Fresh, Next
  PROVE  Fresh'
<1>1. ASSUME UNCHANGED <<trying, issued>> PROVE Fresh'
  BY <1>1 DEF Fresh
<1>2. ASSUME NEW i \in Instances, NEW t \in Tokens, LoginBegins(i, t) PROVE Fresh'
  <2>1. /\ trying'[i] = trying[i] \cup {t} /\ t \notin issued /\ UNCHANGED issued
        /\ \A j \in Instances : t \notin trying[j]
        /\ \A j \in Instances : j # i => trying'[j] = trying[j]
    BY <1>2 DEF LoginBegins, LifecycleTypeOK
  <2>. QED  BY <2>1 DEF Fresh
<1>3. ASSUME NEW i \in Instances, NEW t \in Tokens, LoginEnds(i, t) PROVE Fresh'
  <2>1. /\ t \in trying[i] /\ trying'[i] = trying[i] \ {t} /\ issued' = issued \cup {t}
        /\ \A j \in Instances : j # i => trying'[j] = trying[j]
    BY <1>3 DEF LoginEnds, LifecycleTypeOK
  <2>. QED  BY <2>1 DEF Fresh
<1>4. CASE Restart
  <2>1. \A i \in Instances : trying'[i] \in {{}, trying[i]}
    BY <1>4 DEF Restart
  <2>. QED  BY <1>4, <2>1 DEF Restart, Fresh
<1>5. ASSUME NEW i \in Instances,
             \/ Apply(i) \/ GateUp(i) \/ ViewerUp(i) \/ NotUp(i) \/ View(i) \/ Viewed(i)
             \/ AddDsh(i) \/ ChangePassword(i) \/ PasswordSaved(i) \/ Dispose(i)
             \/ DisposeGate(i)
      PROVE  UNCHANGED <<trying, issued>>
  BY <1>5 DEF Apply, GateUp, ViewerUp, NotUp, View, Viewed, AddDsh, ChangePassword,
    PasswordSaved, Dispose, DisposeGate, sessions
<1>6. ASSUME NEW i \in Instances, NEW t \in Tokens, Logout(i, t) PROVE UNCHANGED <<trying, issued>>
  BY <1>6 DEF Logout
<1>7. ASSUME NEW u \in Slots, (\E i \in Instances : TunnelUpgrade(u, i)) \/ TunnelGoesOn(u)
      PROVE  UNCHANGED <<trying, issued>>
  BY <1>7 DEF TunnelUpgrade, TunnelGoesOn, sessions
<1>. QED  BY <1>1, <1>2, <1>3, <1>4, <1>5, <1>6, <1>7 DEF Next

\* A step that opens or ends sessions, of application i, keeps the newest and the file
\* in step if it keeps i in step with the file when i is the newest, and marks what it
\* changes as astray when it is not.
LEMMA SessionsStep ==
  ASSUME InTurn, InStep, NEW i \in Instances, phase[i] # "unborn",
         UNCHANGED <<phase, gate, late>>, astray \subseteq astray',
         file' \cap over' \subseteq astray',
         \A j \in Instances : j # i => store'[j] = store[j] /\ (Alive(j)' => Alive(j)),
         Newest(i) => store'[i] \ astray' = file' \ astray',
         ~Newest(i) => file' \ astray' = file \ astray'
  PROVE  InStep'
<1>1. \A j \in Instances : Newest(j)' <=> Newest(j)
  BY DEF Newest
<1>2. ASSUME NEW j \in Instances, Newest(j), Alive(j)'
      PROVE  store'[j] \ astray' = file' \ astray'
  <2>1. CASE j = i
    BY <1>2, <2>1
  <2>2. CASE j # i
    <3>1. Alive(j) /\ store'[j] = store[j]
      BY <1>2, <2>2
    <3>2. store[j] \ astray = file \ astray
      BY <1>2, <3>1 DEF InStep
    <3>3. ~Newest(i)
      BY <1>2, <2>2, <3>1, AliveIsApplied, NewestAlone
    <3>. QED  BY <3>1, <3>2, <3>3
  <2>. QED  BY <2>1, <2>2
<1>. QED  BY <1>1, <1>2 DEF InStep

LEMMA InStepStep ==
  ASSUME LifecycleTypeOK, InTurn, Fresh, InStep, Next
  PROVE  InStep'
<1>1. ASSUME NEW i \in Instances, Apply(i) PROVE InStep'
  <2>1. \A j \in Instances : j # i =>
          phase'[j] = phase[j] /\ gate'[j] = gate[j] /\ store'[j] = store[j]
    BY <1>1 DEF Apply, LifecycleTypeOK
  <2>2. /\ phase[i] = "unborn" /\ phase'[i] = "running" /\ gate'[i] = "starting"
        /\ store'[i] = file /\ UNCHANGED <<file, over, changing, trying, late, astray>>
    BY <1>1 DEF Apply, LifecycleTypeOK
  <2>3. ASSUME NEW j \in Instances, Newest(j)', j # i PROVE ~Alive(j)'
    <3>1. ~(i > j)
      BY <2>2, <2>3 DEF Newest
    <3>2. i < j
      BY <2>3, <3>1 DEF Instances
    <3>3. phase[j] = "unborn"
      BY <2>2, <3>2 DEF InTurn
    <3>. QED  BY <2>1, <2>2, <2>3, <3>3 DEF InTurn, Alive
  <2>4. \A j \in Instances : Newest(j)' /\ Alive(j)' => store'[j] \ astray' = file' \ astray'
    BY <2>2, <2>3
  <2>. QED  BY <2>1, <2>2, <2>4 DEF InStep
<1>2. ASSUME NEW i \in Instances, GateUp(i) PROVE InStep'
  <2>1. /\ UNCHANGED <<phase, store, file, changing, trying, over, astray>>
        /\ gate[i] = "starting" /\ late \subseteq late'
        /\ phase[i] = "disposed" => <<"gate", i>> \in late'
    BY <1>2 DEF GateUp, sessions
  <2>2. \A j \in Instances : j # i => gate'[j] = gate[j]
    BY <1>2 DEF GateUp, LifecycleTypeOK
  <2>3. phase[i] # "disposed" => phase[i] \in {"running", "closing"}
    BY <2>1 DEF InTurn, LifecycleTypeOK, Phases
  <2>4. \A j \in Instances : Alive(j)' => Alive(j)
    BY <2>1, <2>2 DEF Alive
  <2>. QED  BY <2>1, <2>2, <2>3, <2>4 DEF InStep, Newest
<1>3. ASSUME NEW i \in Instances, ViewerUp(i) \/ NotUp(i) \/ View(i) \/ Viewed(i) \/ AddDsh(i)
      PROVE  InStep'
  <2>1. UNCHANGED <<phase, store, file, changing, trying, over, astray>> /\ late \subseteq late'
    BY <1>3 DEF ViewerUp, NotUp, View, Viewed, AddDsh, sessions
  <2>2. \A j \in Instances : gate'[j] \in {"starting", "up"} => gate'[j] = gate[j]
    BY <1>3 DEF ViewerUp, NotUp, View, Viewed, AddDsh, LifecycleTypeOK
  <2>3. \A j \in Instances : Alive(j)' => Alive(j)
    BY <2>1, <2>2 DEF Alive
  <2>. QED  BY <2>1, <2>2, <2>3 DEF InStep, Newest
<1>4. ASSUME NEW i \in Instances, NEW t \in Tokens, LoginBegins(i, t) PROVE InStep'
  <2>1. /\ UNCHANGED <<phase, gate, late, store, file, changing, over, astray>> /\ gate[i] = "up"
        /\ \A j \in Instances : j # i => trying'[j] = trying[j]
    BY <1>4 DEF LoginBegins, servers, Listening, LifecycleTypeOK
  <2>2. \A j \in Instances : Alive(j)' => Alive(j)
    BY <2>1 DEF Alive
  <2>. QED  BY <2>1, <2>2 DEF InStep, Newest
<1>5. ASSUME NEW i \in Instances, NEW t \in Tokens, LoginEnds(i, t) PROVE InStep'
  <2>1. /\ UNCHANGED <<phase, gate, late, changing, over>> /\ t \in trying[i] /\ Alive(i)
        /\ astray' = Astray(i, {t}) /\ file' = file \cup {t} /\ store'[i] = store[i] \cup {t}
        /\ \A j \in Instances : j # i => store'[j] = store[j] /\ trying'[j] = trying[j]
    BY <1>5 DEF LoginEnds, servers, Alive, LifecycleTypeOK
  <2>2. t \notin over
    BY <2>1 DEF Fresh, LifecycleTypeOK
  <2>3. phase[i] # "unborn"
    BY <2>1, AliveIsApplied
  <2>4. astray \subseteq astray' /\ (~Newest(i) => t \in astray')
    BY <2>1, AstrayUnlessNewest
  <2>5. file' \cap over' \subseteq astray'
    BY <2>1, <2>2, <2>4 DEF InStep
  <2>6. Newest(i) => store'[i] \ astray' = file' \ astray'
    BY <2>1, <2>4 DEF InStep
  <2>7. ~Newest(i) => file' \ astray' = file \ astray'
    BY <2>1, <2>4
  <2>8. \A j \in Instances : j # i => store'[j] = store[j] /\ (Alive(j)' => Alive(j))
    BY <2>1 DEF Alive
  <2>. QED  BY <2>1, <2>3, <2>4, <2>5, <2>6, <2>7, <2>8, SessionsStep
<1>6. ASSUME NEW i \in Instances, NEW t \in Tokens, Logout(i, t) PROVE InStep'
  <2>1. /\ UNCHANGED <<phase, gate, late, changing, trying>> /\ gate[i] = "up"
        /\ astray' = Astray(i, {t}) /\ file' = file \ {t} /\ store'[i] = store[i] \ {t}
        /\ over' = over \cup {t}
        /\ \A j \in Instances : j # i => store'[j] = store[j]
    BY <1>6 DEF Logout, FileWithout, Listening, servers, LifecycleTypeOK
  <2>2. Alive(i) /\ phase[i] # "unborn"
    BY <2>1, AliveIsApplied DEF Alive
  <2>3. astray \subseteq astray' /\ (~Newest(i) => t \in astray')
    BY <2>1, AstrayUnlessNewest
  <2>4. file' \cap over' \subseteq astray'
    BY <2>1, <2>3 DEF InStep
  <2>5. Newest(i) => store'[i] \ astray' = file' \ astray'
    BY <2>1, <2>2, <2>3 DEF InStep
  <2>6. ~Newest(i) => file' \ astray' = file \ astray'
    BY <2>1, <2>3
  <2>7. \A j \in Instances : j # i => store'[j] = store[j] /\ (Alive(j)' => Alive(j))
    BY <2>1 DEF Alive
  <2>. QED  BY <2>1, <2>2, <2>3, <2>4, <2>5, <2>6, <2>7, SessionsStep
<1>7. ASSUME NEW i \in Instances, ChangePassword(i) PROVE InStep'
  <2>1. /\ UNCHANGED <<phase, gate, late, store, file, trying, over, astray>>
        /\ phase[i] = "running"
        /\ \A j \in Instances : j # i => changing'[j] = changing[j]
    BY <1>7 DEF ChangePassword, servers, LifecycleTypeOK
  <2>2. \A j \in Instances : Alive(j)' => Alive(j)
    BY <2>1 DEF Alive
  <2>. QED  BY <2>1, <2>2 DEF InStep, Newest
<1>8. ASSUME NEW i \in Instances, PasswordSaved(i) PROVE InStep'
  <2>1. /\ UNCHANGED <<phase, gate, late, trying, issued>> /\ Alive(i)
        /\ astray' = Astray(i, issued) /\ over' = issued
        /\ file' = file \ store[i] /\ store'[i] = {}
        /\ \A j \in Instances : j # i => store'[j] = store[j] /\ changing'[j] = changing[j]
    BY <1>8 DEF PasswordSaved, FileWithout, servers, Alive, LifecycleTypeOK
  <2>2. phase[i] # "unborn"
    BY <2>1, AliveIsApplied
  <2>3. astray \subseteq astray' /\ (~Newest(i) => issued \subseteq astray') /\ file \subseteq issued
    BY <2>1, AstrayUnlessNewest DEF LifecycleTypeOK
  <2>4. Newest(i) => file' \ astray' = {}
    BY <2>1, <2>3 DEF InStep
  <2>5. file' \cap over' \subseteq astray'
    BY <2>1, <2>3, <2>4
  <2>6. Newest(i) => store'[i] \ astray' = file' \ astray'
    BY <2>1, <2>4
  <2>7. ~Newest(i) => file' \ astray' = file \ astray'
    BY <2>1, <2>3
  <2>8. \A j \in Instances : j # i => store'[j] = store[j] /\ (Alive(j)' => Alive(j))
    BY <2>1 DEF Alive
  <2>. QED  BY <2>1, <2>2, <2>3, <2>5, <2>6, <2>7, <2>8, SessionsStep
<1>9. ASSUME NEW u \in Slots, (\E i \in Instances : TunnelUpgrade(u, i)) \/ TunnelGoesOn(u)
      PROVE  InStep'
  BY <1>9 DEF TunnelUpgrade, TunnelGoesOn, servers, sessions, InStep, Newest, Alive
<1>10. ASSUME NEW i \in Instances, Dispose(i) \/ DisposeGate(i) PROVE InStep'
  <2>1. /\ UNCHANGED <<store, file, changing, trying, over, late, astray>>
        /\ phase[i] \in {"running", "closing"} /\ phase'[i] \in {"closing", "disposed"}
    BY <1>10 DEF Dispose, DisposeGate, sessions, LifecycleTypeOK
  <2>2. \A j \in Instances : j # i => phase'[j] = phase[j] /\ gate'[j] = gate[j]
    BY <1>10 DEF Dispose, DisposeGate, LifecycleTypeOK
  <2>3. gate'[i] = "up" => phase'[i] = "closing"
    BY <1>10 DEF Dispose, DisposeGate, LifecycleTypeOK
  <2>4. \A j \in Instances : (Newest(j)' => Newest(j)) /\ (Alive(j)' => Alive(j))
    BY <2>1, <2>2 DEF Newest, Alive
  <2>. QED  BY <2>1, <2>2, <2>3, <2>4 DEF InStep
<1>11. CASE Restart
  <2>1. \A i \in Instances : ~Alive(i)' /\ gate'[i] # "up"
    BY <1>11, RestartFields DEF InTurn, Alive
  <2>2. UNCHANGED <<file, over, astray>>
    BY <1>11 DEF Restart
  <2>. QED  BY <2>1, <2>2 DEF InStep
<1>. QED
  BY <1>1, <1>2, <1>3, <1>4, <1>5, <1>6, <1>7, <1>8, <1>9, <1>10, <1>11 DEF Next
-----------------------------------------------------------------------------
(* What a disposed application leaves                                      *)

\* The clients of a gate's tunnels are gone, and with them every pipe.
Cut(i) == \A u \in Slots : tun[u].gate = i => tun[u].client = "gone" /\ tun[u].at # "wired"

\* A gate that does not listen gets no tunnels, and those it has no clients.
LEMMA CutStays ==
  ASSUME LifecycleTypeOK, Next, NEW i \in Instances, gate[i] # "up", Cut(i)
  PROVE  Cut(i)'
<1>. SUFFICES ASSUME NEW u \in Slots, tun'[u].gate = i
              PROVE  tun'[u].client = "gone" /\ tun'[u].at # "wired"
  BY DEF Cut
<1>0. TunnelsTypeOK /\ i # 0 /\ tun[u] \in Tunnel \cup {NoTunnel}
  BY DEF LifecycleTypeOK, TunnelsTypeOK, Instances
<1>1. ASSUME NEW v \in Slots, NEW j \in Instances, TunnelUpgrade(v, j)
      PROVE  tun'[u].client = "gone" /\ tun'[u].at # "wired"
  <2>1. PICK at \in {"cookie", "asked"} :
          tun' = [tun EXCEPT ![v] = [at |-> at, gate |-> j, client |-> "here"]]
    BY <1>1 DEF TunnelUpgrade, Upgrade
  <2>2. j # i
    BY <1>1 DEF TunnelUpgrade, Listening
  <2>3. u # v
    BY <1>0, <2>1, <2>2 DEF TunnelsTypeOK
  <2>4. tun'[u] = tun[u]
    BY <1>0, <2>1, <2>3 DEF TunnelsTypeOK
  <2>. QED  BY <2>4 DEF Cut
<1>2. ASSUME NEW v \in Slots, TunnelGoesOn(v)
      PROVE  tun'[u].client = "gone" /\ tun'[u].at # "wired"
  <2>1. TunnelStep(v)
    BY <1>2 DEF TunnelGoesOn
  <2>2. CASE u = v
    <3>1. tun[u].gate = i
      BY <1>0, <2>1, <2>2, TunnelStepFields, NoTunnelFields
    <3>. QED  BY <1>0, <2>1, <2>2, <3>1, TunnelStepFields DEF Cut
  <2>3. CASE u # v
    BY <1>0, <2>1, <2>3, TunnelStepFields DEF Cut
  <2>. QED  BY <2>2, <2>3
<1>3. ASSUME NEW j \in Instances, DisposeGate(j)
      PROVE  tun'[u].client = "gone" /\ tun'[u].at # "wired"
  <2>1. tun'[u] = tun[u] \/ tun'[u] = ClientLost(tun[u])
    BY <1>3 DEF DisposeGate
  <2>2. ClientLost(tun[u]).client = "gone" /\ ClientLost(tun[u]).at # "wired"
    BY <1>0, ClientLostFields
  <2>3. CASE tun'[u] = tun[u]
    BY <2>3 DEF Cut
  <2>4. CASE tun'[u] = ClientLost(tun[u])
    BY <2>2, <2>4
  <2>. QED  BY <2>1, <2>3, <2>4
<1>4. CASE Restart
  BY <1>0, <1>4, NoTunnelFields DEF Restart
<1>5. ASSUME NEW j \in Instances,
             \/ Apply(j) \/ GateUp(j) \/ ViewerUp(j) \/ NotUp(j) \/ View(j) \/ Viewed(j)
             \/ AddDsh(j) \/ ChangePassword(j) \/ PasswordSaved(j) \/ Dispose(j)
      PROVE  UNCHANGED tun
  BY <1>5 DEF Apply, GateUp, ViewerUp, NotUp, View, Viewed, AddDsh, ChangePassword,
    PasswordSaved, Dispose
<1>6. ASSUME NEW j \in Instances, NEW t \in Tokens, LoginStep(j, t)
      PROVE  UNCHANGED tun
  BY <1>6 DEF LoginStep, LoginBegins, LoginEnds, Logout
<1>7. ASSUME UNCHANGED tun PROVE tun'[u].client = "gone" /\ tun'[u].at # "wired"
  BY <1>7 DEF Cut
<1>. QED  BY <1>1, <1>2, <1>3, <1>4, <1>5, <1>6, <1>7 DEF Next, LoginStep

\* Of an application that stays disposed, a server that is up was up before or came
\* up just now, which marks it late; and nothing starts a timer again.
LEMMA DisposedStays ==
  ASSUME LifecycleTypeOK, InTurn, Next, NEW i \in Instances, phase[i] = "disposed"
  PROVE  /\ late \subseteq late'
         /\ gate'[i] = "up" => gate[i] = "up" \/ <<"gate", i>> \in late'
         /\ viewer'[i] = "up" => viewer[i] = "up" \/ <<"viewer", i>> \in late'
         /\ timers[i] = 0 => timers'[i] = 0
<1>1. ASSUME NEW j \in Instances, Apply(j) \/ AddDsh(j) \/ Dispose(j) \/ DisposeGate(j)
      PROVE  /\ UNCHANGED late /\ gate'[i] = gate[i] /\ viewer'[i] = viewer[i]
             /\ timers'[i] = timers[i]
  <2>1. j # i
    BY <1>1 DEF Apply, AddDsh, Dispose, DisposeGate
  <2>2. CASE Apply(j)
    BY <2>1, <2>2 DEF Apply, LifecycleTypeOK
  <2>3. CASE AddDsh(j)
    BY <2>1, <2>3 DEF AddDsh, LifecycleTypeOK
  <2>4. CASE Dispose(j)
    BY <2>1, <2>4 DEF Dispose, LifecycleTypeOK
  <2>5. CASE DisposeGate(j)
    BY <2>1, <2>5 DEF DisposeGate, LifecycleTypeOK
  <2>. QED  BY <1>1, <2>2, <2>3, <2>4, <2>5
<1>2. ASSUME NEW j \in Instances, GateUp(j)
      PROVE  /\ late \subseteq late' /\ UNCHANGED <<viewer, timers>>
             /\ gate'[i] = gate[i] \/ <<"gate", i>> \in late'
  BY <1>2 DEF GateUp, LifecycleTypeOK
<1>3. ASSUME NEW j \in Instances, ViewerUp(j)
      PROVE  /\ late \subseteq late' /\ UNCHANGED <<gate, timers>>
             /\ viewer'[i] = viewer[i] \/ <<"viewer", i>> \in late'
  BY <1>3 DEF ViewerUp, LifecycleTypeOK
<1>4. ASSUME NEW j \in Instances, NotUp(j)
      PROVE  /\ UNCHANGED <<late, timers>>
             /\ gate'[i] = "up" => gate[i] = "up"
             /\ viewer'[i] = "up" => viewer[i] = "up"
  BY <1>4 DEF NotUp, LifecycleTypeOK
<1>5. ASSUME NEW j \in Instances, View(j) \/ Viewed(j) \/ ChangePassword(j) \/ PasswordSaved(j)
      PROVE  UNCHANGED <<late, gate, viewer, timers>>
  BY <1>5 DEF View, Viewed, ChangePassword, PasswordSaved, servers
<1>6. ASSUME NEW j \in Instances, NEW t \in Tokens, LoginStep(j, t)
      PROVE  UNCHANGED <<late, gate, viewer, timers>>
  BY <1>6 DEF LoginStep, LoginBegins, LoginEnds, Logout, servers
<1>7. ASSUME NEW u \in Slots, (\E j \in Instances : TunnelUpgrade(u, j)) \/ TunnelGoesOn(u)
      PROVE  UNCHANGED <<late, gate, viewer, timers>>
  BY <1>7 DEF TunnelUpgrade, TunnelGoesOn, servers
<1>8. CASE Restart
  <2>1. gate'[i] = "closed" /\ viewer'[i] = "closed" /\ timers'[i] = 0 /\ late' = late
    BY <1>8, RestartFields
  <2>. QED  BY <2>1
<1>. QED  BY <1>1, <1>2, <1>3, <1>4, <1>5, <1>6, <1>7, <1>8 DEF Next, LoginStep

LEMMA SilentStep ==
  ASSUME IInv, Next
  PROVE  DisposedIsSilent'
<1>. USE DEF IInv
<1>. SUFFICES ASSUME NEW i \in Instances, phase'[i] = "disposed"
              PROVE  /\ gate'[i] = "up" => <<"gate", i>> \in late'
                     /\ viewer'[i] = "up" => <<"viewer", i>> \in late'
                     /\ timers'[i] = 0
                     /\ <<"gate", i>> \notin late' => Cut(i)'
  BY DEF DisposedIsSilent, Cut
<1>1. CASE phase[i] = "disposed"
  <2>1. /\ gate[i] = "up" => <<"gate", i>> \in late
        /\ viewer[i] = "up" => <<"viewer", i>> \in late
        /\ timers[i] = 0
        /\ <<"gate", i>> \notin late => Cut(i)
    BY <1>1 DEF DisposedIsSilent, Cut
  <2>2. /\ late \subseteq late'
        /\ gate'[i] = "up" => gate[i] = "up" \/ <<"gate", i>> \in late'
        /\ viewer'[i] = "up" => viewer[i] = "up" \/ <<"viewer", i>> \in late'
        /\ timers[i] = 0 => timers'[i] = 0
    BY <1>1, DisposedStays
  <2>3. <<"gate", i>> \notin late' => Cut(i)'
    BY <2>1, <2>2, CutStays
  <2>. QED  BY <2>1, <2>2, <2>3
<1>2. CASE phase[i] # "disposed" /\ DisposeGate(i)
  <2>1. /\ UNCHANGED <<timers, late>> /\ phase[i] = "closing" /\ gate'[i] # "up"
        /\ viewer'[i] = "up" => viewer[i] = "up"
    BY <1>2 DEF DisposeGate, LifecycleTypeOK
  <2>2. timers[i] = 0 /\ (viewer[i] = "up" => <<"viewer", i>> \in late)
    BY <2>1 DEF Ordered
  <2>3. CASE gate[i] = "up"
    <3>. SUFFICES ASSUME NEW u \in Slots, tun'[u].gate = i
                  PROVE  tun'[u].client = "gone" /\ tun'[u].at # "wired"
      BY <2>1, <2>2 DEF Cut
    <3>1. tun[u] \in Tunnel \cup {NoTunnel}
      BY DEF LifecycleTypeOK, TunnelsTypeOK
    <3>2. tun'[u] = IF tun[u].gate = i THEN ClientLost(tun[u]) ELSE tun[u]
      BY <1>2, <2>3 DEF DisposeGate
    <3>3. CASE tun[u].gate = i
      BY <3>1, <3>2, <3>3, ClientLostFields
    <3>4. CASE tun[u].gate # i
      BY <3>2, <3>4
    <3>. QED  BY <3>3, <3>4
  <2>4. CASE gate[i] # "up"
    <3>1. gate[i] \in {"none", "starting"}
      <4>1. gate[i] \in {"none", "starting", "closed"}
        BY <2>4 DEF LifecycleTypeOK, Servers
      <4>2. gate[i] # "closed"
        BY <2>1 DEF Ordered
      <4>. QED  BY <4>1, <4>2
    <3>2. Cut(i) /\ UNCHANGED tun
      BY <1>2, <2>4, <3>1 DEF DisposeGate, Ordered, Cut
    <3>. QED  BY <2>1, <2>2, <3>2 DEF Cut
  <2>. QED  BY <2>3, <2>4
<1>3. CASE phase[i] # "disposed" /\ Restart
  <2>1. /\ gate'[i] = "closed" /\ viewer'[i] = "closed" /\ timers'[i] = 0
        /\ \A u \in Slots : tun'[u] = NoTunnel
    BY <1>3, RestartFields
  <2>. QED  BY <2>1, NoTunnelFields DEF Cut, Instances
<1>4. CASE phase[i] # "disposed" /\ \A j \in Instances : ~DisposeGate(j) /\ ~Restart
  <2>1. ASSUME NEW j \in Instances, Apply(j) \/ Dispose(j) PROVE FALSE
    BY <1>4, <2>1 DEF Apply, Dispose, LifecycleTypeOK
  <2>2. ASSUME NEW j \in Instances,
               \/ GateUp(j) \/ ViewerUp(j) \/ NotUp(j) \/ View(j) \/ Viewed(j)
               \/ AddDsh(j) \/ ChangePassword(j) \/ PasswordSaved(j)
        PROVE  FALSE
    BY <1>4, <2>2 DEF GateUp, ViewerUp, NotUp, View, Viewed, AddDsh, ChangePassword,
      PasswordSaved
  <2>3. ASSUME NEW j \in Instances, NEW t \in Tokens, LoginStep(j, t) PROVE FALSE
    BY <1>4, <2>3 DEF LoginStep, LoginBegins, LoginEnds, Logout
  <2>4. ASSUME NEW u \in Slots, (\E j \in Instances : TunnelUpgrade(u, j)) \/ TunnelGoesOn(u)
        PROVE  FALSE
    BY <1>4, <2>4 DEF TunnelUpgrade, TunnelGoesOn
  <2>. QED  BY <1>4, <2>1, <2>2, <2>3, <2>4 DEF Next, LoginStep
<1>5. ASSUME NEW j \in Instances, DisposeGate(j), phase[i] # "disposed" PROVE j = i
  BY <1>5 DEF DisposeGate, LifecycleTypeOK
<1>. QED  BY <1>1, <1>2, <1>3, <1>4, <1>5

-----------------------------------------------------------------------------
(* Theorems                                                                *)

LEMMA InitIInv == Init => IInv
<1>. SUFFICES ASSUME Init PROVE IInv
  OBVIOUS
<1>1. \A u \in Slots : tun[u] = NoTunnel
  BY DEF Init, TunnelsInit
<1>2. \A i \in Instances :
        /\ phase[i] = "unborn" /\ gate[i] = "none" /\ viewer[i] = "none" /\ timers[i] = 0
        /\ ~changing[i] /\ trying[i] = {}
  BY DEF Init
<1>3. TunnelsTypeOK
  BY <1>1, NoTunnelFields DEF Init, TunnelsInit, TunnelsTypeOK
<1>4. LifecycleTypeOK
  <2>1. 0 \in 0..MaxTimers
    OBVIOUS
  <2>2. timers \in [Instances -> 0..MaxTimers]
    BY <2>1 DEF Init
  <2>3. /\ phase \in [Instances -> Phases] /\ gate \in [Instances -> Servers \ {"closing"}]
        /\ viewer \in [Instances -> Servers]
    BY DEF Init, Phases, Servers
  <2>. QED  BY <1>3, <2>2, <2>3 DEF Init, LifecycleTypeOK
<1>5. InTurn /\ InStep /\ DisposedIsSilent
  BY <1>2 DEF InTurn, InStep, Alive, DisposedIsSilent, Init
<1>6. Ordered /\ Fresh
  BY <1>1, <1>2, NoTunnelFields DEF Ordered, Fresh, Instances
<1>. QED  BY <1>4, <1>5, <1>6 DEF IInv

LEMMA Unchanged ==
  ASSUME IInv, UNCHANGED vars
  PROVE  IInv'
<1>1. UNCHANGED <<tun, phase, gate, viewer, viewing, timers, late, store, file, changing,
                  trying, issued, over, astray>>
  BY DEF vars, servers, sessions
<1>2. LifecycleTypeOK'
  BY <1>1 DEF IInv, LifecycleTypeOK, TunnelsTypeOK
<1>3. InTurn' /\ Ordered' /\ Fresh'
  BY <1>1 DEF IInv, InTurn, Ordered, Fresh
<1>4. InStep'
  BY <1>1 DEF IInv, InStep, Newest, Alive
<1>5. DisposedIsSilent'
  BY <1>1 DEF IInv, DisposedIsSilent
<1>. QED  BY <1>2, <1>3, <1>4, <1>5 DEF IInv

\* The invariant holds throughout: applications follow each other, and the newest
\* and the file agree but for the sessions an older one interfered with.
THEOREM Invariant == Spec => []IInv
<1>1. Init => IInv
  BY InitIInv
<1>2. IInv /\ [Next]_vars => IInv'
  <2>1. ASSUME IInv, Next PROVE IInv'
    BY <2>1, TypeStep, InTurnStep, OrderedStep, FreshStep, InStepStep, SilentStep DEF IInv
  <2>. QED  BY <2>1, Unchanged
<1>. QED  BY <1>1, <1>2, PTL DEF Spec

\* The state keeps its types: in particular the Map of an application and the file
\* have only sessions that were issued.
THEOREM LifecycleTypeCorrect == Spec => []LifecycleTypeOK
<1>1. IInv => LifecycleTypeOK
  BY DEF IInv
<1>. QED  BY <1>1, Invariant, PTL

\* A disposed application does nothing any more: no server of it listens that was
\* up in time to be closed, no timer runs, no client is piped through it.
THEOREM SilentAfterDispose == Spec => []DisposedIsSilent
<1>1. IInv => DisposedIsSilent
  BY DEF IInv
<1>. QED  BY <1>1, Invariant, PTL

\* What was logged out, or ended by a new password, no gate that was up in time
\* accepts, however often the plugin was applied since and whatever was hashing when
\* it was disposed - but for the sessions that an application opened or ended when
\* the next one had already read the file.
THEOREM RevokedForAll == Spec => []RevokedEverywhere
<1>1. IInv => RevokedEverywhere
  <2>. SUFFICES ASSUME IInv, NEW i \in Instances, gate[i] = "up", <<"gate", i>> \notin late
                PROVE  store[i] \cap over \subseteq astray
    BY DEF RevokedEverywhere, Listening
  <2>1. phase[i] \in {"running", "closing"} /\ InTurn
    BY DEF IInv, InStep
  <2>2. store[i] \ astray = file \ astray
    BY <2>1, AtWorkIsNewest DEF IInv, InStep, Alive
  <2>. QED  BY <2>2 DEF IInv, InStep
<1>. QED  BY <1>1, Invariant, PTL
=============================================================================
