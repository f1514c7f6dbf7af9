------------------------------ MODULE Lifecycle ------------------------------
(***************************************************************************)
(* The plugin applied and disposed again in one process (lib/index.js,     *)
(* apply and its effect): each application has a gate, a log viewer, timers *)
(* of cookie providers, a Map of sessions and handlers of the settings of  *)
(* its own, while the file of the sessions is one.                         *)
(*                                                                         *)
(* The servers come up later than apply() returns, dispose looks at those  *)
(* that are up, and waits for the viewer before it looks at the gate.      *)
(* Logins and password changes that are hashing meanwhile go on, with the  *)
(* Map and the file.  The host awaits a dispose before it applies the      *)
(* plugin again.                                                           *)
(*                                                                         *)
(* Abstracted: one entry, whose sessions a password change ends; a login   *)
(* has a beginning and an end (Gate has its awaits); the store keeps what  *)
(* it is given (see SessionStore) but does not compact.                    *)
(***************************************************************************)
EXTENDS Tunnels

CONSTANTS
  Tokens,      \* bound: sessions issued in one behaviour
  DshEntries,  \* entries with dsh: true at start
  MaxTimers    \* bound: providers started by one application

ASSUME LifecycleAssumption ==
  /\ DshEntries \in Nat
  /\ MaxTimers \in Nat /\ DshEntries <= MaxTimers

VARIABLES
  phase,     \* phase[i]: how far application i of the plugin is
  gate,      \* gate[i]: its gate server
  viewer,    \* viewer[i]: its log viewer
  viewing,   \* viewing[i]: somebody is connected to its viewer
  timers,    \* timers[i]: the providers whose timers run
  store,     \* store[i]: the sessions in its Map
  file,      \* the sessions sessions.jsonl replays to
  trying,    \* trying[i]: the logins under way at it, by the sessions they will get
  changing,  \* changing[i]: a password.set of it is hashing
  issued,    \* history: the sessions that were issued
  over,      \* history: those logged out, or issued before the last password change
  late,      \* history: servers that came up when dispose had looked for them
  astray     \* history: those one application opened or ended when another had the file

servers  == <<gate, viewer, viewing, timers, late>>
sessions == <<store, file, trying, changing, issued, over, astray>>
vars     == <<tun, phase, servers, sessions>>

-----------------------------------------------------------------------------
(* Definitions named Faulty... are seeded faults: plausible slips in the   *)
(* definition that follows them, never used by Next, kept to see that each *)
(* property can fail.                                                      *)

Phases  == {"unborn", "running", "closing", "disposed"}
Servers == {"none", "starting", "up", "closing", "closed"}

Init ==
  /\ TunnelsInit
  /\ phase = [i \in Instances |-> "unborn"]
  /\ gate = [i \in Instances |-> "none"]
  /\ viewer = [i \in Instances |-> "none"]
  /\ viewing = [i \in Instances |-> FALSE]
  /\ timers = [i \in Instances |-> 0]
  /\ store = [i \in Instances |-> {}]
  /\ file = {}
  /\ trying = [i \in Instances |-> {}]
  /\ changing = [i \in Instances |-> FALSE]
  /\ issued = {}
  /\ over = {}
  /\ late = {}
  /\ astray = {}

\* apply()
Apply(i) ==
  /\ phase[i] = "unborn"
  /\ i > 1 => phase[i - 1] = "disposed"
  /\ phase' = [phase EXCEPT ![i] = "running"]
  /\ gate' = [gate EXCEPT ![i] = "starting"]
  /\ viewer' = [viewer EXCEPT ![i] = "starting"]
  /\ timers' = [timers EXCEPT ![i] = DshEntries]
  /\ store' = [store EXCEPT ![i] = file]
  /\ UNCHANGED <<tun, viewing, late, file, trying, changing, issued, over, astray>>

-----------------------------------------------------------------------------
(* Servers                                                                 *)

Listening(s, i) == s[i] = "up"

\* createGateProxy() resolves: the port was free.
GateUp(i) ==
  /\ gate[i] = "starting"
  /\ \A j \in Instances : ~Listening(gate, j)
  /\ gate' = [gate EXCEPT ![i] = "up"]
  /\ late' = IF phase[i] = "disposed" THEN late \cup {<<"gate", i>>} ELSE late
  /\ UNCHANGED <<tun, phase, viewer, viewing, timers, sessions>>

\* createLogViewer() resolves.
ViewerUp(i) ==
  /\ viewer[i] = "starting"
  /\ \A j \in Instances : ~Listening(viewer, j)
  /\ viewer' = [viewer EXCEPT ![i] = "up"]
  /\ late' = IF phase[i] # "running" THEN late \cup {<<"viewer", i>>} ELSE late
  /\ UNCHANGED <<tun, phase, gate, viewing, timers, sessions>>

\* The port is taken, by a server of an earlier application or of somebody else:
\* logged, and nothing tries again.
NotUp(i) ==
  /\ \/ gate[i] = "starting" /\ gate' = [gate EXCEPT ![i] = "none"] /\ UNCHANGED viewer
     \/ viewer[i] = "starting" /\ viewer' = [viewer EXCEPT ![i] = "none"] /\ UNCHANGED gate
  /\ UNCHANGED <<tun, phase, viewing, timers, late, sessions>>

\* A browser connects, which keeps the connection for as long as it likes: the page
\* asks again on it every few seconds, also of a viewer that is closing.
View(i) ==
  /\ Listening(viewer, i)
  /\ ~viewing[i]
  /\ viewing' = [viewing EXCEPT ![i] = TRUE]
  /\ UNCHANGED <<tun, phase, gate, viewer, timers, late, sessions>>

\* The last of them disconnects.
Viewed(i) ==
  /\ viewing[i]
  /\ viewing' = [viewing EXCEPT ![i] = FALSE]
  /\ UNCHANGED <<tun, phase, gate, viewer, timers, late, sessions>>

\* A dsh row is added, or added again: each time a provider starts its timers.
AddDsh(i) ==
  /\ phase[i] = "running"
  /\ timers[i] < MaxTimers
  /\ timers' = [timers EXCEPT ![i] = @ + 1]
  /\ UNCHANGED <<tun, phase, gate, viewer, viewing, late, sessions>>

-----------------------------------------------------------------------------
(* Sessions                                                                *)

FaultyFileWithout(ts) == file

\* sessions.jsonl with a revocation line for each of these sessions.
FileWithout(ts) == file \ ts

\* The sessions that are astray when application i opens or ends the ones in ts:
\* another one has read the file by now, and knows nothing of it.
Astray(i, ts) ==
  IF \E j \in Instances : j > i /\ phase[j] # "unborn" THEN astray \cup ts ELSE astray

\* /gate-login, or the first /gate/setup, up to the check of the password.
LoginBegins(i, t) ==
  /\ Listening(gate, i)
  /\ t \notin issued
  /\ \A j \in Instances : t \notin trying[j]
  /\ trying' = [trying EXCEPT ![i] = @ \cup {t}]
  /\ UNCHANGED <<tun, phase, servers, store, file, changing, issued, over, astray>>

\* The upstream has answered the probe, or the hash of the new password is there:
\* the session is opened, even if the gate was closed meanwhile.
LoginEnds(i, t) ==
  /\ t \in trying[i]
  /\ trying' = [trying EXCEPT ![i] = @ \ {t}]
  /\ issued' = issued \cup {t}
  /\ store' = [store EXCEPT ![i] = @ \cup {t}]
  /\ file' = file \cup {t}
  /\ astray' = Astray(i, {t})
  /\ UNCHANGED <<tun, phase, servers, changing, over>>

Logout(i, t) ==
  /\ Listening(gate, i)
  /\ t \in store[i]
  /\ store' = [store EXCEPT ![i] = @ \ {t}]
  /\ file' = FileWithout({t})
  /\ over' = over \cup {t}
  /\ astray' = Astray(i, {t})
  /\ UNCHANGED <<tun, phase, servers, trying, changing, issued>>

\* webpass.password.set up to the hashing.
ChangePassword(i) ==
  /\ phase[i] = "running"
  /\ ~changing[i]
  /\ changing' = [changing EXCEPT ![i] = TRUE]
  /\ UNCHANGED <<tun, phase, servers, store, file, trying, issued, over, astray>>

\* The hash is there, and the handler goes on with the Map it began with,
\* whether or not the plugin has been applied again.
PasswordSaved(i) ==
  /\ changing[i]
  /\ changing' = [changing EXCEPT ![i] = FALSE]
  /\ over' = issued
  /\ store' = [store EXCEPT ![i] = {}]
  /\ file' = FileWithout(store[i])
  /\ astray' = Astray(i, issued)
  /\ UNCHANGED <<tun, phase, servers, trying, issued>>

-----------------------------------------------------------------------------
(* Tunnels                                                                 *)

TunnelUpgrade(u, i) ==
  /\ Listening(gate, i)
  /\ store[i] # {}
  /\ Upgrade(u, i)
  /\ UNCHANGED <<phase, servers, sessions>>

TunnelGoesOn(u) ==
  /\ TunnelStep(u)
  /\ UNCHANGED <<phase, servers, sessions>>

-----------------------------------------------------------------------------
(* Disposing                                                               *)

\* The effect up to its first await: timers are stopped, handlers removed, and a
\* viewer that is up accepts no new connections.
Dispose(i) ==
  /\ phase[i] = "running"
  /\ phase' = [phase EXCEPT ![i] = "closing"]
  /\ timers' = [timers EXCEPT ![i] = 0]
  /\ viewer' = [viewer EXCEPT ![i] = IF @ = "up" THEN "closing" ELSE @]
  /\ UNCHANGED <<tun, gate, viewing, late, sessions>>

\* server.close() without destroying the sockets waits for every tunnel.
FaultyDisposeGate(i) ==
  /\ phase[i] = "closing"
  /\ viewer[i] = "closing" => ~viewing[i]
  /\ gate[i] = "up" => \A u \in Slots : tun[u].gate = i => tun[u].at # "wired"
  /\ phase' = [phase EXCEPT ![i] = "disposed"]
  /\ viewer' = [viewer EXCEPT ![i] = IF @ = "closing" THEN "closed" ELSE @]
  /\ gate' = [gate EXCEPT ![i] = IF @ = "up" THEN "closed" ELSE @]
  /\ UNCHANGED <<tun, viewing, timers, late, sessions>>

\* Nobody is connected to the viewer any more, if there was one; now the gate is
\* closed, with the sockets of all its clients - if it is up by now.
DisposeGate(i) ==
  /\ phase[i] = "closing"
  /\ viewer[i] = "closing" => ~viewing[i]
  /\ phase' = [phase EXCEPT ![i] = "disposed"]
  /\ viewer' = [viewer EXCEPT ![i] = IF @ = "closing" THEN "closed" ELSE @]
  /\ IF gate[i] = "up"
     THEN /\ gate' = [gate EXCEPT ![i] = "closed"]
          /\ tun' = [u \in Slots |-> IF tun[u].gate = i THEN ClientLost(tun[u]) ELSE tun[u]]
     ELSE UNCHANGED <<gate, tun>>
  /\ UNCHANGED <<viewing, timers, late, sessions>>

\* The process dies: what applications there were are gone altogether.
Restart ==
  LET born == {i \in Instances : phase[i] # "unborn"}
      Off(f, none) == [i \in Instances |-> IF i \in born THEN none ELSE f[i]]
  IN  /\ phase' = Off(phase, "disposed")
      /\ gate' = Off(gate, "closed")
      /\ viewer' = Off(viewer, "closed")
      /\ viewing' = Off(viewing, FALSE)
      /\ timers' = Off(timers, 0)
      /\ store' = Off(store, {})
      /\ trying' = Off(trying, {})
      /\ changing' = Off(changing, FALSE)
      /\ tun' = [u \in Slots |-> NoTunnel]
      /\ UNCHANGED <<file, issued, over, late, astray>>

Next ==
  \/ \E i \in Instances : Apply(i)
  \/ \E i \in Instances : GateUp(i)
  \/ \E i \in Instances : ViewerUp(i)
  \/ \E i \in Instances : NotUp(i)
  \/ \E i \in Instances : View(i)
  \/ \E i \in Instances : Viewed(i)
  \/ \E i \in Instances : AddDsh(i)
  \/ \E i \in Instances, t \in Tokens : LoginBegins(i, t)
  \/ \E i \in Instances, t \in Tokens : LoginEnds(i, t)
  \/ \E i \in Instances, t \in Tokens : Logout(i, t)
  \/ \E i \in Instances : ChangePassword(i)
  \/ \E i \in Instances : PasswordSaved(i)
  \/ \E u \in Slots, i \in Instances : TunnelUpgrade(u, i)
  \/ \E u \in Slots : TunnelGoesOn(u)
  \/ \E i \in Instances : Dispose(i)
  \/ \E i \in Instances : DisposeGate(i)
  \/ Restart

\* An await that is over is gone on from.  Nothing says that whoever is connected to
\* the viewer ever leaves.
Fairness == \A i \in Instances : WF_vars(DisposeGate(i))

Spec == Init /\ [][Next]_vars /\ Fairness

-----------------------------------------------------------------------------
(* Properties                                                              *)

\* The types of the state; what is not applied yet has nothing, and the file has
\* only sessions that were issued.
LifecycleTypeOK ==
  /\ TunnelsTypeOK
  /\ phase \in [Instances -> Phases]
  /\ gate \in [Instances -> Servers \ {"closing"}]
  /\ viewer \in [Instances -> Servers]
  /\ viewing \in [Instances -> BOOLEAN]
  /\ timers \in [Instances -> 0..MaxTimers]
  /\ store \in [Instances -> SUBSET issued]
  /\ file \subseteq issued
  /\ trying \in [Instances -> SUBSET Tokens]
  /\ changing \in [Instances -> BOOLEAN]
  /\ issued \subseteq Tokens
  /\ over \subseteq issued
  /\ late \subseteq {"gate", "viewer"} \X Instances
  /\ astray \subseteq issued

\* Of an application that was disposed no server listens but one that came up when
\* dispose had looked for it, no timer runs however often a provider was replaced,
\* and no client is connected to an upstream through it.  (A connection to an
\* upstream that had not answered yet may stay, without its client; and logins and
\* password changes that were hashing go on.)
DisposedIsSilent ==
  \A i \in Instances : phase[i] = "disposed" =>
    /\ gate[i] = "up" => <<"gate", i>> \in late
    /\ viewer[i] = "up" => <<"viewer", i>> \in late
    /\ timers[i] = 0
    /\ <<"gate", i>> \notin late =>
         \A u \in Slots : tun[u].gate = i => tun[u].client = "gone" /\ tun[u].at # "wired"

\* A session that was logged out, or opened before a password change, is accepted
\* by no gate that was up in time to be closed, also not after the plugin was applied
\* again or the process died: but for the sessions that an application opened or
\* ended when another one had already read the file.
RevokedEverywhere ==
  \A i \in Instances :
    Listening(gate, i) /\ <<"gate", i>> \notin late => store[i] \cap over \subseteq astray

\* What the documentation says of a password change: it ends all sessions.
RevokedAtOnce ==
  \A i \in Instances : Listening(gate, i) /\ <<"gate", i>> \notin late => store[i] \cap over = {}

\* What the effect says of itself: a dispose stops the gate and the log viewer.
ServersStop == \A i \in Instances : phase[i] = "disposed" => gate[i] # "up" /\ viewer[i] # "up"

\* A dispose comes to its end, however many clients and tunnels the gate has, unless
\* somebody stays connected to the viewer for good.
DisposeEnds ==
  \A i \in Instances : [](phase[i] = "closing" => <>(phase[i] = "disposed" \/ []viewing[i]))
=============================================================================
