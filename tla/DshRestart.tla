----------------------------- MODULE DshRestart -----------------------------
(***************************************************************************)
(* The provider of DSH's cookie while the DSH behind its entry restarts    *)
(* and the provider does not: an entry with dsh: true may be any DSH.      *)
(* Whether a DSH refuses the cookies of its earlier runs is not in this    *)
(* repository; README.en.md:170 says what is to happen when it does.       *)
(***************************************************************************)
EXTENDS DshAuth

CONSTANT Requests  \* requests under way

VARIABLES
  started,  \* when the DSH last started: it refuses cookies from before
  req,      \* req[r]: a request, and the cookie it was sent with
  refused,  \* history: the last cookie a request was refused with, 0 before
  had       \* history: the provider has had a cookie

vars == <<now, authVars, started, req, refused, had>>

Idle == [st |-> "idle", with |-> 0]
Waiting == [st |-> "waiting", with |-> 0]
Sent(c) == [st |-> "sent", with |-> c]

Init ==
  /\ now = 1
  /\ AuthInit
  /\ started = 1
  /\ req = [r \in Requests |-> Idle]
  /\ refused = 0
  /\ had = FALSE

\* A page or an upgrade of the entry asks for the cookie.
Forward(r) ==
  /\ req[r] = Idle
  /\ Ask
  /\ req' = [req EXCEPT ![r] = IF Usable THEN Sent(held) ELSE Waiting]
  /\ UNCHANGED <<now, started, refused, had>>

FetchEnds ==
  /\ Acquired \/ NotAcquired
  /\ req' = [r \in Requests |-> IF req[r] = Waiting THEN Sent(held') ELSE req[r]]
  /\ had' = (had \/ held' # 0)
  /\ UNCHANGED <<now, started, refused>>

Timer ==
  /\ Prewarm \/ Refresh
  /\ UNCHANGED <<now, started, req, refused, had>>

\* The answer, an error or a tunnel goes to the browser as it is; nothing looks at
\* its status.
Answered(r) ==
  /\ req[r].st = "sent"
  /\ refused' = IF req[r].with # 0 /\ req[r].with < started THEN req[r].with ELSE refused
  /\ req' = [req EXCEPT ![r] = Idle]
  /\ UNCHANGED <<now, authVars, started, had>>

\* Time passes, and the DSH may have restarted.
Tick ==
  /\ now < MaxTime
  /\ now' = now + 1
  /\ started' \in {started, now'}
  /\ UNCHANGED <<authVars, req, refused, had>>

Next ==
  \/ \E r \in Requests : Forward(r)
  \/ FetchEnds
  \/ Timer
  \/ \E r \in Requests : Answered(r)
  \/ Tick

Spec == Init /\ [][Next]_vars

-----------------------------------------------------------------------------
(* Properties                                                              *)

\* README.en.md:170, "the next request re-fetches on failure": a request that finds
\* the cookie held which the DSH has refused before fetches another.
NextRequestFetches ==
  [][\A r \in Requests :
       req[r].st = "idle" /\ req'[r].st # "idle" /\ held # 0 /\ held = refused
         => pending']_vars

\* lib/dsh-auth.mjs:42, "fetch failed (the old value is kept)": a request that waited
\* for a fetch is sent with a cookie if the provider has ever had one.
OldValueKept ==
  [][\A r \in Requests :
       req[r] = Waiting /\ req'[r].st = "sent" /\ had => req'[r].with # 0]_vars
=============================================================================
