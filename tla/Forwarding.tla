----------------------------- MODULE Forwarding -----------------------------
(***************************************************************************)
(* A browser that uses the gate over days: the session slides on the       *)
(* server whenever a request shows its token, the browser's cookie only    *)
(* when a response carries it anew.  A request is admitted and its session *)
(* renewed at once (proxy.mjs, verify of session-store.mjs), then it waits *)
(* for the DSH cookie, then for the upstream, and its response may carry   *)
(* the upstream's own Set-Cookie or never arrive.                          *)
(*                                                                         *)
(* A cookie whose value is no token - none, or written by an upstream - is *)
(* NoToken.  Losing the session table to a crash is the business of        *)
(* SessionStore: here Restart keeps it.                                    *)
(***************************************************************************)
EXTENDS DshAuth

CONSTANTS
  Tokens,    \* session tokens, one per login
  NoToken,   \* a cookie without a token of the gate
  Requests,  \* requests the browser may have under way
  TTL        \* SESSION_TTL_MS and SESSION_MAX_AGE, in ticks

ASSUME ForwardingAssumption ==
  /\ NoToken \notin Tokens
  /\ TTL \in Nat \ {0}

VARIABLES
  live,     \* live[t]: expiresAt of the session on the server, 0 if there is none
  cookie,   \* the browser's cookie and when it runs out
  req,      \* the requests under way
  missed,   \* history: the last renewal of t reached the browser in no response
  lastUse,  \* history: when the last page of t that was answered was asked for,
            \* or its login, 0 before it
  steady    \* history: never half a life between two such pages of t

vars == <<now, authVars, live, cookie, req, missed, lastUse, steady>>

-----------------------------------------------------------------------------
(* Requests and sessions.  Definitions named Faulty... are seeded faults:  *)
(* plausible slips in the definition that follows them, never used by      *)
(* Next, kept to see that each property can fail.                          *)

\* page: proxied to the upstream; logs: to the log viewer; ws: an upgrade.
Kinds == {"page", "logs", "ws"}

\* What the response of an upstream has in Set-Cookie: nothing, cookies of its
\* own, or only cookies with a name the gate keeps for itself.
SetCookies == {"none", "own", "reserved"}

Request ==
  [st : {"idle", "waiting", "sent", "overflow"}, kind : Kinds, tok : Tokens \cup {NoToken},
   refresh : BOOLEAN, bare : BOOLEAN, since : Nat]

Idle == [st |-> "idle", kind |-> "page", tok |-> NoToken,
         refresh |-> FALSE, bare |-> FALSE, since |-> 0]

\* The token the browser shows.
Shown == IF cookie.until > now THEN cookie.tok ELSE NoToken

Renew == TTL \div 2

FaultyDue(t) == live[t] - now < Renew - 1

Due(t) == live[t] - now < Renew

\* verify() of a live session.
Verified(t) == IF Due(t) THEN [live EXCEPT ![t] = now + TTL] ELSE live

FaultyCarries(kind) == kind = "page"

\* The renewal is handed to the response of a page and of the log viewer; the
\* upgrade forgets it.
Carries(kind) == kind \in {"page", "logs"}

\* sanitizeUpstreamSetCookie() at every exit of proxyForward but one: a response
\* too large to be rewritten is streamed with the headers it came with.
Delivered(r, sc) == IF sc = "reserved" /\ req[r].st # "overflow" THEN "none" ELSE sc

Init ==
  /\ now = 1
  /\ AuthInit
  /\ live = [t \in Tokens |-> 0]
  /\ cookie = [tok |-> NoToken, until |-> 0]
  /\ req = [r \in Requests |-> Idle]
  /\ missed = [t \in Tokens |-> FALSE]
  /\ lastUse = [t \in Tokens |-> 0]
  /\ steady = [t \in Tokens |-> TRUE]

-----------------------------------------------------------------------------
(* The gate                                                                *)

\* A login that succeeded, with its answer: the browser's old session ends.
LogIn(t) ==
  /\ lastUse[t] = 0
  /\ live' = [u \in Tokens |-> IF u = t THEN now + TTL
                               ELSE IF u = Shown THEN 0 ELSE live[u]]
  /\ cookie' = [tok |-> t, until |-> now + TTL]
  /\ lastUse' = [lastUse EXCEPT ![t] = now]
  /\ UNCHANGED <<now, authVars, req, missed, steady>>

\* A request that shows a live session; a page or an upgrade then waits for the
\* DSH cookie unless the provider has it at hand.
Arrive(r, kind) ==
  /\ req[r].st = "idle"
  /\ Shown # NoToken /\ live[Shown] > now
  /\ live' = Verified(Shown)
  /\ missed' = [missed EXCEPT ![Shown] = IF Due(Shown) THEN kind = "ws" ELSE @]
  /\ req' = [req EXCEPT ![r] =
       [st |-> IF kind = "logs" \/ Usable THEN "sent" ELSE "waiting",
        kind |-> kind, tok |-> Shown, refresh |-> Due(Shown) /\ Carries(kind),
        bare |-> FALSE, since |-> now]]
  /\ IF kind = "logs" THEN UNCHANGED authVars ELSE Ask
  /\ UNCHANGED <<now, cookie, lastUse, steady>>

\* A request that shows a session that is over: verify() forgets it.
TurnAway ==
  /\ Shown # NoToken /\ live[Shown] <= now
  /\ live' = [live EXCEPT ![Shown] = 0]
  /\ UNCHANGED <<now, authVars, cookie, req, missed, lastUse, steady>>

\* The gate's own endpoints verify the session too, and once more for the access
\* log: a failed POST /gate-login, GET /gate/logout, a guest at the log viewer.
GateRequest ==
  /\ Shown # NoToken /\ live[Shown] > now
  /\ live' = Verified(Shown)
  /\ missed' = [missed EXCEPT ![Shown] = @ \/ Due(Shown)]
  /\ UNCHANGED <<now, authVars, cookie, req, lastUse, steady>>

\* The requests that wait go on, with the DSH cookie or bare.
Resumed(bare) ==
  [r \in Requests |-> IF req[r].st = "waiting"
                      THEN [req[r] EXCEPT !.st = "sent", !.bare = bare] ELSE req[r]]

FetchSucceeds ==
  /\ Acquired
  /\ req' = Resumed(FALSE)
  /\ UNCHANGED <<now, live, cookie, missed, lastUse, steady>>

FetchFails ==
  /\ NotAcquired
  /\ req' = Resumed(held' = 0)
  /\ UNCHANGED <<now, live, cookie, missed, lastUse, steady>>

Timer ==
  /\ Prewarm \/ Refresh
  /\ UNCHANGED <<now, live, cookie, req, missed, lastUse, steady>>

-----------------------------------------------------------------------------
(* The upstream, the browser, the process                                  *)

\* What the browser keeps of a response: writeHead() lets the upstream's
\* Set-Cookie replace the one attachSessionRefresh() had appended.
Arrived(r, sc) ==
  CASE sc = "none" /\ req[r].refresh -> [tok |-> req[r].tok, until |-> now + TTL]
    [] sc = "reserved" -> [tok |-> NoToken, until |-> now + TTL]
    [] OTHER -> cookie

Used(t, at) ==
  /\ lastUse' = [lastUse EXCEPT ![t] = IF at > @ THEN at ELSE @]
  /\ steady' = [steady EXCEPT ![t] = @ /\ at - lastUse[t] < Renew]

\* collectBody() gives up buffering at 8 MB and sends the head it has.
Overflow(r) ==
  /\ req[r].st = "sent" /\ req[r].kind = "page"
  /\ req' = [req EXCEPT ![r].st = "overflow"]
  /\ UNCHANGED <<now, authVars, live, cookie, missed, lastUse, steady>>

\* The head of the response reaches the browser.  The log viewer sets no cookies,
\* and the 502 of an unreachable upstream is like a response without any.
Answer(r, sc) ==
  /\ req[r].st \in {"sent", "overflow"} /\ req[r].kind # "ws"
  /\ req[r].kind = "logs" => sc = "none"
  /\ cookie' = Arrived(r, Delivered(r, sc))
  /\ missed' = IF req[r].refresh /\ Delivered(r, sc) # "none"
               THEN [missed EXCEPT ![req[r].tok] = TRUE] ELSE missed
  /\ IF req[r].kind = "page" THEN Used(req[r].tok, req[r].since)
     ELSE UNCHANGED <<lastUse, steady>>
  /\ req' = [req EXCEPT ![r] = Idle]
  /\ UNCHANGED <<now, authVars, live>>

\* The answer to an upgrade: a tunnel, or a refusal.
Upgraded(r) ==
  /\ req[r].st = "sent" /\ req[r].kind = "ws"
  /\ req' = [req EXCEPT ![r] = Idle]
  /\ UNCHANGED <<now, authVars, live, cookie, missed, lastUse, steady>>

LostRenewals(gone) ==
  [t \in Tokens |-> missed[t] \/ \E r \in gone : req[r].tok = t /\ req[r].refresh]

\* The browser goes away: the gate drops the upstream and nothing arrives.
Abort(r) ==
  /\ req[r].st # "idle"
  /\ missed' = LostRenewals({r})
  /\ req' = [req EXCEPT ![r] = Idle]
  /\ UNCHANGED <<now, authVars, live, cookie, lastUse, steady>>

\* Another process, with the sessions of the file and a new provider.
Restart ==
  /\ missed' = LostRenewals(Requests)
  /\ req' = [r \in Requests |-> Idle]
  /\ held' = 0 /\ pending' = FALSE /\ timer' = 0 /\ discarded' = TRUE
  /\ UNCHANGED <<now, live, cookie, lastUse, steady>>

\* A fetch is over in less than a tick, after ten seconds at the latest, and so is a
\* page, after two idle minutes of its upstream.  An upgrade has no limit.
Tick ==
  /\ now < MaxTime
  /\ \A r \in Requests :
       \/ req[r].st = "idle" \/ req[r].since = now
       \/ req[r].st = "sent" /\ req[r].kind = "ws"
  /\ now' = now + 1
  /\ UNCHANGED <<authVars, live, cookie, req, missed, lastUse, steady>>

Next ==
  \/ \E t \in Tokens : LogIn(t)
  \/ \E r \in Requests, kind \in Kinds : Arrive(r, kind)
  \/ TurnAway
  \/ GateRequest
  \/ FetchSucceeds
  \/ FetchFails
  \/ Timer
  \/ \E r \in Requests : Overflow(r)
  \/ \E r \in Requests, sc \in SetCookies : Answer(r, sc)
  \/ \E r \in Requests : Upgraded(r)
  \/ \E r \in Requests : Abort(r)
  \/ Restart
  \/ Tick

Spec == Init /\ [][Next]_vars

-----------------------------------------------------------------------------
(* Properties                                                              *)

\* Every variable stays in its type.
TypeOK ==
  /\ AuthTypeOK
  /\ live \in [Tokens -> Nat]
  /\ cookie \in [tok : Tokens \cup {NoToken}, until : Nat]
  /\ req \in [Requests -> Request]
  /\ missed \in [Tokens -> BOOLEAN]
  /\ lastUse \in [Tokens -> Nat]
  /\ steady \in [Tokens -> BOOLEAN]

\* A session whose last page is less than half a life ago is alive on the server,
\* unless a login of its browser has ended it.
SessionSlides ==
  \A t \in Tokens :
    live[t] # 0 /\ now - lastUse[t] < Renew => live[t] > now

\* The browser's cookie lasts as long as its session, except when a renewal was
\* not passed on (missed) or the response that carries it is still under way.
CookieKeepsUp ==
  \A t \in Tokens :
    cookie.tok = t /\ live[t] > now /\ cookie.until < live[t] =>
      missed[t] \/ \E r \in Requests : req[r].tok = t /\ req[r].refresh

\* A request goes to the upstream without the DSH cookie only if none has been
\* acquired since the timer threw the last one away: a failed fetch costs nothing.
BareOnlyAfterDiscard ==
  [][\A r \in Requests : req'[r].bare /\ ~req[r].bare => discarded]_vars

\* Only a response that outgrew the buffer can put an upstream's value in the
\* place of the gate's cookie.
OnlyOverflowWritesOver ==
  [][cookie.tok # NoToken /\ cookie'.tok = NoToken =>
       \E r \in Requests : req[r].st = "overflow" /\ req'[r].st = "idle"]_vars

\* README.md:27, "used every day, never signed out": a browser that gets a page
\* more often than every half life, and has nothing under way, still shows the
\* token of its session.
DailyUseStaysSignedIn ==
  \A t \in Tokens :
    /\ cookie.tok = t /\ steady[t] /\ now - lastUse[t] < Renew
    /\ \A r \in Requests : req[r].st = "idle"
    => Shown = t
=============================================================================
