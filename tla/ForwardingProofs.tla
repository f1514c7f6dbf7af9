--------------------------- MODULE ForwardingProofs ---------------------------
(***************************************************************************)
(* Proofs about Forwarding, for any number of logins, requests and ticks.  *)
(* A session slides because no request that shows it leaves it with less   *)
(* than half a life; the browser's cookie keeps up because every renewal   *)
(* is under way, delivered or recorded as missed.                          *)
(***************************************************************************)
EXTENDS Forwarding, TLAPS

USE DshAuthAssumption, ForwardingAssumption

-----------------------------------------------------------------------------
(* The inductive invariant                                                 *)

\* Requests are of the past, an empty slot and an upgrade carry no renewal, and no
\* session lasts longer than a life from now.
Timely ==
  /\ now >= 1
  /\ \A t \in Tokens : live[t] <= now + TTL
  /\ \A r \in Requests : /\ req[r].since <= now
                         /\ req[r].st = "idle" \/ req[r].kind = "ws" => ~req[r].refresh
                         /\ req[r].refresh => req[r].tok # NoToken

\* Whoever has shown a session, and is under way or was the last to be answered,
\* left it with at least half a life.
HalfALife ==
  \A t \in Tokens : live[t] # 0 =>
    /\ live[t] - lastUse[t] >= Renew
    /\ \A r \in Requests :
         req[r].st # "idle" /\ req[r].tok = t => live[t] - req[r].since >= Renew

\* What has been acquired is held until it is thrown away.
HeldUntilDiscarded == ~discarded => held # 0

IInv == /\ TypeOK
        /\ Timely
        /\ HalfALife
        /\ HeldUntilDiscarded
        /\ CookieKeepsUp

LEMMA RenewBounds == Renew \in Nat /\ Renew <= TTL
BY DEF Renew

LEMMA IdleTypes == Idle \in Request /\ Idle.st = "idle" /\ ~Idle.refresh
                   /\ Idle.since = 0 /\ Idle.tok = NoToken /\ ~Idle.bare
BY DEF Idle, Request, Kinds

LEMMA ShownType == ASSUME TypeOK PROVE Shown \in Tokens \cup {NoToken}
BY DEF TypeOK, Shown

-----------------------------------------------------------------------------
(* Types                                                                   *)

LEMMA TypeInit == Init => TypeOK
<1>. SUFFICES ASSUME Init PROVE TypeOK
  OBVIOUS
<1>1. AuthTypeOK
  BY DEF Init, AuthInit, AuthTypeOK
<1>2. req \in [Requests -> Request]
  BY IdleTypes DEF Init
<1>. QED  BY <1>1, <1>2 DEF Init, TypeOK

LEMMA VerifiedType ==
  ASSUME TypeOK, NEW t \in Tokens
  PROVE  Verified(t) \in [Tokens -> Nat]
BY DEF TypeOK, AuthTypeOK, Verified

\* What going on does to a request that waits, and to the others nothing.
LEMMA ResumedFields ==
  ASSUME TypeOK, NEW b \in BOOLEAN, NEW r \in Requests
  PROVE  /\ Resumed(b)[r] \in Request
         /\ Resumed(b)[r].st # "waiting"
         /\ Resumed(b)[r].st = "idle" <=> req[r].st = "idle"
         /\ Resumed(b)[r].kind = req[r].kind
         /\ Resumed(b)[r].tok = req[r].tok
         /\ Resumed(b)[r].refresh = req[r].refresh
         /\ Resumed(b)[r].since = req[r].since
         /\ Resumed(b)[r].bare \in {b, req[r].bare}
<1>1. req[r] \in Request
  BY DEF TypeOK
<1>2. CASE req[r].st = "waiting"
  <2>. DEFINE sent == [req[r] EXCEPT !.st = "sent"]
              gone == [sent EXCEPT !.bare = b]
  <2>1. Resumed(b)[r] = gone
    BY <1>2 DEF Resumed
  <2>2. /\ sent \in Request /\ sent.st = "sent" /\ sent.tok = req[r].tok
        /\ sent.kind = req[r].kind /\ sent.refresh = req[r].refresh /\ sent.since = req[r].since
    BY <1>1 DEF Request
  <2>. HIDE DEF sent
  <2>3. /\ gone \in Request /\ gone.st = sent.st /\ gone.tok = sent.tok
        /\ gone.kind = sent.kind /\ gone.refresh = sent.refresh /\ gone.since = sent.since /\ gone.bare = b
    BY <2>2 DEF Request
  <2>. HIDE DEF gone
  <2>. QED  BY <1>2, <2>1, <2>2, <2>3
<1>3. CASE req[r].st # "waiting"
  <2>1. Resumed(b)[r] = req[r]
    BY <1>3 DEF Resumed
  <2>. QED  BY <1>1, <1>3, <2>1
<1>. QED  BY <1>2, <1>3

LEMMA ResumedType ==
  ASSUME TypeOK, NEW b \in BOOLEAN
  PROVE  Resumed(b) \in [Requests -> Request]
<1>1. Resumed(b) = [r \in Requests |-> Resumed(b)[r]]
  BY DEF Resumed
<1>. QED  BY <1>1, ResumedFields

LEMMA TypeStep == TypeOK /\ [Next]_vars => TypeOK'
<1> SUFFICES ASSUME TypeOK, [Next]_vars PROVE TypeOK'
  OBVIOUS
<1>. USE DEF TypeOK, AuthTypeOK
<1>1. CASE \E t \in Tokens : LogIn(t)
  <2>1. PICK t \in Tokens : LogIn(t)
    BY <1>1
  <2>2. now + TTL \in Nat
    OBVIOUS
  <2>3. live' \in [Tokens -> Nat] /\ cookie' \in [tok : Tokens \cup {NoToken}, until : Nat]
    BY <2>1, <2>2 DEF LogIn
  <2>. QED  BY <2>1, <2>3 DEF LogIn, authVars
<1>2. CASE \E r \in Requests, kind \in Kinds : Arrive(r, kind)
  <2>1. PICK r \in Requests, kind \in Kinds : Arrive(r, kind)
    BY <1>2
  <2>2. Shown \in Tokens
    BY <2>1, ShownType DEF Arrive
  <2>3. live' \in [Tokens -> Nat]
    BY <2>1, <2>2, VerifiedType DEF Arrive
  <2>4. req' \in [Requests -> Request]
    BY <2>1, <2>2 DEF Arrive, Request, Due, Carries, Usable
  <2>5. missed' \in [Tokens -> BOOLEAN]
    BY <2>1 DEF Arrive
  <2>6. AuthTypeOK'
    BY <2>1 DEF Arrive, Ask, Usable, authVars
  <2>. QED  BY <2>1, <2>3, <2>4, <2>5, <2>6 DEF Arrive
<1>3. CASE TurnAway
  BY <1>3 DEF TurnAway, authVars
<1>4. CASE GateRequest
  <2>1. Shown \in Tokens
    BY <1>4, ShownType DEF GateRequest
  <2>2. live' \in [Tokens -> Nat]
    BY <1>4, <2>1, VerifiedType DEF GateRequest
  <2>3. missed' \in [Tokens -> BOOLEAN]
    BY <1>4 DEF GateRequest, Due
  <2>. QED  BY <1>4, <2>2, <2>3 DEF GateRequest, authVars
<1>5. CASE FetchSucceeds
  <2>1. req' \in [Requests -> Request]
    BY <1>5, ResumedType DEF FetchSucceeds
  <2>. QED  BY <1>5, <2>1 DEF FetchSucceeds, Acquired
<1>6. CASE FetchFails
  <2>1. req' \in [Requests -> Request]
    BY <1>6, ResumedType DEF FetchFails
  <2>. QED  BY <1>6, <2>1 DEF FetchFails, NotAcquired
<1>7. CASE Timer
  <2>1. pending' \in BOOLEAN /\ discarded' \in BOOLEAN
    BY <1>7 DEF Timer, Prewarm, Refresh, Usable
  <2>2. held' \in Nat /\ timer' \in Nat
    BY <1>7 DEF Timer, Prewarm, Refresh
  <2>. QED  BY <1>7, <2>1, <2>2 DEF Timer
<1>8. CASE \E r \in Requests : Overflow(r)
  <2>1. PICK r \in Requests : Overflow(r)
    BY <1>8
  <2>2. req' \in [Requests -> Request]
    BY <2>1 DEF Overflow, Request
  <2>. QED  BY <2>1, <2>2 DEF Overflow, authVars
<1>9. CASE \E r \in Requests, sc \in SetCookies : Answer(r, sc)
  <2>1. PICK r \in Requests, sc \in SetCookies : Answer(r, sc)
    BY <1>9
  <2>2. req' \in [Requests -> Request]
    BY <2>1, IdleTypes DEF Answer
  <2>3. cookie' \in [tok : Tokens \cup {NoToken}, until : Nat]
    BY <2>1 DEF Answer, Arrived, Request
  <2>4. missed' \in [Tokens -> BOOLEAN]
    BY <2>1 DEF Answer
  <2>5. lastUse' \in [Tokens -> Nat] /\ steady' \in [Tokens -> BOOLEAN]
    <3>1. CASE req[r].kind = "page"
      <4>1. Used(req[r].tok, req[r].since) /\ req[r].since \in Nat
        BY <2>1, <3>1 DEF Answer, Request
      <4>2. lastUse' \in [Tokens -> Nat]
        BY <4>1 DEF Used
      <4>3. steady' \in [Tokens -> BOOLEAN]
        BY <4>1 DEF Used
      <4>. QED  BY <4>2, <4>3
    <3>2. CASE req[r].kind # "page"
      BY <2>1, <3>2 DEF Answer
    <3>. QED  BY <3>1, <3>2
  <2>. QED  BY <2>1, <2>2, <2>3, <2>4, <2>5 DEF Answer, authVars
<1>10. CASE \E r \in Requests : Upgraded(r)
  BY <1>10, IdleTypes DEF Upgraded, authVars
<1>11. CASE \E r \in Requests : Abort(r)
  <2>1. PICK r \in Requests : Abort(r)
    BY <1>11
  <2>2. missed' \in [Tokens -> BOOLEAN]
    BY <2>1 DEF Abort, LostRenewals
  <2>. QED  BY <2>1, <2>2, IdleTypes DEF Abort, authVars
<1>12. CASE Restart
  <2>1. missed' \in [Tokens -> BOOLEAN]
    BY <1>12 DEF Restart, LostRenewals
  <2>2. req' \in [Requests -> Request]
    BY <1>12, IdleTypes DEF Restart
  <2>. QED  BY <1>12, <2>1, <2>2 DEF Restart
<1>13. CASE Tick
  BY <1>13 DEF Tick, authVars
<1>14. CASE UNCHANGED vars
  BY <1>14 DEF vars, authVars
<1>. QED  BY <1>1, <1>2, <1>3, <1>4, <1>5, <1>6, <1>7, <1>8, <1>9, <1>10, <1>11, <1>12,
             <1>13, <1>14 DEF Next

-----------------------------------------------------------------------------
(* Time                                                                    *)

\* What verify() does to a session leaves it at least half a life, at most a
\* whole one, and never shortens it.
LEMMA VerifiedLife ==
  ASSUME TypeOK, Timely, NEW t \in Tokens
  PROVE  /\ Verified(t)[t] - now >= Renew
         /\ \A u \in Tokens : Verified(t)[u] >= live[u] /\ Verified(t)[u] <= now + TTL
         /\ \A u \in Tokens : u # t => Verified(t)[u] = live[u]
<1>1. live \in [Tokens -> Nat] /\ now \in Nat /\ live[t] \in Nat /\ live[t] <= now + TTL
  BY DEF TypeOK, AuthTypeOK, Timely
<1>2. CASE Due(t)
  BY <1>1, <1>2, RenewBounds DEF Verified, Due, Timely, TypeOK
<1>3. CASE ~Due(t)
  BY <1>1, <1>3, RenewBounds DEF Verified, Due, Timely, TypeOK
<1>. QED  BY <1>2, <1>3

LEMMA TimelyStep ==
  ASSUME TypeOK, Timely, [Next]_vars
  PROVE  Timely'
<1>. USE DEF Timely
<1>0. /\ now \in Nat
      /\ live \in [Tokens -> Nat]
      /\ req \in [Requests -> Request]
      /\ \A r \in Requests : req[r].since \in Nat
  BY DEF TypeOK, AuthTypeOK, Request
<1>1. CASE \E t \in Tokens : LogIn(t)
  BY <1>0, <1>1 DEF LogIn
<1>2. CASE \E r \in Requests, kind \in Kinds : Arrive(r, kind)
  <2>1. PICK r \in Requests, kind \in Kinds : Arrive(r, kind)
    BY <1>2
  <2>2. \A t \in Tokens : live'[t] <= now + TTL
    BY <2>1, ShownType, VerifiedLife DEF Arrive
  <2>3. \A q \in Requests : q # r => req'[q] = req[q]
    BY <1>0, <2>1 DEF Arrive
  <2>4. /\ req'[r].since = now /\ req'[r].st # "idle"
        /\ req'[r].kind = "ws" => ~req'[r].refresh
    BY <1>0, <2>1 DEF Arrive, Carries
  <2>. QED  BY <1>0, <2>1, <2>2, <2>3, <2>4 DEF Arrive
<1>3. CASE TurnAway
  BY <1>0, <1>3 DEF TurnAway
<1>4. CASE GateRequest
  <2>1. \A t \in Tokens : live'[t] <= now + TTL
    BY <1>4, ShownType, VerifiedLife DEF GateRequest
  <2>. QED  BY <1>4, <2>1 DEF GateRequest
<1>5. CASE FetchSucceeds
  BY <1>5, ResumedFields DEF FetchSucceeds
<1>6. CASE FetchFails
  BY <1>6, ResumedFields DEF FetchFails
<1>7. CASE Timer
  BY <1>7 DEF Timer
<1>8. CASE \E r \in Requests : Overflow(r)
  BY <1>0, <1>8 DEF Overflow
<1>9. CASE \E r \in Requests, sc \in SetCookies : Answer(r, sc)
  BY <1>0, <1>9, IdleTypes DEF Answer
<1>10. CASE \E r \in Requests : Upgraded(r)
  <2>1. PICK r \in Requests : Upgraded(r)
    BY <1>10
  <2>2. req' = [req EXCEPT ![r] = Idle] /\ UNCHANGED <<now, live>>
    BY <2>1 DEF Upgraded
  <2>. QED  BY <1>0, <2>2, IdleTypes
<1>11. CASE \E r \in Requests : Abort(r)
  <2>1. PICK r \in Requests : Abort(r)
    BY <1>11
  <2>2. req' = [req EXCEPT ![r] = Idle] /\ UNCHANGED <<now, live>>
    BY <2>1 DEF Abort
  <2>. QED  BY <1>0, <2>2, IdleTypes
<1>12. CASE Restart
  BY <1>0, <1>12, IdleTypes DEF Restart
<1>13. CASE Tick
  BY <1>0, <1>13 DEF Tick
<1>14. CASE UNCHANGED vars
  BY <1>14 DEF vars
<1>. QED  BY <1>1, <1>2, <1>3, <1>4, <1>5, <1>6, <1>7, <1>8, <1>9, <1>10, <1>11, <1>12,
             <1>13, <1>14 DEF Next

LEMMA HalfALifeStep ==
  ASSUME TypeOK, Timely, HalfALife, [Next]_vars
  PROVE  HalfALife'
<1>0. /\ now \in Nat
      /\ live \in [Tokens -> Nat] /\ lastUse \in [Tokens -> Nat]
      /\ req \in [Requests -> Request]
      /\ \A r \in Requests : req[r].since \in Nat
  BY DEF TypeOK, AuthTypeOK, Request
<1>1. ASSUME NEW t \in Tokens, LogIn(t)
      PROVE  HalfALife'
  <2>1. \A r \in Requests : req[r].since <= now
    BY DEF Timely
  <2>2. \A u \in Tokens : u # t => live'[u] \in {0, live[u]} /\ lastUse'[u] = lastUse[u]
    BY <1>0, <1>1 DEF LogIn
  <2>3. live'[t] = now + TTL /\ lastUse'[t] = now /\ req' = req
    BY <1>0, <1>1 DEF LogIn
  <2>. QED  BY <1>0, <2>1, <2>2, <2>3, RenewBounds DEF HalfALife
<1>2. ASSUME NEW r \in Requests, NEW kind \in Kinds, Arrive(r, kind)
      PROVE  HalfALife'
  <2>1. Shown \in Tokens /\ live' = Verified(Shown) /\ lastUse' = lastUse
    BY <1>2, ShownType DEF Arrive
  <2>2. \A q \in Requests : q # r => req'[q] = req[q]
    BY <1>0, <1>2 DEF Arrive
  <2>3. req'[r].since = now /\ req'[r].tok = Shown
    BY <1>0, <1>2 DEF Arrive
  <2>4. /\ live'[Shown] - now >= Renew
        /\ \A u \in Tokens : live'[u] >= live[u]
        /\ \A u \in Tokens : u # Shown => live'[u] = live[u]
        /\ live[Shown] # 0
    BY <1>0, <1>2, <2>1, VerifiedLife DEF Arrive
  <2>5. live' \in [Tokens -> Nat]
    BY <2>1, VerifiedType
  <2>. QED  BY <1>0, <2>1, <2>2, <2>3, <2>4, <2>5, RenewBounds DEF HalfALife
<1>3. CASE TurnAway
  BY <1>0, <1>3 DEF TurnAway, HalfALife
<1>4. CASE GateRequest
  <2>1. Shown \in Tokens /\ live' = Verified(Shown) /\ live[Shown] # 0
    BY <1>0, <1>4, ShownType DEF GateRequest
  <2>2. /\ \A u \in Tokens : live'[u] >= live[u]
        /\ \A u \in Tokens : u # Shown => live'[u] = live[u]
        /\ live' \in [Tokens -> Nat]
    BY <2>1, VerifiedLife, VerifiedType
  <2>. QED  BY <1>0, <1>4, <2>1, <2>2, RenewBounds DEF GateRequest, HalfALife
<1>5. CASE FetchSucceeds
  BY <1>5, ResumedFields DEF FetchSucceeds, HalfALife
<1>6. CASE FetchFails
  BY <1>6, ResumedFields DEF FetchFails, HalfALife
<1>7. CASE Timer
  BY <1>7 DEF Timer, HalfALife
<1>8. CASE \E r \in Requests : Overflow(r)
  BY <1>0, <1>8 DEF Overflow, HalfALife
<1>9. ASSUME NEW r \in Requests, NEW sc \in SetCookies, Answer(r, sc)
      PROVE  HalfALife'
  <2>1. req' = [req EXCEPT ![r] = Idle] /\ live' = live /\ req[r].st # "idle"
    BY <1>9 DEF Answer
  <2>2. \A t \in Tokens : \/ lastUse'[t] = lastUse[t]
                          \/ req[r].tok = t /\ lastUse'[t] = req[r].since
    BY <1>0, <1>9 DEF Answer, Used
  <2>. QED  BY <1>0, <2>1, <2>2, IdleTypes, RenewBounds DEF HalfALife
<1>10. ASSUME NEW r \in Requests, Upgraded(r) \/ Abort(r)
       PROVE  HalfALife'
  <2>1. req' = [req EXCEPT ![r] = Idle] /\ UNCHANGED <<live, lastUse>>
    BY <1>10 DEF Upgraded, Abort
  <2>. QED  BY <1>0, <2>1, IdleTypes DEF HalfALife
<1>11. CASE Restart
  BY <1>0, <1>11, IdleTypes DEF Restart, HalfALife
<1>12. CASE Tick
  BY <1>12 DEF Tick, HalfALife
<1>13. CASE UNCHANGED vars
  BY <1>13 DEF vars, HalfALife
<1>. QED  BY <1>1, <1>2, <1>3, <1>4, <1>5, <1>6, <1>7, <1>8, <1>9, <1>10, <1>11, <1>12,
             <1>13 DEF Next

-----------------------------------------------------------------------------
(* The provider                                                            *)

LEMMA HeldStep ==
  ASSUME TypeOK, Timely, HeldUntilDiscarded, [Next]_vars
  PROVE  HeldUntilDiscarded'
<1>. USE DEF HeldUntilDiscarded
<1>1. CASE UNCHANGED <<held, discarded>>
  BY <1>1
<1>2. CASE FetchSucceeds
  BY <1>2 DEF FetchSucceeds, Acquired, Timely, TypeOK, AuthTypeOK
<1>3. CASE Timer
  BY <1>3 DEF Timer, Prewarm, Refresh
<1>4. CASE Restart
  BY <1>4 DEF Restart
<1>. QED  BY <1>1, <1>2, <1>3, <1>4 DEF Next, vars, authVars, LogIn, Arrive, Ask, TurnAway,
             GateRequest, FetchFails, NotAcquired, Overflow, Answer, Upgraded, Abort, Tick

-----------------------------------------------------------------------------
(* The browser's cookie                                                    *)

\* A slot is emptied, and its renewal, if it carried one, is either delivered or
\* recorded as missed: the cookies that kept up still do.
LEMMA EmptiedKeepsUp ==
  ASSUME TypeOK, Timely, CookieKeepsUp, NEW r \in Requests,
         req' = [req EXCEPT ![r] = Idle], UNCHANGED <<now, live>>,
         missed' \in [Tokens -> BOOLEAN],
         \A t \in Tokens : missed[t] => missed'[t],
         \/ /\ cookie' = cookie
            /\ req[r].refresh /\ req[r].tok \in Tokens => missed'[req[r].tok]
         \/ cookie'.tok = NoToken
         \/ cookie' = [tok |-> req[r].tok, until |-> now + TTL]
  PROVE  CookieKeepsUp'
<1>1. SUFFICES ASSUME NEW t \in Tokens, cookie'.tok = t, live[t] > now,
                      cookie'.until < live[t], ~missed'[t]
               PROVE  \E q \in Requests : req'[q].tok = t /\ req'[q].refresh
  BY DEF CookieKeepsUp
<1>2. live[t] <= now + TTL /\ live[t] \in Nat /\ now \in Nat
  BY DEF Timely, TypeOK, AuthTypeOK
<1>3. cookie' = cookie /\ (req[r].refresh /\ req[r].tok \in Tokens => missed'[req[r].tok])
  BY <1>1, <1>2
<1>4. PICK q \in Requests : req[q].tok = t /\ req[q].refresh
  BY <1>1, <1>3 DEF CookieKeepsUp
<1>5. q # r
  BY <1>1, <1>3, <1>4
<1>. QED  BY <1>4, <1>5 DEF TypeOK

LEMMA KeepsUpStep ==
  ASSUME TypeOK, Timely, CookieKeepsUp, [Next]_vars
  PROVE  CookieKeepsUp'
<1>0. /\ now \in Nat
      /\ live \in [Tokens -> Nat] /\ missed \in [Tokens -> BOOLEAN]
      /\ req \in [Requests -> Request]
  BY DEF TypeOK, AuthTypeOK
<1>1. CASE \E t \in Tokens : LogIn(t)
  BY <1>0, <1>1 DEF LogIn, CookieKeepsUp
<1>2. ASSUME NEW r \in Requests, NEW kind \in Kinds, Arrive(r, kind)
      PROVE  CookieKeepsUp'
  <2>1. /\ Shown \in Tokens /\ live' = Verified(Shown) /\ ~req[r].refresh
        /\ UNCHANGED <<now, cookie>>
    BY <1>2, ShownType DEF Arrive, Timely
  <2>2. \A q \in Requests : q # r => req'[q] = req[q]
    BY <1>0, <1>2 DEF Arrive
  <2>3. req'[r].tok = Shown /\ req'[r].refresh = (Due(Shown) /\ Carries(kind))
    BY <1>0, <1>2 DEF Arrive
  <2>4. CASE Due(Shown)
    <3>1. missed'[Shown] = (kind = "ws") /\ \A t \in Tokens : t # Shown => missed'[t] = missed[t]
      BY <1>0, <1>2, <2>1, <2>4 DEF Arrive
    <3>2. missed'[Shown] \/ req'[r].refresh
      BY <1>2, <2>3, <2>4, <3>1 DEF Carries, Kinds
    <3>3. \A t \in Tokens : t # Shown => live'[t] = live[t]
      BY <2>1, VerifiedLife
    <3>. QED  BY <2>1, <2>2, <2>3, <3>1, <3>2, <3>3 DEF CookieKeepsUp
  <2>5. CASE ~Due(Shown)
    <3>1. live' = live
      BY <2>1, <2>5 DEF Verified
    <3>2. \A t \in Tokens : missed'[t] = missed[t]
      BY <1>0, <1>2, <2>1, <2>5 DEF Arrive
    <3>. QED  BY <2>1, <2>2, <3>1, <3>2 DEF CookieKeepsUp
  <2>. QED  BY <2>4, <2>5
<1>3. CASE TurnAway
  BY <1>0, <1>3 DEF TurnAway, CookieKeepsUp
<1>4. CASE GateRequest
  <2>1. Shown \in Tokens /\ live' = Verified(Shown) /\ UNCHANGED <<now, cookie, req>>
    BY <1>4, ShownType DEF GateRequest
  <2>2. \A t \in Tokens : missed[t] => missed'[t]
    BY <1>0, <1>4, <2>1 DEF GateRequest
  <2>3. CASE Due(Shown)
    <3>1. missed'[Shown]
      BY <1>0, <1>4, <2>1, <2>3 DEF GateRequest
    <3>2. \A t \in Tokens : t # Shown => live'[t] = live[t]
      BY <2>1, VerifiedLife
    <3>. QED  BY <2>1, <2>2, <3>1, <3>2 DEF CookieKeepsUp
  <2>4. CASE ~Due(Shown)
    <3>1. live' = live
      BY <2>1, <2>4 DEF Verified
    <3>. QED  BY <2>1, <2>2, <3>1 DEF CookieKeepsUp
  <2>. QED  BY <2>3, <2>4
<1>5. CASE FetchSucceeds
  <2>1. \A q \in Requests : req'[q].tok = req[q].tok /\ req'[q].refresh = req[q].refresh
    BY <1>5, ResumedFields DEF FetchSucceeds
  <2>2. UNCHANGED <<now, live, cookie, missed>>
    BY <1>5 DEF FetchSucceeds
  <2>. QED  BY <2>1, <2>2 DEF CookieKeepsUp
<1>6. CASE FetchFails
  <2>1. \A q \in Requests : req'[q].tok = req[q].tok /\ req'[q].refresh = req[q].refresh
    BY <1>6, ResumedFields DEF FetchFails
  <2>2. UNCHANGED <<now, live, cookie, missed>>
    BY <1>6 DEF FetchFails
  <2>. QED  BY <2>1, <2>2 DEF CookieKeepsUp
<1>7. CASE Timer
  BY <1>7 DEF Timer, CookieKeepsUp
<1>8. CASE \E r \in Requests : Overflow(r)
  <2>1. PICK r \in Requests : Overflow(r)
    BY <1>8
  <2>2. \A q \in Requests : req'[q].tok = req[q].tok /\ req'[q].refresh = req[q].refresh
    BY <1>0, <2>1 DEF Overflow, Request
  <2>. QED  BY <2>1, <2>2 DEF Overflow, CookieKeepsUp
<1>9. ASSUME NEW r \in Requests, NEW sc \in SetCookies, Answer(r, sc)
      PROVE  CookieKeepsUp'
  <2>1. req' = [req EXCEPT ![r] = Idle] /\ UNCHANGED <<now, live>>
    BY <1>9 DEF Answer
  <2>2. Delivered(r, sc) \in SetCookies
    BY DEF Delivered, SetCookies
  <2>3. missed' \in [Tokens -> BOOLEAN] /\ \A t \in Tokens : missed[t] => missed'[t]
    BY <1>0, <1>9 DEF Answer
  <2>4. \/ /\ cookie' = cookie
           /\ req[r].refresh /\ req[r].tok \in Tokens => missed'[req[r].tok]
        \/ cookie'.tok = NoToken
        \/ cookie' = [tok |-> req[r].tok, until |-> now + TTL]
    <3>1. CASE Delivered(r, sc) = "none"
      BY <1>9, <3>1 DEF Answer, Arrived
    <3>2. CASE Delivered(r, sc) = "own"
      <4>1. cookie' = cookie
        BY <1>9, <3>2 DEF Answer, Arrived
      <4>2. req[r].refresh /\ req[r].tok \in Tokens => missed'[req[r].tok]
        BY <1>0, <1>9, <3>2 DEF Answer
      <4>. QED  BY <4>1, <4>2
    <3>3. CASE Delivered(r, sc) = "reserved"
      BY <1>9, <3>3 DEF Answer, Arrived
    <3>. QED  BY <2>2, <3>1, <3>2, <3>3 DEF SetCookies
  <2>. QED  BY <2>1, <2>3, <2>4, EmptiedKeepsUp
<1>10. ASSUME NEW r \in Requests, Upgraded(r)
       PROVE  CookieKeepsUp'
  <2>1. req' = [req EXCEPT ![r] = Idle] /\ UNCHANGED <<now, live, cookie, missed>>
    BY <1>10 DEF Upgraded
  <2>2. ~req[r].refresh
    BY <1>10 DEF Upgraded, Timely
  <2>. QED  BY <1>0, <2>1, <2>2, EmptiedKeepsUp
<1>11. ASSUME NEW r \in Requests, Abort(r)
       PROVE  CookieKeepsUp'
  <2>1. req' = [req EXCEPT ![r] = Idle] /\ UNCHANGED <<now, live, cookie>>
    BY <1>11 DEF Abort
  <2>2. /\ missed' \in [Tokens -> BOOLEAN]
        /\ \A t \in Tokens : missed[t] => missed'[t]
        /\ req[r].refresh /\ req[r].tok \in Tokens => missed'[req[r].tok]
    BY <1>0, <1>11 DEF Abort, LostRenewals
  <2>. QED  BY <2>1, <2>2, EmptiedKeepsUp
<1>12. CASE Restart
  <2>1. UNCHANGED <<now, live, cookie>>
    BY <1>12 DEF Restart
  <2>2. \A t \in Tokens :
          missed'[t] <=> missed[t] \/ \E r \in Requests : req[r].tok = t /\ req[r].refresh
    BY <1>0, <1>12 DEF Restart, LostRenewals
  <2>. QED  BY <2>1, <2>2 DEF CookieKeepsUp
<1>13. CASE Tick
  <2>1. now' = now + 1 /\ UNCHANGED <<live, cookie, req, missed>>
    BY <1>13 DEF Tick
  <2>. QED  BY <1>0, <2>1 DEF CookieKeepsUp
<1>14. CASE UNCHANGED vars
  BY <1>14 DEF vars, CookieKeepsUp
<1>. QED  BY <1>1, <1>2, <1>3, <1>4, <1>5, <1>6, <1>7, <1>8, <1>9, <1>10, <1>11, <1>12,
             <1>13, <1>14 DEF Next

-----------------------------------------------------------------------------
(* The theorems                                                            *)

LEMMA InvInit == Init => IInv
<1>. SUFFICES ASSUME Init PROVE IInv
  OBVIOUS
<1>1. TypeOK
  BY TypeInit
<1>2. Timely
  BY IdleTypes DEF Init, Timely
<1>3. HalfALife
  BY DEF Init, HalfALife
<1>4. HeldUntilDiscarded
  BY DEF Init, AuthInit, HeldUntilDiscarded
<1>6. CookieKeepsUp
  BY DEF Init, CookieKeepsUp
<1>. QED  BY <1>1, <1>2, <1>3, <1>4, <1>6 DEF IInv

LEMMA InvStep == IInv /\ [Next]_vars => IInv'
BY TypeStep, TimelyStep, HalfALifeStep, HeldStep, KeepsUpStep DEF IInv

\* IInv is inductive: it holds of every state the gate, its upstreams and its
\* browser reach.
THEOREM Invariant == Spec => []IInv
BY InvInit, InvStep, PTL DEF Spec

\* Every variable stays in its type.
THEOREM TypeCorrect == Spec => []TypeOK
<1>1. IInv => TypeOK
  BY DEF IInv
<1>. QED  BY Invariant, <1>1, PTL

\* A session in use more often than every half life does not run out on the server.
THEOREM InUseLives == Spec => []SessionSlides
<1>1. IInv => SessionSlides
  <2>. SUFFICES ASSUME IInv, NEW t \in Tokens, live[t] # 0, now - lastUse[t] < Renew
                PROVE  live[t] > now
    BY DEF SessionSlides
  <2>1. live[t] - lastUse[t] >= Renew
    BY DEF IInv, HalfALife
  <2>2. live[t] \in Nat /\ lastUse[t] \in Nat /\ now \in Nat
    BY DEF IInv, TypeOK, AuthTypeOK
  <2>. QED  BY <2>1, <2>2, RenewBounds
<1>. QED  BY Invariant, <1>1, PTL

\* The browser's cookie lasts as long as its session, unless a renewal was not
\* passed on.
THEOREM CookieFollows == Spec => []CookieKeepsUp
<1>1. IInv => CookieKeepsUp
  BY DEF IInv
<1>. QED  BY Invariant, <1>1, PTL

\* A failed fetch costs no request its DSH cookie unless the timer has thrown the
\* last one away.
THEOREM FailureCostsNothing == Spec => BareOnlyAfterDiscard
<1>1. IInv /\ [Next]_vars =>
        [\A r \in Requests : req'[r].bare /\ ~req[r].bare => discarded]_vars
  <2>. SUFFICES ASSUME IInv, Next, NEW r \in Requests, req'[r].bare, ~req[r].bare
                PROVE  discarded
    OBVIOUS
  <2>0. /\ TypeOK /\ HeldUntilDiscarded
        /\ req \in [Requests -> Request]
    BY DEF IInv, TypeOK
  <2>1. ASSUME NEW q \in Requests, NEW kind \in Kinds, Arrive(q, kind)
        PROVE  FALSE
    BY <2>0, <2>1 DEF Arrive
  <2>2. CASE FetchSucceeds
    BY <2>0, <2>2, ResumedFields DEF FetchSucceeds
  <2>3. CASE FetchFails
    <3>1. held' = held /\ (held' = 0) \in BOOLEAN /\ req' = Resumed(held' = 0)
      BY <2>3 DEF FetchFails, NotAcquired
    <3>2. req'[r].bare \in {held' = 0, req[r].bare}
      BY <2>0, <3>1, ResumedFields
    <3>. QED  BY <2>0, <3>1, <3>2 DEF HeldUntilDiscarded
  <2>4. ASSUME NEW q \in Requests, Overflow(q)
        PROVE  FALSE
    BY <2>0, <2>4 DEF Overflow, Request
  <2>5. ASSUME NEW q \in Requests, req' = [req EXCEPT ![q] = Idle]
        PROVE  FALSE
    BY <2>0, <2>5, IdleTypes
  <2>6. CASE req' = req
    BY <2>6
  <2>7. CASE Restart
    BY <2>7, IdleTypes DEF Restart
  <2>. QED  BY <2>1, <2>2, <2>3, <2>4, <2>5, <2>6, <2>7
            DEF Next, LogIn, TurnAway, GateRequest, Timer, Answer, Upgraded, Abort, Tick
<1>. QED  BY Invariant, <1>1, PTL DEF Spec, BareOnlyAfterDiscard

\* Nothing but a response that outgrew the buffer puts an upstream's value in the
\* place of the gate's cookie.
THEOREM NothingElseWritesOver == Spec => OnlyOverflowWritesOver
<1>1. IInv /\ [Next]_vars =>
        [cookie.tok # NoToken /\ cookie'.tok = NoToken =>
           \E r \in Requests : req[r].st = "overflow" /\ req'[r].st = "idle"]_vars
  <2>. SUFFICES ASSUME IInv, Next, cookie.tok # NoToken, cookie'.tok = NoToken
                PROVE  \E r \in Requests : req[r].st = "overflow" /\ req'[r].st = "idle"
    OBVIOUS
  <2>0. req \in [Requests -> Request]
    BY DEF IInv, TypeOK
  <2>1. ASSUME NEW t \in Tokens, LogIn(t)
        PROVE  FALSE
    BY <2>1 DEF LogIn
  <2>2. ASSUME NEW r \in Requests, NEW sc \in SetCookies, Answer(r, sc)
        PROVE  req[r].st = "overflow" /\ req'[r].st = "idle"
    <3>1. req'[r].st = "idle"
      BY <2>0, <2>2, IdleTypes DEF Answer
    <3>2. CASE Delivered(r, sc) = "reserved"
      BY <2>2, <3>1, <3>2 DEF Answer, Delivered
    <3>3. CASE Delivered(r, sc) = "none" /\ req[r].refresh
      <4>1. cookie' = [tok |-> req[r].tok, until |-> now + TTL]
        BY <2>2, <3>3 DEF Answer, Arrived
      <4>2. req[r].tok # NoToken
        BY <3>3 DEF IInv, Timely
      <4>. QED  BY <4>1, <4>2
    <3>4. CASE Delivered(r, sc) # "reserved" /\ ~(Delivered(r, sc) = "none" /\ req[r].refresh)
      BY <2>2, <3>4 DEF Answer, Arrived
    <3>. QED  BY <3>2, <3>3, <3>4
  <2>3. CASE cookie' = cookie
    BY <2>3
  <2>. QED  BY <2>1, <2>2, <2>3 DEF Next, Arrive, TurnAway, GateRequest, FetchSucceeds,
            FetchFails, Timer, Overflow, Upgraded, Abort, Restart, Tick
<1>. QED  BY Invariant, <1>1, PTL DEF Spec, OnlyOverflowWritesOver
=============================================================================
