------------------------------ MODULE GateProofs ------------------------------
(***************************************************************************)
(* Proofs about Gate and about Setup, which extends it, for any number of  *)
(* browsers, requests, entries, passwords and sessions.  A session is      *)
(* revoked by every settings operation that concerns it because a login    *)
(* under way that could still issue one either has the password its entry  *)
(* has now, or is marked; and so is a request that waits to be forwarded.  *)
(* The second part shows that the setup leaves that as it is, and lets in  *)
(* the newest token only.                                                  *)
(***************************************************************************)
EXTENDS Setup, TLAPS, WellFoundedInduction

USE GateAssumption

-----------------------------------------------------------------------------
(* The inductive invariant                                                 *)

\* A request that has not been answered is a login with its password; one that
\* waits for the probe has passed its check.
Asking ==
  \A r \in Requests :
    /\ req[r].phase \in {"body", "check", "probe"} => req[r].pw \in Passwords
    /\ req[r].phase = "probe" => req[r].ok

\* A login that has read the right password, and has not escaped a revocation of
\* its entry since, has the password that the entry still has.
InTime ==
  \A r \in Requests :
    req[r].ok /\ req[r].escaped = "no" =>
      /\ req[r].pw = Source(req[r].at)
      /\ req[r].at \notin deleted \cup disabled

\* A request that waits to be forwarded goes to the address of its session, and its
\* entry is as it was when it was admitted, unless it was overtaken.
ForwardOK(q) ==
  /\ q \in Forwarded \cup {NoForward}
  /\ q # NoForward =>
       /\ q.to = q.with.up
       /\ ~q.stale =>
            /\ q.with.entry \notin deleted \cup disabled
            /\ q.with.escaped = "no" => q.with.by = Source(q.with.entry)

Admitted == \A p \in Forwards : ForwardOK(fwd[p])

IInv == /\ TypeOK
        /\ Asking
        /\ InTime
        /\ RevocationReachesSessions
        /\ Admitted

-----------------------------------------------------------------------------
(* Entries and passwords                                                   *)

\* A nonempty set of entries has a least one.
LEMMA LeastEntry ==
  ASSUME NEW S, S \subseteq Entries, S # {}
  PROVE  \E i \in S : \A j \in S : i <= j
<1>1. S \subseteq Nat
  BY DEF Entries
<1>2. PICK i \in S : \A j \in S : <<j, i>> \notin OpToRel(<, Nat)
  BY <1>1, NatLessThanWellFounded, WFMin, Zenon
<1>3. \A j \in S : ~(j < i)
  BY <1>1, <1>2, Zenon DEF OpToRel
<1>. QED  BY <1>1, <1>3

\* An entry that is on is in neither list.
LEMMA EnabledIsOn ==
  ASSUME TypeOK, NEW e \in Entries, Enabled(e)
  PROVE  e \notin deleted \cup disabled
BY DEF TypeOK, Enabled, Visible

LEMMA SourceType ==
  ASSUME TypeOK, NEW e \in Entries
  PROVE  Source(e) \in Passwords \cup {NoPassword}
BY DEF TypeOK, Source

\* Requests and what an idle slot has in place of one.
Wide == [phase : Phases \cup {"idle"}, browser : Browsers \cup {"none"},
         tok : Tokens \cup {NoToken}, pw : Passwords \cup {NoPassword}, at : Entries,
         ok : BOOLEAN, cookie : {"keep", "clear", "set"}, escaped : Escapes]

LEMMA IdleFields ==
  /\ Idle \in Wide
  /\ ~Idle.ok /\ Idle.cookie = "keep" /\ Idle.escaped = "no" /\ Idle.phase = "idle"
BY DEF Wide, Idle, Entries, Escapes

\* The fields of an answer.
LEMMA ReplyFields ==
  ASSUME NEW q \in Request, NEW tok \in Tokens \cup {NoToken}, NEW c \in {"keep", "clear", "set"}
  PROVE  LET a == Reply(q, tok, c)
         IN  /\ a \in Request
             /\ a.phase = "reply" /\ a.tok = tok /\ a.cookie = c /\ ~a.ok
             /\ a.browser = q.browser
<1>. DEFINE a == Reply(q, tok, c)
<1>1. Idle \in Wide /\ ~Idle.ok
  BY IdleFields
<1>2. q.browser \in Browsers
  BY DEF Request
<1>3. /\ a \in Wide /\ a.browser = q.browser
      /\ a.phase = "reply" /\ a.tok = tok /\ a.cookie = c /\ ~a.ok
  BY <1>1, <1>2 DEF Wide, Reply, Phases
<1>. HIDE DEF a
<1>4. a \in Request
  BY <1>2, <1>3 DEF Wide, Request, Phases
<1>. QED  BY <1>3, <1>4 DEF a

\* What trying the entries from e on makes of a login.
LEMMA TryingFields ==
  ASSUME TypeOK, NEW q \in Request, NEW e \in Nat, q.pw \in Passwords
  PROVE  LET a == Trying(q, e)
         IN  /\ a \in Request
             /\ a.browser = q.browser
             /\ \/ a.phase = "reply" /\ ~a.ok /\ a.tok = NoToken /\ a.cookie = "keep"
                \/ /\ a.phase = "check" /\ a.pw = q.pw /\ a.tok = q.tok /\ a.cookie = q.cookie
                   /\ a.escaped = q.escaped
                   /\ a.ok => a.pw = Source(a.at)
                   /\ a.at \notin deleted \cup disabled
<1>. DEFINE rest == {i \in Entries : i >= e /\ Enabled(i)}
            i0 == CHOOSE i \in rest : \A j \in rest : i <= j
            b == [q EXCEPT !.phase = "check", !.at = i0, !.ok = (Source(i0) = q.pw)]
<1>1. CASE rest = {}
  <2>1. Trying(q, e) = Reply(q, NoToken, "keep")
    BY <1>1 DEF Trying
  <2>. QED  BY <2>1, ReplyFields
<1>2. CASE rest # {}
  <2>1. i0 \in rest
    <3>1. \E i \in rest : \A j \in rest : i <= j
      BY <1>2, LeastEntry
    <3>. QED  BY <3>1
  <2>2. i0 \in Entries /\ i0 \notin deleted \cup disabled
    BY <2>1, EnabledIsOn
  <2>3. Trying(q, e) = b
    BY <1>2 DEF Trying
  <2>. HIDE DEF i0, rest
  <2>4. /\ b \in Request
        /\ b.browser = q.browser /\ b.phase = "check" /\ b.pw = q.pw /\ b.tok = q.tok
        /\ b.cookie = q.cookie /\ b.escaped = q.escaped /\ b.at = i0
        /\ b.ok = (Source(i0) = q.pw)
    BY <2>2 DEF Request, Phases
  <2>. QED  BY <2>2, <2>3, <2>4
<1>. QED  BY <1>1, <1>2

-----------------------------------------------------------------------------
(* Sessions                                                                *)

GoneOrSession == [Tokens -> Session \cup {Gone}]

\* Taking sessions away leaves the others as they are.
LEMMA WithoutFields ==
  ASSUME NEW s \in GoneOrSession, NEW ts
  PROVE  /\ Without(s, ts) \in GoneOrSession
         /\ \A t \in Tokens : Without(s, ts)[t] = IF t \in ts THEN Gone ELSE s[t]
BY DEF Without, GoneOrSession

LEMMA VerifiedFields ==
  ASSUME TypeOK, NEW u
  PROVE  /\ Verified(u) \in GoneOrSession
         /\ \A t \in Tokens : Verified(u)[t] \in {sess[t], Gone}
<1>1. sess \in GoneOrSession
  BY DEF TypeOK, GoneOrSession
<1>. QED  BY <1>1, WithoutFields DEF Verified

\* Revoking entry e: none of its sessions is left, and its logins are marked.
LEMMA RevokeFields ==
  ASSUME TypeOK, NEW e
  PROVE  /\ Without(sess, Revoked(e)) \in GoneOrSession
         /\ \A t \in Tokens : LET s == Without(sess, Revoked(e))[t]
                            IN  s # Gone => s = sess[t] /\ s.entry # e
         /\ Outrunning(e) \in [Requests -> Request \cup {Idle}]
         /\ \A r \in Requests :
              LET q == Outrunning(e)[r]
              IN  /\ q.phase = req[r].phase /\ q.tok = req[r].tok /\ q.pw = req[r].pw
                  /\ q.at = req[r].at /\ q.ok = req[r].ok /\ q.cookie = req[r].cookie
                  /\ q.ok /\ q.escaped = "no" => q.at # e /\ req[r].escaped = "no"
<1>1. sess \in GoneOrSession /\ req \in [Requests -> Request \cup {Idle}]
  BY DEF TypeOK, GoneOrSession
<1>2. \A t \in Tokens : LET s == Without(sess, Revoked(e))[t]
                       IN  s # Gone => s = sess[t] /\ s.entry # e
  BY <1>1, WithoutFields DEF Revoked, SessionsOf
<1>3. ASSUME NEW r \in Requests
      PROVE  /\ Outrunning(e)[r] \in Request \cup {Idle}
             /\ LET q == Outrunning(e)[r]
                IN  /\ q.phase = req[r].phase /\ q.tok = req[r].tok /\ q.pw = req[r].pw
                    /\ q.at = req[r].at /\ q.ok = req[r].ok /\ q.cookie = req[r].cookie
                    /\ q.ok /\ q.escaped = "no" => q.at # e /\ req[r].escaped = "no"
  <2>1. CASE req[r].ok /\ req[r].at = e
    <3>1. req[r] \in Request
      BY <1>1, <2>1 DEF Idle
    <3>2. Outrunning(e)[r] = [req[r] EXCEPT !.escaped = "login"]
      BY <2>1 DEF Outrunning
    <3>. QED  BY <3>1, <3>2 DEF Request, Escapes
  <2>2. CASE ~(req[r].ok /\ req[r].at = e)
    <3>1. Outrunning(e)[r] = req[r]
      BY <2>2 DEF Outrunning
    <3>. QED  BY <1>1, <2>2, <3>1
  <2>. QED  BY <2>1, <2>2
<1>4. Outrunning(e) \in [Requests -> Request \cup {Idle}]
  BY <1>3 DEF Outrunning
<1>. QED  BY <1>1, <1>2, <1>3, <1>4, WithoutFields

\* Dying while the sessions of entry e are revoked marks those that are left.
LEMMA CutShortFields ==
  ASSUME TypeOK, NEW e, NEW ts \in SUBSET Revoked(e), CutShort(e, ts)
  PROVE  /\ sess' \in GoneOrSession
         /\ up' \in Routes
         /\ req' = [r \in Requests |-> Idle] /\ saving' = {}
         /\ \A t \in Tokens :
              /\ sess[t] = Gone => sess'[t] = Gone
              /\ sess'[t] # Gone /\ sess'[t].escaped = "no" => sess'[t] = sess[t] /\ sess[t].entry # e
<1>1. sess \in GoneOrSession
  BY DEF TypeOK, GoneOrSession
<1>2. ASSUME NEW t \in Tokens
      PROVE  /\ sess'[t] \in Session \cup {Gone}
             /\ sess[t] = Gone => sess'[t] = Gone
             /\ sess'[t] # Gone /\ sess'[t].escaped = "no" => sess'[t] = sess[t] /\ sess[t].entry # e
  <2>1. CASE t \in ts
    <3>1. sess'[t] = Gone
      BY <2>1 DEF CutShort
    <3>. QED  BY <3>1
  <2>2. CASE t \notin ts /\ t \in Revoked(e)
    <3>1. sess[t] \in Session /\ sess[t] # Gone
      BY <1>1, <2>2 DEF Revoked, SessionsOf, GoneOrSession
    <3>2. sess'[t] = [sess[t] EXCEPT !.escaped = "unrevoked"]
      BY <2>2 DEF CutShort
    <3>. QED  BY <3>1, <3>2 DEF Session, Escapes
  <2>3. CASE t \notin ts /\ t \notin Revoked(e)
    <3>1. sess'[t] = sess[t]
      BY <2>3 DEF CutShort
    <3>2. sess[t] # Gone => sess[t].entry # e
      BY <2>3 DEF Revoked, SessionsOf
    <3>. QED  BY <1>1, <3>1, <3>2 DEF GoneOrSession
  <2>. QED  BY <2>1, <2>2, <2>3
<1>3. sess' \in GoneOrSession
  BY <1>2 DEF CutShort, GoneOrSession
<1>. QED  BY <1>2, <1>3 DEF CutShort, Reborn

-----------------------------------------------------------------------------
(* One step                                                                *)

\* What the invariant says of one request and of one session.
RequestOK(q) ==
  /\ q \in Request \cup {Idle}
  /\ q.tok <= issued
  /\ q.ok => q.phase \in {"check", "probe"} /\ q.pw # NoPassword
  /\ q.phase \in {"body", "check", "probe"} => q.pw \in Passwords
  /\ q.phase = "probe" => q.ok
  /\ q.ok /\ q.escaped = "no" => q.pw = Source(q.at) /\ q.at \notin deleted \cup disabled

SessionOK(s) == s.by = Source(s.entry) /\ s.entry \notin deleted \cup disabled

LEMMA IdleOK ==
  ASSUME issued \in Nat
  PROVE  RequestOK(Idle)
BY DEF RequestOK, Idle, NoToken

LEMMA RequestsOK ==
  ASSUME IInv, NEW r \in Requests
  PROVE  RequestOK(req[r])
BY DEF IInv, TypeOK, Asking, InTime, RequestOK

\* A request as it was, but marked if it is a login at entry e.
SameBut(q, p, e) ==
  /\ p.phase = q.phase /\ p.tok = q.tok /\ p.pw = q.pw /\ p.at = q.at
  /\ p.ok = q.ok /\ p.cookie = q.cookie
  /\ p.ok /\ p.escaped = "no" => p.at # e /\ q.escaped = "no"

\* A request to be forwarded as it was, but marked if it goes to entry e; or none.
Carried(q, p, e) ==
  \/ p = NoForward
  \/ /\ q # NoForward /\ p.to = q.to /\ p.with = q.with
     /\ ~p.stale => ~q.stale /\ q.with.entry # e

LEMMA OvertakenFields ==
  ASSUME TypeOK, NEW e
  PROVE  /\ Overtaken(e) \in [Forwards -> Forwarded \cup {NoForward}]
         /\ \A p \in Forwards : Carried(fwd[p], Overtaken(e)[p], e)
<1>1. ASSUME NEW p \in Forwards
      PROVE  /\ Overtaken(e)[p] \in Forwarded \cup {NoForward}
             /\ Carried(fwd[p], Overtaken(e)[p], e)
  <2>1. fwd[p] \in Forwarded \cup {NoForward}
    BY DEF TypeOK
  <2>2. CASE fwd[p] # NoForward /\ fwd[p].with.entry = e
    <3>. PICK q : q = [fwd[p] EXCEPT !.stale = TRUE]
      OBVIOUS
    <3>1. q \in Forwarded /\ q.to = fwd[p].to /\ q.with = fwd[p].with /\ q.stale
      BY <2>1, <2>2 DEF Forwarded
    <3>2. Overtaken(e)[p] = q
      BY <2>2 DEF Overtaken
    <3>. QED  BY <2>2, <3>1, <3>2 DEF Carried
  <2>3. CASE ~(fwd[p] # NoForward /\ fwd[p].with.entry = e)
    <3>1. Overtaken(e)[p] = fwd[p]
      BY <2>3 DEF Overtaken
    <3>. QED  BY <2>1, <2>3, <3>1 DEF Carried
  <2>. QED  BY <2>2, <2>3
<1>. QED  BY <1>1 DEF Overtaken

\* The invariant is kept by a step that touches the password and the switches of
\* entry e alone, if what it leaves of the sessions and logins of e is marked and
\* whatever is new is right.
LEMMA Kept ==
  ASSUME IInv, NEW e,
         up' \in Routes, disabled' \subseteq Entries \ {0}, deleted' \subseteq Entries \ {0},
         file' \in [Entries -> Passwords \cup {NoPassword}],
         \A i \in Entries \ {e} : file'[i] = file[i],
         deleted' \cup disabled' \subseteq deleted \cup disabled \cup {e},
         saving' \subseteq [entry : Entries, pw : Passwords],
         issued' \in 0..MaxTokens, issued <= issued',
         jar' \in [Browsers -> 0..issued'],
         sess' \in GoneOrSession,
         \A t \in Tokens :
           /\ t > issued' => sess'[t] = Gone
           /\ t <= issued /\ sess[t] = Gone => sess'[t] = Gone
           /\ sess'[t] # Gone /\ sess'[t].escaped = "no" =>
                (sess'[t] = sess[t] /\ sess[t].entry # e) \/ SessionOK(sess[t])',
         req' \in [Requests -> Request \cup {Idle}],
         \A r \in Requests : RequestOK(req[r])' \/ SameBut(req[r], req'[r], e),
         fwd' \in [Forwards -> Forwarded \cup {NoForward}],
         \A p \in Forwards : ForwardOK(fwd[p])' \/ Carried(fwd[p], fwd'[p], e)
  PROVE  IInv'
<1>0. TypeOK /\ issued \in Nat /\ sess \in GoneOrSession
  BY DEF IInv, TypeOK, GoneOrSession
<1>1. ASSUME NEW i \in Entries, i # e
      PROVE  Source(i)' = Source(i)
  BY <1>1 DEF Source
<1>2. ASSUME NEW r \in Requests
      PROVE  RequestOK(req[r])'
  <2>1. CASE RequestOK(req[r])'
    BY <2>1
  <2>2. CASE SameBut(req[r], req'[r], e)
    <3>1. RequestOK(req[r]) /\ req'[r] \in Request \cup {Idle}
      BY RequestsOK
    <3>2. req'[r].tok <= issued'
      <4>1. req[r].tok \in Nat
        BY <1>0 DEF TypeOK, Request, Idle, Tokens, NoToken
      <4>. QED  BY <1>0, <2>2, <3>1, <4>1 DEF SameBut, RequestOK
    <3>3. ASSUME req'[r].ok, req'[r].escaped = "no"
          PROVE  req'[r].pw = Source(req[r].at)' /\ req'[r].at \notin deleted' \cup disabled'
      <4>1. req[r].ok /\ req[r].escaped = "no" /\ req[r].at # e /\ req'[r].at = req[r].at
            /\ req'[r].pw = req[r].pw
        BY <2>2, <3>3 DEF SameBut
      <4>2. req[r].at \in Entries
        BY <3>1, <4>1 DEF RequestOK, Request, Idle
      <4>3. Source(req[r].at)' = Source(req[r].at)
        BY <1>1, <4>1, <4>2 DEF Source
      <4>. QED  BY <3>1, <4>1, <4>3 DEF RequestOK
    <3>. QED  BY <2>2, <3>1, <3>2, <3>3 DEF SameBut, RequestOK
  <2>. QED  BY <2>1, <2>2
<1>3. RevocationReachesSessions'
  <2>. SUFFICES ASSUME NEW t \in Tokens, sess'[t] # Gone, sess'[t].escaped = "no"
                PROVE  SessionOK(sess[t])'
    BY DEF RevocationReachesSessions, SessionOK
  <2>1. CASE sess'[t] = sess[t] /\ sess[t].entry # e
    <3>1. sess[t].entry \in Entries
      BY <1>0, <2>1 DEF GoneOrSession, Session
    <3>2. Source(sess[t].entry)' = Source(sess[t].entry)
      BY <1>1, <2>1, <3>1 DEF Source
    <3>. QED  BY <2>1, <3>2 DEF IInv, RevocationReachesSessions, SessionOK
  <2>. QED  BY <2>1
<1>4. TypeOK'
  BY <1>2 DEF TypeOK, RequestOK, GoneOrSession
<1>5. ASSUME NEW p \in Forwards PROVE ForwardOK(fwd[p])'
  <2>. SUFFICES ASSUME Carried(fwd[p], fwd'[p], e), fwd'[p] # NoForward PROVE ForwardOK(fwd[p])'
    BY DEF ForwardOK
  <2>1. /\ ForwardOK(fwd[p]) /\ fwd[p] # NoForward
        /\ fwd[p] \in Forwarded /\ fwd'[p] \in Forwarded
        /\ fwd'[p].to = fwd[p].to /\ fwd'[p].with = fwd[p].with
        /\ ~fwd'[p].stale => ~fwd[p].stale /\ fwd[p].with.entry # e
    BY DEF Carried, IInv, Admitted, ForwardOK
  <2>. PICK i : i = fwd[p].with.entry
    OBVIOUS
  <2>2. i \in Entries
    BY <2>1 DEF Forwarded, Session
  <2>3. i # e => Source(i)' = Source(i)
    BY <1>1, <2>2
  <2>4. fwd'[p].with.entry = i /\ (~fwd'[p].stale => i # e)
    BY <2>1
  <2>5. ~fwd'[p].stale =>
          /\ i \notin deleted' \cup disabled'
          /\ fwd'[p].with.escaped = "no" => fwd'[p].with.by = Source(i)'
    BY <2>1, <2>3, <2>4 DEF ForwardOK, Source
  <2>. QED  BY <2>1, <2>4, <2>5 DEF ForwardOK, Source
<1>. QED  BY <1>2, <1>3, <1>4, <1>5 DEF IInv, Asking, InTime, Admitted, RequestOK

\* The same for a step that touches no entry's password and switches nothing off.
LEMMA Quiet ==
  ASSUME IInv, UNCHANGED <<file, issued>>,
         up' \in Routes, disabled' \subseteq Entries \ {0}, deleted' \subseteq Entries \ {0},
         deleted' \cup disabled' \subseteq deleted \cup disabled,
         saving' \subseteq [entry : Entries, pw : Passwords],
         jar' \in [Browsers -> 0..issued],
         sess' \in GoneOrSession, \A t \in Tokens : sess'[t] \in {sess[t], Gone},
         req' \in [Requests -> Request \cup {Idle}],
         \A r \in Requests : req'[r] = req[r] \/ RequestOK(req[r])',
         fwd' \in [Forwards -> Forwarded \cup {NoForward}],
         \A p \in Forwards : fwd'[p] \in {fwd[p], NoForward} \/ ForwardOK(fwd[p])'
  PROVE  IInv'
<1>1. TypeOK
  BY DEF IInv
<1>2. \A t \in Tokens : sess[t] # Gone => sess[t].entry # -1
  BY <1>1 DEF TypeOK, Session, Entries
<1>3. \A r \in Requests : req[r].ok => req[r].at # -1
  <2>. SUFFICES ASSUME NEW r \in Requests, req[r].ok PROVE req[r].at # -1
    OBVIOUS
  <2>1. req[r] \in Request
    BY <1>1 DEF TypeOK, Idle
  <2>. QED  BY <2>1 DEF Request, Entries
<1>4. \A r \in Requests : RequestOK(req[r])' \/ SameBut(req[r], req'[r], -1)
  BY <1>3 DEF SameBut
<1>5. \A t \in Tokens :
        /\ t > issued' => sess'[t] = Gone
        /\ t <= issued /\ sess[t] = Gone => sess'[t] = Gone
        /\ sess'[t] # Gone /\ sess'[t].escaped = "no" => sess'[t] = sess[t] /\ sess[t].entry # -1
  BY <1>1, <1>2 DEF TypeOK
<1>6. /\ file' \in [Entries -> Passwords \cup {NoPassword}]
      /\ issued' \in 0..MaxTokens /\ issued <= issued'
      /\ jar' \in [Browsers -> 0..issued']
      /\ deleted' \cup disabled' \subseteq deleted \cup disabled \cup {-1}
      /\ \A i \in Entries \ {-1} : file'[i] = file[i]
  BY <1>1 DEF TypeOK
<1>7. ASSUME NEW p \in Forwards PROVE ForwardOK(fwd[p])' \/ Carried(fwd[p], fwd'[p], -1)
  <2>1. fwd[p] # NoForward => fwd[p].with.entry # -1
    BY <1>1 DEF TypeOK, Forwarded, Session, Entries
  <2>. QED  BY <2>1 DEF Carried
<1>. QED  BY <1>4, <1>5, <1>6, <1>7, Kept

\* One request changes, and perhaps some sessions go.
LEMMA OneRequest ==
  ASSUME IInv, UNCHANGED <<table, issued, saving, fwd>>, jar' \in [Browsers -> 0..issued],
         sess' \in GoneOrSession, \A t \in Tokens : sess'[t] \in {sess[t], Gone},
         NEW r \in Requests, NEW q, req' = [req EXCEPT ![r] = q], RequestOK(q)'
  PROVE  IInv'
<1>1. TypeOK
  BY DEF IInv
<1>2. /\ up' \in Routes /\ disabled' \subseteq Entries \ {0} /\ deleted' \subseteq Entries \ {0}
      /\ saving' \subseteq [entry : Entries, pw : Passwords]
      /\ deleted' \cup disabled' \subseteq deleted \cup disabled
      /\ UNCHANGED <<file, issued, fwd>>
  BY <1>1 DEF TypeOK, table
<1>3. q \in Request \cup {Idle}
  BY DEF RequestOK
<1>4. /\ req' \in [Requests -> Request \cup {Idle}]
      /\ \A p \in Requests : req'[p] = req[p] \/ RequestOK(req[p])'
  BY <1>1, <1>3 DEF TypeOK
<1>5. fwd' \in [Forwards -> Forwarded \cup {NoForward}]
  BY <1>1 DEF TypeOK
<1>. QED  BY <1>2, <1>4, <1>5, Quiet

\* An operation that revokes the sessions of entry e.
LEMMA RevokeKeeps ==
  ASSUME IInv, NEW e \in Entries, Revoke(e), UNCHANGED <<up, issued, jar>>,
         disabled' \subseteq Entries \ {0}, deleted' \subseteq Entries \ {0},
         deleted' \cup disabled' \subseteq deleted \cup disabled \cup {e},
         file' \in [Entries -> Passwords \cup {NoPassword}],
         \A i \in Entries \ {e} : file'[i] = file[i],
         saving' \subseteq [entry : Entries, pw : Passwords]
  PROVE  IInv'
<1>1. TypeOK
  BY DEF IInv
<1>2. \A r \in Requests : SameBut(req[r], req'[r], e)
  BY <1>1, RevokeFields DEF Revoke, SameBut
<1>3. /\ sess' \in GoneOrSession /\ req' \in [Requests -> Request \cup {Idle}]
      /\ \A t \in Tokens :
           /\ t > issued' => sess'[t] = Gone
           /\ t <= issued /\ sess[t] = Gone => sess'[t] = Gone
           /\ sess'[t] # Gone /\ sess'[t].escaped = "no" => sess'[t] = sess[t] /\ sess[t].entry # e
  BY <1>1, RevokeFields DEF Revoke, TypeOK
<1>4. up' \in Routes /\ issued' \in 0..MaxTokens /\ issued <= issued'
      /\ jar' \in [Browsers -> 0..issued']
  BY <1>1 DEF TypeOK
<1>5. /\ fwd' \in [Forwards -> Forwarded \cup {NoForward}]
      /\ \A p \in Forwards : Carried(fwd[p], fwd'[p], e)
  BY <1>1, OvertakenFields DEF Revoke
<1>. QED  BY <1>2, <1>3, <1>4, <1>5, Kept

\* Dying in the middle of one.
LEMMA CutShortKeeps ==
  ASSUME IInv, NEW e \in Entries, NEW ts \in SUBSET Revoked(e), CutShort(e, ts),
         UNCHANGED <<issued, jar>>,
         disabled' \subseteq Entries \ {0}, deleted' \subseteq Entries \ {0},
         deleted' \cup disabled' \subseteq deleted \cup disabled \cup {e},
         file' \in [Entries -> Passwords \cup {NoPassword}],
         \A i \in Entries \ {e} : file'[i] = file[i]
  PROVE  IInv'
<1>1. TypeOK
  BY DEF IInv
<1>2. /\ issued' \in 0..MaxTokens /\ issued' \in Nat /\ issued <= issued'
      /\ jar' \in [Browsers -> 0..issued'] /\ saving' \subseteq [entry : Entries, pw : Passwords]
  BY <1>1, CutShortFields DEF TypeOK
<1>3. \A r \in Requests : RequestOK(req[r])'
  <2>1. RequestOK(Idle)'
    BY <1>2 DEF RequestOK, Idle, NoToken
  <2>. QED  BY <1>1, <2>1, CutShortFields DEF RequestOK
<1>4. /\ sess' \in GoneOrSession /\ up' \in Routes
      /\ \A t \in Tokens :
           /\ t > issued' => sess'[t] = Gone
           /\ t <= issued /\ sess[t] = Gone => sess'[t] = Gone
           /\ sess'[t] # Gone /\ sess'[t].escaped = "no" => sess'[t] = sess[t] /\ sess[t].entry # e
  BY <1>1, CutShortFields DEF TypeOK
<1>5. req' \in [Requests -> Request \cup {Idle}]
  BY <1>1, CutShortFields
<1>6. /\ fwd' \in [Forwards -> Forwarded \cup {NoForward}]
      /\ \A p \in Forwards : Carried(fwd[p], fwd'[p], e)
  BY DEF CutShort, Reborn, Carried
<1>. QED  BY <1>2, <1>3, <1>4, <1>5, <1>6, Kept

-----------------------------------------------------------------------------
(* The actions                                                             *)

LEMMA LoginKeeps ==
  ASSUME IInv, NEW r \in Logins, NEW b \in Browsers, NEW pw \in Passwords, Login(r, b, pw)
  PROVE  IInv'
<1>. PICK q : q = [Idle EXCEPT !.phase = "body", !.browser = b, !.tok = jar[b], !.pw = pw]
  OBVIOUS
<1>1. TypeOK /\ jar[b] \in 0..issued /\ jar[b] \in Tokens \cup {NoToken}
  BY DEF IInv, TypeOK, Tokens, NoToken
<1>2. /\ q \in Wide /\ q.browser = b /\ q.phase = "body" /\ q.tok = jar[b] /\ q.pw = pw
      /\ ~q.ok /\ q.cookie = "keep"
  BY <1>1, IdleFields DEF Wide, Phases
<1>3. q \in Request
  BY <1>2 DEF Wide, Request, Phases
<1>4. RequestOK(q)'
  BY <1>1, <1>2, <1>3 DEF RequestOK, Login
<1>5. sess' \in GoneOrSession /\ \A t \in Tokens : sess'[t] \in {sess[t], Gone}
  BY <1>1, VerifiedFields DEF Login
<1>6. r \in Requests /\ req' = [req EXCEPT ![r] = q] /\ UNCHANGED <<table, issued, saving, fwd>>
      /\ jar' \in [Browsers -> 0..issued]
  BY <1>1 DEF Login, Requests, TypeOK
<1>. QED  BY <1>4, <1>5, <1>6, OneRequest

\* Sessions, the table and the cookies are as they were.
Still == UNCHANGED <<table, sess, issued, jar, saving, fwd>>

LEMMA StillKeeps ==
  ASSUME IInv, Still, NEW r \in Requests, NEW q, req' = [req EXCEPT ![r] = q], RequestOK(q)
  PROVE  IInv'
<1>1. /\ UNCHANGED <<table, issued, saving, fwd>> /\ jar' \in [Browsers -> 0..issued]
      /\ sess' \in GoneOrSession /\ \A t \in Tokens : sess'[t] \in {sess[t], Gone}
  BY DEF IInv, TypeOK, GoneOrSession, Still
<1>2. RequestOK(q)'
  BY DEF Still, table, RequestOK, Source
<1>. QED  BY <1>1, <1>2, OneRequest

LEMMA TryingKeeps ==
  ASSUME IInv, Still, NEW r \in Requests, NEW e \in Nat,
         req[r].phase \in {"body", "check"}, req' = [req EXCEPT ![r] = Trying(req[r], e)]
  PROVE  IInv'
<1>. PICK q : q = Trying(req[r], e)
  OBVIOUS
<1>1. TypeOK /\ issued \in Nat /\ RequestOK(req[r])
  BY RequestsOK DEF IInv, TypeOK
<1>2. req[r] \in Request /\ req[r].pw \in Passwords
  BY <1>1 DEF RequestOK, Idle
<1>3. /\ q \in Request
      /\ \/ q.phase = "reply" /\ ~q.ok /\ q.tok = NoToken /\ q.cookie = "keep"
         \/ /\ q.phase = "check" /\ q.pw = req[r].pw /\ q.tok = req[r].tok
            /\ q.cookie = req[r].cookie
            /\ q.ok => q.pw = Source(q.at)
            /\ q.at \notin deleted \cup disabled
  BY <1>1, <1>2, TryingFields
<1>4. RequestOK(q)
  BY <1>1, <1>2, <1>3 DEF RequestOK, NoToken
<1>. QED  BY <1>4, StillKeeps

LEMMA StepKeeps ==
  ASSUME IInv, NEW r \in Requests, Step(r)
  PROVE  IInv'
<1>0. TypeOK /\ issued \in Nat /\ RequestOK(req[r])
  BY RequestsOK DEF IInv, TypeOK
<1>1. CASE BodyRead(r)
  BY <1>1, TryingKeeps DEF BodyRead, Still
<1>2. CASE Checked(r)
  <2>1. CASE req[r].ok
    <3>. PICK q : q = [req[r] EXCEPT !.phase = "probe"]
      OBVIOUS
    <3>1. req[r] \in Request
      BY <1>0, <2>1 DEF RequestOK, Idle
    <3>2. /\ q \in Request /\ q.phase = "probe" /\ q.tok = req[r].tok /\ q.pw = req[r].pw
          /\ q.at = req[r].at /\ q.ok = req[r].ok /\ q.cookie = req[r].cookie
          /\ q.escaped = req[r].escaped
      BY <3>1 DEF Request, Phases
    <3>3. RequestOK(q)
      BY <1>0, <1>2, <2>1, <3>2 DEF RequestOK, Checked
    <3>. QED  BY <1>2, <2>1, <3>3, StillKeeps DEF Checked, Still
  <2>2. CASE ~req[r].ok
    <3>1. req[r] \in Request
      BY <1>0, <1>2 DEF RequestOK, Idle, Checked
    <3>2. req[r].at + 1 \in Nat
      BY <3>1 DEF Request, Entries
    <3>. QED  BY <1>2, <2>2, <3>2, TryingKeeps DEF Checked, Still
  <2>. QED  BY <2>1, <2>2
<1>3. CASE ProbeFails(r)
  <2>. PICK q : q = Reply(req[r], NoToken, "keep")
    OBVIOUS
  <2>1. req[r] \in Request
    BY <1>0, <1>3 DEF RequestOK, Idle, ProbeFails
  <2>2. RequestOK(q)
    BY <1>0, <2>1, ReplyFields DEF RequestOK, NoToken
  <2>. QED  BY <1>3, <2>2, StillKeeps DEF ProbeFails, Still
<1>4. CASE ProbeSucceeds(r)
  <2>. PICK n, s, q : /\ n = issued + 1
                      /\ s = [entry |-> req[r].at, up |-> up[req[r].at], by |-> req[r].pw,
                              escaped |-> req[r].escaped]
                      /\ q = Reply(req[r], n, "set")
    OBVIOUS
  <2>1. /\ req[r] \in Request /\ req[r].ok /\ req[r].pw \in Passwords
        /\ n \in Tokens /\ n \in 0..MaxTokens /\ n > issued /\ issued' = n
    BY <1>0, <1>4 DEF RequestOK, Idle, ProbeSucceeds, Tokens
  <2>2. up[req[r].at] \in Addresses
    BY <1>0, <2>1 DEF TypeOK, Routes, Request
  <2>3. s \in Session /\ (s.escaped = "no" => SessionOK(s))
    BY <1>0, <2>1, <2>2 DEF Session, Request, RequestOK, SessionOK
  <2>4. /\ sess' = [Without(sess, {req[r].tok}) EXCEPT ![n] = s]
        /\ req' = [req EXCEPT ![r] = q] /\ UNCHANGED <<table, jar, saving, fwd>>
    BY <1>4 DEF ProbeSucceeds
  <2>5. /\ sess' \in GoneOrSession
        /\ \A t \in Tokens : sess'[t] \in {sess[t], Gone} \/ (t = n /\ sess'[t] = s)
        /\ sess \in GoneOrSession
    BY <1>0, <2>1, <2>3, <2>4, WithoutFields DEF TypeOK, GoneOrSession
  <2>6. /\ q \in Request /\ q.phase = "reply" /\ q.tok = n /\ q.cookie = "set" /\ ~q.ok
    BY <2>1, ReplyFields
  <2>7. UNCHANGED <<up, disabled, deleted, file, jar, saving, fwd>>
    BY <2>4 DEF table
  <2>8. \A p \in Requests : RequestOK(req[p])' \/ SameBut(req[p], req'[p], -1)
    <3>1. RequestOK(q)'
      BY <1>0, <2>1, <2>6 DEF RequestOK
    <3>2. ASSUME NEW p \in Requests, req[p].ok PROVE req[p].at # -1
      <4>1. req[p] \in Request
        BY <1>0, <3>2 DEF TypeOK, Idle
      <4>. QED  BY <4>1 DEF Request, Entries
    <3>. QED  BY <1>0, <2>4, <3>1, <3>2 DEF RequestOK, SameBut, TypeOK
  <2>9. \A t \in Tokens :
          /\ t > issued' => sess'[t] = Gone
          /\ t <= issued /\ sess[t] = Gone => sess'[t] = Gone
          /\ sess'[t] # Gone /\ sess'[t].escaped = "no" =>
               (sess'[t] = sess[t] /\ sess[t].entry # -1) \/ SessionOK(sess[t])'
    <3>. SUFFICES ASSUME NEW t \in Tokens
                  PROVE  /\ t > issued' => sess'[t] = Gone
                         /\ t <= issued /\ sess[t] = Gone => sess'[t] = Gone
                         /\ sess'[t] # Gone /\ sess'[t].escaped = "no" =>
                              (sess'[t] = sess[t] /\ sess[t].entry # -1) \/ SessionOK(sess[t])'
      OBVIOUS
    <3>1. t \in Nat /\ (t > issued => sess[t] = Gone)
      BY <1>0 DEF TypeOK, Tokens
    <3>2. CASE sess'[t] \in {sess[t], Gone}
      <4>1. sess[t] # Gone => sess[t].entry # -1
        BY <2>5 DEF GoneOrSession, Session, Entries
      <4>. QED  BY <1>0, <2>1, <3>1, <3>2, <4>1
    <3>3. CASE t = n /\ sess'[t] = s
      <4>1. SessionOK(s) => SessionOK(sess[t])'
        BY <2>7, <3>3 DEF SessionOK, Source
      <4>. QED  BY <1>0, <2>1, <2>3, <3>3, <4>1
    <3>. QED  BY <2>5, <3>2, <3>3
  <2>10. /\ up' \in Routes /\ disabled' \subseteq Entries \ {0} /\ deleted' \subseteq Entries \ {0}
         /\ file' \in [Entries -> Passwords \cup {NoPassword}]
         /\ \A i \in Entries \ {-1} : file'[i] = file[i]
         /\ deleted' \cup disabled' \subseteq deleted \cup disabled \cup {-1}
         /\ saving' \subseteq [entry : Entries, pw : Passwords]
    BY <1>0, <2>7 DEF TypeOK
  <2>11. issued' \in 0..MaxTokens /\ issued <= issued' /\ jar' \in [Browsers -> 0..issued']
    BY <1>0, <2>1, <2>7 DEF TypeOK
  <2>12. req' \in [Requests -> Request \cup {Idle}]
    BY <1>0, <2>4, <2>6 DEF TypeOK
  <2>13. /\ fwd' \in [Forwards -> Forwarded \cup {NoForward}]
         /\ \A p \in Forwards : Carried(fwd[p], fwd'[p], -1)
    <3>1. fwd \in [Forwards -> Forwarded \cup {NoForward}]
      BY <1>0 DEF TypeOK
    <3>2. \A p \in Forwards : fwd[p] # NoForward => fwd[p].with.entry # -1
      BY <3>1 DEF Forwarded, Session, Entries
    <3>. QED  BY <2>7, <3>1, <3>2 DEF Carried
  <2>. QED  BY <2>5, <2>8, <2>9, <2>10, <2>11, <2>12, <2>13, Kept
<1>5. CASE Deliver(r)
  <2>1. RequestOK(Idle)'
    BY <1>0, <1>5, IdleOK DEF Deliver, RequestOK, Idle, NoToken
  <2>2. jar' \in [Browsers -> 0..issued]
    <3>1. req[r] \in Request
      BY <1>0, <1>5 DEF RequestOK, Idle, Deliver
    <3>2. req[r].tok \in 0..issued /\ req[r].cookie \in {"keep", "clear", "set"} /\ 0 \in 0..issued
      BY <1>0, <3>1 DEF Request, RequestOK, Tokens, NoToken
    <3>. QED  BY <1>0, <1>5, <3>2 DEF Deliver, TypeOK, NoToken
  <2>3. /\ UNCHANGED <<table, issued, saving, fwd>> /\ sess' \in GoneOrSession
        /\ \A t \in Tokens : sess'[t] \in {sess[t], Gone}
        /\ req' = [req EXCEPT ![r] = Idle]
    BY <1>0, <1>5 DEF Deliver, TypeOK, GoneOrSession
  <2>. QED  BY <2>1, <2>2, <2>3, OneRequest
<1>6. CASE Lose(r)
  BY <1>0, <1>6, IdleOK, StillKeeps DEF Lose, Still
<1>. QED  BY <1>1, <1>2, <1>3, <1>4, <1>5, <1>6 DEF Step

LEMMA ServingKeeps ==
  ASSUME IInv, Serving
  PROVE  IInv'
<1>0. TypeOK /\ issued \in Nat
  BY DEF IInv, TypeOK
<1>s. ASSUME UNCHANGED <<table, issued, jar, req, saving, fwd>>,
             sess' \in GoneOrSession, \A t \in Tokens : sess'[t] \in {sess[t], Gone}
      PROVE  IInv'
  <2>1. /\ UNCHANGED <<file, issued>>
        /\ up' \in Routes /\ disabled' \subseteq Entries \ {0} /\ deleted' \subseteq Entries \ {0}
        /\ deleted' \cup disabled' \subseteq deleted \cup disabled
        /\ saving' \subseteq [entry : Entries, pw : Passwords]
        /\ jar' \in [Browsers -> 0..issued]
        /\ req' \in [Requests -> Request \cup {Idle}] /\ \A r \in Requests : req'[r] = req[r]
        /\ fwd' \in [Forwards -> Forwarded \cup {NoForward}]
        /\ \A p \in Forwards : fwd'[p] = fwd[p]
    BY <1>0, <1>s DEF TypeOK, table
  <2>. QED  BY <1>s, <2>1, Quiet
<1>1. ASSUME NEW r \in Logins, NEW b \in Browsers, NEW pw \in Passwords, Login(r, b, pw)
      PROVE  IInv'
  BY <1>1, LoginKeeps
<1>2. ASSUME NEW r \in Requests, Abort(r)
      PROVE  IInv'
  BY <1>0, <1>2, IdleOK, StillKeeps DEF Abort, Still
<1>3. ASSUME NEW r \in Requests, Step(r)
      PROVE  IInv'
  BY <1>3, StepKeeps
<1>4. ASSUME NEW r \in Logouts, NEW b \in Browsers, Logout(r, b)
      PROVE  IInv'
  <2>. PICK w, q : /\ w = [Idle EXCEPT !.browser = b]
                   /\ q = Reply(w, NoToken, "clear")
    OBVIOUS
  <2>1. w \in Wide /\ w.browser = b
    BY IdleFields DEF Wide
  <2>2. q \in Request /\ q.phase = "reply" /\ q.tok = NoToken /\ ~q.ok
    <3>1. /\ q \in Wide /\ q.browser = b
          /\ q.phase = "reply" /\ q.tok = NoToken /\ q.cookie = "clear" /\ ~q.ok
      BY <2>1, IdleFields DEF Wide, Reply, Phases
    <3>. QED  BY <3>1 DEF Wide, Request, Phases
  <2>3. sess' \in GoneOrSession /\ \A t \in Tokens : sess'[t] \in {sess[t], Gone}
    BY <1>0, <1>4, WithoutFields DEF Logout, TypeOK, GoneOrSession
  <2>4. RequestOK(q)'
    <3>1. issued' = issued
      BY <1>4 DEF Logout
    <3>. QED  BY <1>0, <2>2, <3>1 DEF RequestOK, NoToken
  <2>5. r \in Requests /\ req' = [req EXCEPT ![r] = q] /\ UNCHANGED <<table, issued, saving, fwd>>
        /\ jar' \in [Browsers -> 0..issued]
    BY <1>0, <1>4 DEF Logout, Requests, TypeOK
  <2>. QED  BY <2>3, <2>4, <2>5, OneRequest
<1>f. ASSUME UNCHANGED <<table, sess, issued, jar, req, saving>>,
             fwd' \in [Forwards -> Forwarded \cup {NoForward}],
             \A p \in Forwards : fwd'[p] \in {fwd[p], NoForward} \/ ForwardOK(fwd[p])'
      PROVE  IInv'
  <2>1. /\ UNCHANGED <<file, issued>>
        /\ up' \in Routes /\ disabled' \subseteq Entries \ {0} /\ deleted' \subseteq Entries \ {0}
        /\ deleted' \cup disabled' \subseteq deleted \cup disabled
        /\ saving' \subseteq [entry : Entries, pw : Passwords]
        /\ jar' \in [Browsers -> 0..issued]
        /\ sess' \in GoneOrSession /\ \A t \in Tokens : sess'[t] \in {sess[t], Gone}
        /\ req' \in [Requests -> Request \cup {Idle}] /\ \A r \in Requests : req'[r] = req[r]
    BY <1>0, <1>f DEF TypeOK, table, GoneOrSession
  <2>. QED  BY <1>f, <2>1, Quiet
<1>5. ASSUME NEW p \in Forwards, NEW b \in Browsers, Forward(p, b)
      PROVE  IInv'
  <2>. PICK s, q : s = sess[jar[b]] /\ q = [to |-> up[s.entry], with |-> s, stale |-> FALSE]
    OBVIOUS
  <2>1. jar[b] \in Tokens /\ s # Gone /\ Enabled(s.entry) /\ s.up = up[s.entry]
    BY <1>0, <1>5 DEF Forward, Accepts, TypeOK, Tokens, NoToken
  <2>2. s \in Session /\ s.entry \in Entries /\ up[s.entry] \in Addresses
    BY <1>0, <2>1 DEF TypeOK, Session, Routes
  <2>3. /\ q \in Forwarded /\ q # NoForward /\ q.to = s.up /\ q.with = s /\ ~q.stale
    BY <2>1, <2>2 DEF Forwarded, NoForward
  <2>4. /\ s.entry \notin deleted \cup disabled
        /\ s.escaped = "no" => s.by = Source(s.entry)
    BY <1>0, <2>1, <2>2, EnabledIsOn DEF IInv, RevocationReachesSessions
  <2>5. /\ fwd' = [fwd EXCEPT ![p] = q] /\ UNCHANGED <<table, sess, issued, jar, req, saving>>
    BY <1>5 DEF Forward
  <2>6. ForwardOK(q)'
    <3>1. Source(s.entry)' = Source(s.entry) /\ UNCHANGED <<deleted, disabled>>
      BY <2>5 DEF table, Source
    <3>. QED  BY <2>3, <2>4, <3>1 DEF ForwardOK
  <2>7. /\ fwd' \in [Forwards -> Forwarded \cup {NoForward}]
        /\ \A v \in Forwards : fwd'[v] \in {fwd[v], NoForward} \/ ForwardOK(fwd[v])'
    BY <1>0, <2>3, <2>5, <2>6 DEF TypeOK
  <2>. QED  BY <1>f, <2>5, <2>7
<1>12. ASSUME NEW p \in Forwards, Send(p)
       PROVE  IInv'
  BY <1>0, <1>12, <1>f DEF Send, TypeOK
<1>6. ASSUME NEW b \in Browsers, TurnAway(b)
      PROVE  IInv'
  BY <1>0, <1>6, <1>s, VerifiedFields DEF TurnAway
<1>7. ASSUME NEW t \in Tokens, Expire(t)
      PROVE  IInv'
  <2>1. sess' \in GoneOrSession /\ \A u \in Tokens : sess'[u] \in {sess[u], Gone}
    BY <1>0, <1>7, WithoutFields DEF Expire, TypeOK, GoneOrSession
  <2>. QED  BY <1>7, <1>s, <2>1 DEF Expire
<1>8. ASSUME NEW e \in Entries, NEW pw \in Passwords, SetPassword(e, pw)
      PROVE  IInv'
  <2>1. /\ UNCHANGED <<file, issued>>
        /\ up' \in Routes /\ disabled' \subseteq Entries \ {0} /\ deleted' \subseteq Entries \ {0}
        /\ deleted' \cup disabled' \subseteq deleted \cup disabled
        /\ saving' \subseteq [entry : Entries, pw : Passwords]
        /\ jar' \in [Browsers -> 0..issued]
        /\ sess' \in GoneOrSession /\ \A t \in Tokens : sess'[t] \in {sess[t], Gone}
        /\ req' \in [Requests -> Request \cup {Idle}] /\ \A r \in Requests : req'[r] = req[r]
        /\ fwd' \in [Forwards -> Forwarded \cup {NoForward}] /\ \A p \in Forwards : fwd'[p] = fwd[p]
    BY <1>0, <1>8 DEF SetPassword, TypeOK, table, GoneOrSession
  <2>. QED  BY <2>1, Quiet
<1>9. ASSUME NEW s \in saving, PasswordSaved(s)
      PROVE  IInv'
  <2>1. s.entry \in Entries /\ s.pw \in Passwords
    BY <1>0 DEF TypeOK
  <2>2. /\ Revoke(s.entry) /\ UNCHANGED <<up, issued, jar>>
        /\ disabled' \subseteq Entries \ {0} /\ deleted' \subseteq Entries \ {0}
        /\ deleted' \cup disabled' \subseteq deleted \cup disabled \cup {s.entry}
        /\ file' \in [Entries -> Passwords \cup {NoPassword}]
        /\ \A i \in Entries \ {s.entry} : file'[i] = file[i]
        /\ saving' \subseteq [entry : Entries, pw : Passwords]
    BY <1>0, <1>9, <2>1 DEF PasswordSaved, TypeOK
  <2>. QED  BY <2>1, <2>2, RevokeKeeps
<1>10. ASSUME NEW e \in Entries, Enable(e) \/ AddAgain(e)
       PROVE  IInv'
  <2>1. /\ UNCHANGED <<file, issued>>
        /\ up' \in Routes /\ disabled' \subseteq Entries \ {0} /\ deleted' \subseteq Entries \ {0}
        /\ deleted' \cup disabled' \subseteq deleted \cup disabled
        /\ saving' \subseteq [entry : Entries, pw : Passwords]
        /\ jar' \in [Browsers -> 0..issued]
        /\ sess' \in GoneOrSession /\ \A t \in Tokens : sess'[t] \in {sess[t], Gone}
        /\ req' \in [Requests -> Request \cup {Idle}] /\ \A r \in Requests : req'[r] = req[r]
        /\ fwd' \in [Forwards -> Forwarded \cup {NoForward}] /\ \A p \in Forwards : fwd'[p] = fwd[p]
    BY <1>0, <1>10 DEF Enable, AddAgain, TypeOK, GoneOrSession
  <2>. QED  BY <2>1, Quiet
<1>11. ASSUME NEW e \in Entries, Disable(e) \/ Delete(e)
       PROVE  IInv'
  <2>1. /\ Revoke(e) /\ UNCHANGED <<up, issued, jar>>
        /\ disabled' \subseteq Entries \ {0} /\ deleted' \subseteq Entries \ {0}
        /\ deleted' \cup disabled' \subseteq deleted \cup disabled \cup {e}
        /\ file' \in [Entries -> Passwords \cup {NoPassword}]
        /\ \A i \in Entries \ {e} : file'[i] = file[i]
        /\ saving' \subseteq [entry : Entries, pw : Passwords]
    BY <1>0, <1>11 DEF Disable, Delete, TypeOK
  <2>. QED  BY <2>1, RevokeKeeps
<1>. QED
  BY <1>1, <1>2, <1>3, <1>4, <1>5, <1>6, <1>7, <1>8, <1>9, <1>10, <1>11, <1>12 DEF Serving

LEMMA DyingKeeps ==
  ASSUME IInv, Dying
  PROVE  IInv'
<1>0. TypeOK
  BY DEF IInv
<1>1. CASE Restart
  <2>1. RequestOK(Idle)'
    BY <1>0, <1>1 DEF Restart, TypeOK, RequestOK, Idle, NoToken
  <2>2. /\ UNCHANGED <<file, issued>>
        /\ up' \in Routes /\ disabled' \subseteq Entries \ {0} /\ deleted' \subseteq Entries \ {0}
        /\ deleted' \cup disabled' \subseteq deleted \cup disabled
        /\ saving' \subseteq [entry : Entries, pw : Passwords]
        /\ jar' \in [Browsers -> 0..issued]
        /\ sess' \in GoneOrSession /\ \A t \in Tokens : sess'[t] \in {sess[t], Gone}
        /\ req' \in [Requests -> Request \cup {Idle}]
        /\ fwd' \in [Forwards -> Forwarded \cup {NoForward}]
        /\ \A p \in Forwards : fwd'[p] = NoForward
    BY <1>0, <1>1 DEF Restart, Reborn, TypeOK, GoneOrSession
  <2>3. \A r \in Requests : RequestOK(req[r])'
    BY <1>1, <2>1 DEF Restart, Reborn, RequestOK
  <2>. QED  BY <2>2, <2>3, Quiet
<1>2. ASSUME NEW s \in saving, CrashInPasswordSaved(s)
      PROVE  IInv'
  <2>1. s.entry \in Entries /\ s.pw \in Passwords
    BY <1>0 DEF TypeOK
  <2>2. PICK ts \in SUBSET Revoked(s.entry) : CutShort(s.entry, ts)
    BY <1>2 DEF CrashInPasswordSaved
  <2>3. /\ UNCHANGED <<issued, jar>>
        /\ disabled' \subseteq Entries \ {0} /\ deleted' \subseteq Entries \ {0}
        /\ deleted' \cup disabled' \subseteq deleted \cup disabled \cup {s.entry}
        /\ file' \in [Entries -> Passwords \cup {NoPassword}]
        /\ \A i \in Entries \ {s.entry} : file'[i] = file[i]
    BY <1>0, <1>2, <2>1 DEF CrashInPasswordSaved, TypeOK
  <2>. QED  BY <2>1, <2>2, <2>3, CutShortKeeps
<1>3. ASSUME NEW e \in Entries, CrashInDisable(e) \/ CrashInDelete(e)
      PROVE  IInv'
  <2>1. PICK ts \in SUBSET Revoked(e) : CutShort(e, ts)
    BY <1>3 DEF CrashInDisable, CrashInDelete
  <2>2. /\ UNCHANGED <<issued, jar>>
        /\ disabled' \subseteq Entries \ {0} /\ deleted' \subseteq Entries \ {0}
        /\ deleted' \cup disabled' \subseteq deleted \cup disabled \cup {e}
        /\ file' \in [Entries -> Passwords \cup {NoPassword}]
        /\ \A i \in Entries \ {e} : file'[i] = file[i]
    BY <1>0, <1>3 DEF CrashInDisable, CrashInDelete, TypeOK
  <2>. QED  BY <2>1, <2>2, CutShortKeeps
<1>. QED  BY <1>1, <1>2, <1>3 DEF Dying

LEMMA InitIInv == Init => IInv
<1>. SUFFICES ASSUME Init PROVE IInv
  OBVIOUS
<1>1. TypeOK
  BY IdleFields DEF Init, TypeOK, Idle, NoToken
<1>. QED
  BY <1>1, IdleFields DEF Init, IInv, Asking, InTime, RevocationReachesSessions, Admitted, ForwardOK

-----------------------------------------------------------------------------
(* The theorems                                                            *)

\* What is said of each request and session under way holds throughout.
THEOREM Invariant == Spec => []IInv
<1>1. IInv /\ [Next]_vars => IInv'
  <2>. SUFFICES ASSUME IInv, [Next]_vars PROVE IInv'
    OBVIOUS
  <2>1. CASE Next
    BY <2>1, ServingKeeps, DyingKeeps DEF Next
  <2>2. CASE UNCHANGED vars
    BY <2>2 DEF vars, IInv, TypeOK, Asking, InTime, RevocationReachesSessions, Admitted, ForwardOK,
                Source
  <2>. QED  BY <2>1, <2>2
<1>. QED  BY InitIInv, <1>1, PTL DEF Spec

\* Every variable of the gate stays in its type.
THEOREM TypeCorrect == Spec => []TypeOK
<1>1. IInv => TypeOK
  BY DEF IInv
<1>. QED  BY Invariant, <1>1, PTL

\* Setting a password, switching an entry off and deleting it revoke its sessions,
\* except that of a login that was under way and those that a death spared.
THEOREM RevocationIsComplete == Spec => []RevocationReachesSessions
<1>1. IInv => RevocationReachesSessions
  BY DEF IInv
<1>. QED  BY Invariant, <1>1, PTL

\* A request goes to the address its session was issued for, whatever restarts have
\* made of the list of entries; and, unless that changed while the request waited for a
\* cookie, to an entry that is on and has the password of the session.
THEOREM NoOtherUpstream == Spec => ForwardsToOwnUpstream
<1>1. IInv /\ [Next]_vars =>
        [\A p \in Forwards : Send(p) =>
           LET s == fwd[p].with
           IN  /\ fwd[p].to = s.up
               /\ ~fwd[p].stale =>
                    /\ s.entry \notin deleted \cup disabled
                    /\ s.escaped = "no" => s.by = Source(s.entry)]_vars
  <2>. SUFFICES ASSUME IInv, NEW p \in Forwards, fwd[p] # NoForward
                PROVE  /\ fwd[p].to = fwd[p].with.up
                       /\ ~fwd[p].stale =>
                            /\ fwd[p].with.entry \notin deleted \cup disabled
                            /\ fwd[p].with.escaped = "no" =>
                                 fwd[p].with.by = Source(fwd[p].with.entry)
    BY DEF Send
  <2>. QED  BY DEF IInv, Admitted, ForwardOK
<1>. QED  BY Invariant, <1>1, PTL DEF Spec, ForwardsToOwnUpstream

-----------------------------------------------------------------------------
(***************************************************************************)
(* The same with the setup at work, for any number of browsers, forms and  *)
(* one-time tokens: what the setup does to passwords and sessions marks    *)
(* what it does not revoke.                                                *)
(***************************************************************************)

USE SetupAssumption

-----------------------------------------------------------------------------
(* The inductive invariant                                                 *)

\* A form is only ever let in while the owner has no password from the
\* environment, which would be put before the one it sets.
FromScratch == \A f \in Forms : form[f].phase = "form" => EnvPassword[0] = NoPassword

\* A pending token is the newest one, and has set no password.
PendingIsFresh == pendingSetup # NoToken => pendingSetup = setupIssued /\ ~spent

SetupIInv == /\ IInv
             /\ SetupTypeOK
             /\ FromScratch
             /\ PendingIsFresh

\* A form or page, or an empty slot.
Slot == [phase : {"idle", "page", "form", "reply"}, browser : Browsers \cup {"none"},
         tok : SetupTokens \cup {NoToken}, pw : Passwords \cup {NoPassword},
         opens : Tokens \cup {NoToken}]

LEMMA NoFormFields ==
  /\ NoForm \in Slot /\ NoForm.phase = "idle" /\ NoForm.tok = NoToken
  /\ NoForm.pw = NoPassword /\ NoForm.opens = NoToken
BY DEF NoForm, Slot

\* What SetupTypeOK says of one form.
FormOK(q) ==
  /\ q \in Form \cup {NoForm}
  /\ q.tok <= setupIssued
  /\ q.phase = "form" => q.pw # NoPassword
  /\ q.phase = "reply" => q.opens \in 1..issued

-----------------------------------------------------------------------------
(* Passwords that change without a revocation                              *)

\* Losing the password of entry e marks its sessions and logins.
LEMMA EscapingFields ==
  ASSUME TypeOK, NEW e \in Entries
  PROVE  /\ Escaping(e) \in GoneOrSession
         /\ \A t \in Tokens :
              /\ sess[t] = Gone => Escaping(e)[t] = Gone
              /\ Escaping(e)[t] # Gone /\ Escaping(e)[t].escaped = "no" =>
                   Escaping(e)[t] = sess[t] /\ sess[t].entry # e
         /\ EscapingLogins(e) \in [Requests -> Request \cup {Idle}]
         /\ \A r \in Requests : SameBut(req[r], EscapingLogins(e)[r], e)
<1>1. sess \in GoneOrSession /\ req \in [Requests -> Request \cup {Idle}]
  BY DEF TypeOK, GoneOrSession
<1>2. ASSUME NEW t \in Tokens
      PROVE  /\ Escaping(e)[t] \in Session \cup {Gone}
             /\ sess[t] = Gone => Escaping(e)[t] = Gone
             /\ Escaping(e)[t] # Gone /\ Escaping(e)[t].escaped = "no" =>
                  Escaping(e)[t] = sess[t] /\ sess[t].entry # e
  <2>1. CASE t \in SessionsOf(e) /\ sess[t].escaped = "no"
    <3>1. sess[t] \in Session /\ sess[t] # Gone
      BY <1>1, <2>1 DEF SessionsOf, GoneOrSession
    <3>2. Escaping(e)[t] = [sess[t] EXCEPT !.escaped = "unrevoked"]
      BY <2>1 DEF Escaping
    <3>. QED  BY <3>1, <3>2 DEF Session, Escapes
  <2>2. CASE ~(t \in SessionsOf(e) /\ sess[t].escaped = "no")
    <3>1. Escaping(e)[t] = sess[t]
      BY <2>2 DEF Escaping
    <3>. QED  BY <1>1, <2>2, <3>1 DEF SessionsOf, GoneOrSession
  <2>. QED  BY <2>1, <2>2
<1>3. ASSUME NEW r \in Requests
      PROVE  /\ EscapingLogins(e)[r] \in Request \cup {Idle}
             /\ SameBut(req[r], EscapingLogins(e)[r], e)
  <2>1. CASE req[r].ok /\ req[r].at = e /\ req[r].escaped = "no"
    <3>1. req[r] \in Request
      BY <1>1, <2>1, IdleFields
    <3>2. EscapingLogins(e)[r] = [req[r] EXCEPT !.escaped = "unrevoked"]
      BY <2>1 DEF EscapingLogins
    <3>. QED  BY <3>1, <3>2 DEF Request, Escapes, SameBut
  <2>2. CASE ~(req[r].ok /\ req[r].at = e /\ req[r].escaped = "no")
    <3>1. EscapingLogins(e)[r] = req[r]
      BY <2>2 DEF EscapingLogins
    <3>. QED  BY <1>1, <2>2, <3>1 DEF SameBut
  <2>. QED  BY <2>1, <2>2
<1>4. Escaping(e) \in GoneOrSession /\ EscapingLogins(e) \in [Requests -> Request \cup {Idle}]
  BY <1>2, <1>3 DEF Escaping, EscapingLogins, GoneOrSession
<1>. QED  BY <1>2, <1>3, <1>4

LEMMA EscapingKeeps ==
  ASSUME IInv, NEW e \in Entries, Escape(e),
         UNCHANGED <<up, disabled, deleted, issued, jar>>,
         file' \in [Entries -> Passwords \cup {NoPassword}],
         \A i \in Entries \ {e} : file'[i] = file[i],
         saving' \subseteq saving
  PROVE  IInv'
<1>1. TypeOK
  BY DEF IInv
<1>2. /\ up' \in Routes /\ disabled' \subseteq Entries \ {0} /\ deleted' \subseteq Entries \ {0}
      /\ deleted' \cup disabled' \subseteq deleted \cup disabled \cup {e}
      /\ saving' \subseteq [entry : Entries, pw : Passwords]
      /\ issued' \in 0..MaxTokens /\ issued <= issued' /\ jar' \in [Browsers -> 0..issued']
  BY <1>1 DEF TypeOK
<1>3. /\ sess' \in GoneOrSession
      /\ \A t \in Tokens :
           /\ t > issued' => sess'[t] = Gone
           /\ t <= issued /\ sess[t] = Gone => sess'[t] = Gone
           /\ sess'[t] # Gone /\ sess'[t].escaped = "no" => sess'[t] = sess[t] /\ sess[t].entry # e
  BY <1>1, EscapingFields DEF Escape, TypeOK
<1>4. /\ req' \in [Requests -> Request \cup {Idle}]
      /\ \A r \in Requests : SameBut(req[r], req'[r], e)
  BY <1>1, EscapingFields DEF Escape
<1>5. /\ fwd' \in [Forwards -> Forwarded \cup {NoForward}]
      /\ \A p \in Forwards : Carried(fwd[p], fwd'[p], e)
  BY <1>1, OvertakenFields DEF Escape
<1>. QED  BY <1>2, <1>3, <1>4, <1>5, Kept

\* A step that leaves the gate alone.
LEMMA GateStays ==
  ASSUME IInv, UNCHANGED <<table, sess, issued, jar, req, saving, fwd>>
  PROVE  IInv'
BY DEF table, IInv, TypeOK, Asking, InTime, RevocationReachesSessions, Admitted, ForwardOK, Source

\* The password of a form, and the session it opens.
LEMMA FormSavedKeeps ==
  ASSUME SetupIInv, NEW f \in Forms, FormSaved(f)
  PROVE  IInv'
<1>. PICK n, s : /\ n = issued + 1
                 /\ s = [entry |-> 0, up |-> up[0], by |-> form[f].pw, escaped |-> "no"]
  OBVIOUS
<1>0. IInv /\ TypeOK /\ issued \in Nat /\ 0 \in Entries /\ sess \in GoneOrSession
  BY DEF SetupIInv, IInv, TypeOK, Entries, GoneOrSession
<1>1. /\ form[f].phase = "form" /\ form[f].pw \in Passwords /\ EnvPassword[0] = NoPassword
      /\ n \in Tokens /\ n \in 0..MaxTokens /\ n > issued /\ issued' = n
  <2>1. form[f].phase = "form" /\ issued' = n /\ issued < MaxTokens
    BY DEF FormSaved
  <2>2. form[f] \in Form /\ form[f].pw # NoPassword
    BY <2>1, NoFormFields DEF SetupIInv, SetupTypeOK
  <2>. QED  BY <1>0, <2>1, <2>2 DEF Form, SetupIInv, FromScratch, Tokens
<1>2. /\ file' = [file EXCEPT ![0] = form[f].pw]
      /\ sess' = [Escaping(0) EXCEPT ![n] = s] /\ req' = EscapingLogins(0)
      /\ UNCHANGED <<up, disabled, deleted, jar, saving>>
  BY DEF FormSaved
<1>3. s \in Session
  <2>1. up[0] \in Addresses
    BY <1>0 DEF TypeOK, Routes
  <2>. QED  BY <1>0, <1>1, <2>1 DEF Session, Escapes
<1>4. SessionOK(s)'
  <2>1. s.entry = 0 /\ s.by = form[f].pw /\ file'[0] = form[f].pw
    BY <1>0, <1>2 DEF TypeOK
  <2>2. 0 \notin deleted' \cup disabled'
    BY <1>0, <1>2 DEF TypeOK
  <2>. QED  BY <1>1, <2>1, <2>2 DEF SessionOK, Source
<1>5. /\ up' \in Routes /\ disabled' \subseteq Entries \ {0} /\ deleted' \subseteq Entries \ {0}
      /\ deleted' \cup disabled' \subseteq deleted \cup disabled \cup {0}
      /\ saving' \subseteq [entry : Entries, pw : Passwords]
      /\ file' \in [Entries -> Passwords \cup {NoPassword}]
      /\ \A i \in Entries \ {0} : file'[i] = file[i]
      /\ issued' \in 0..MaxTokens /\ issued <= issued' /\ jar' \in [Browsers -> 0..issued']
  BY <1>0, <1>1, <1>2 DEF TypeOK
<1>6. sess' \in GoneOrSession /\ \A t \in Tokens : sess'[t] = IF t = n THEN s ELSE Escaping(0)[t]
  BY <1>0, <1>1, <1>2, <1>3, EscapingFields DEF GoneOrSession
<1>7. ASSUME NEW t \in Tokens
      PROVE  /\ t > issued' => sess'[t] = Gone
             /\ t <= issued /\ sess[t] = Gone => sess'[t] = Gone
             /\ sess'[t] # Gone /\ sess'[t].escaped = "no" =>
                  (sess'[t] = sess[t] /\ sess[t].entry # 0) \/ SessionOK(sess[t])'
  <2>1. t \in Nat /\ (t > issued => sess[t] = Gone)
    BY <1>0 DEF TypeOK, Tokens
  <2>2. CASE t = n
    <3>1. SessionOK(sess[t])'
      BY <1>4, <1>6, <2>2 DEF SessionOK
    <3>. QED  BY <1>0, <1>1, <2>2, <3>1
  <2>3. CASE t # n
    BY <1>0, <1>1, <1>6, <2>1, <2>3, EscapingFields
  <2>. QED  BY <2>2, <2>3
<1>8. /\ req' \in [Requests -> Request \cup {Idle}]
      /\ \A r \in Requests : SameBut(req[r], req'[r], 0)
  BY <1>0, <1>2, EscapingFields
<1>9. /\ fwd' \in [Forwards -> Forwarded \cup {NoForward}]
      /\ \A p \in Forwards : Carried(fwd[p], fwd'[p], 0)
  BY <1>0, OvertakenFields DEF FormSaved
<1>. QED  BY <1>0, <1>5, <1>6, <1>7, <1>8, <1>9, Kept

-----------------------------------------------------------------------------
(* One step                                                                *)

\* No form that was not let in comes to its hash.
LEMMA FormsStay ==
  ASSUME SetupIInv, IInv', issued <= issued',
         setupIssued' \in 0..MaxSetup, setupIssued <= setupIssued',
         pendingSetup' \in 0..setupIssued', setupJar' \in [Browsers -> 0..setupIssued'],
         spent' \in BOOLEAN, PendingIsFresh',
         form' \in [Forms -> Form \cup {NoForm}],
         \A g \in Forms :
           \/ form'[g] = form[g]
           \/ FormOK(form[g])' /\ (form'[g].phase = "form" => EnvPassword[0] = NoPassword)
  PROVE  SetupIInv'
<1>1. /\ issued \in Nat /\ issued' \in Nat /\ setupIssued \in Nat /\ setupIssued' \in Nat
  BY DEF SetupIInv, IInv, TypeOK, SetupTypeOK
<1>2. ASSUME NEW g \in Forms
      PROVE  FormOK(form[g])' /\ (form'[g].phase = "form" => EnvPassword[0] = NoPassword)
  <2>1. CASE form'[g] = form[g]
    <3>1. /\ FormOK(form[g]) /\ form[g].tok \in Nat
          /\ form[g].phase = "form" => EnvPassword[0] = NoPassword
      BY NoFormFields DEF SetupIInv, SetupTypeOK, FromScratch, FormOK, Form, SetupTokens, NoToken
    <3>. QED  BY <1>1, <2>1, <3>1 DEF FormOK
  <2>. QED  BY <1>2, <2>1
<1>3. FromScratch'
  BY <1>2 DEF FromScratch
<1>4. SetupTypeOK'
  BY <1>2 DEF SetupTypeOK, FormOK, IInv
<1>. QED  BY <1>3, <1>4 DEF SetupIInv

LEMMA EmptySlot ==
  ASSUME setupIssued \in Nat
  PROVE  FormOK(NoForm) /\ NoForm.phase # "form"
BY NoFormFields DEF FormOK, NoToken

\* One form changes; the gate goes on, and setup tokens are as they were.
LEMMA OneForm ==
  ASSUME SetupIInv, IInv', UNCHANGED <<pendingSetup, setupIssued, spent>>,
         issued' = issued, setupJar' \in [Browsers -> 0..setupIssued],
         NEW f \in Forms, NEW q, form' = [form EXCEPT ![f] = q], FormOK(q)',
         q.phase = "form" => EnvPassword[0] = NoPassword
  PROVE  SetupIInv'
<1>1. /\ setupIssued' \in 0..MaxSetup /\ setupIssued <= setupIssued'
      /\ pendingSetup' \in 0..setupIssued' /\ setupJar' \in [Browsers -> 0..setupIssued']
      /\ spent' \in BOOLEAN /\ PendingIsFresh' /\ issued <= issued'
  BY DEF SetupIInv, SetupTypeOK, PendingIsFresh, IInv, TypeOK
<1>2. /\ form' \in [Forms -> Form \cup {NoForm}]
      /\ \A g \in Forms :
           \/ form'[g] = form[g]
           \/ FormOK(form[g])' /\ (form'[g].phase = "form" => EnvPassword[0] = NoPassword)
  BY DEF SetupIInv, SetupTypeOK, FormOK
<1>. QED  BY <1>1, <1>2, FormsStay

LEMMA ServingIssues ==
  ASSUME TypeOK, Serving
  PROVE  issued <= issued'
<1>1. issued \in Nat
  BY DEF TypeOK
<1>2. issued' = issued \/ issued' = issued + 1
  BY DEF Serving, Login, Abort, Step, BodyRead, Checked, ProbeFails, ProbeSucceeds, Deliver, Lose,
         Logout, Forward, Send, TurnAway, Expire, SetPassword, PasswordSaved, Enable, Disable,
         Delete, AddAgain
<1>. QED  BY <1>1, <1>2

\* The owner's entry is on: while there is no password, it has none either.
LEMMA NoOwnerPassword ==
  ASSUME TypeOK, ~HasPassword
  PROVE  EnvPassword[0] = NoPassword
BY DEF TypeOK, HasPassword, Enabled, Visible, Source, Entries

LEMMA SetupNextKeeps ==
  ASSUME SetupIInv, SetupNext
  PROVE  SetupIInv'
<1>0. /\ IInv /\ TypeOK /\ issued \in Nat
      /\ setupIssued \in 0..MaxSetup /\ setupIssued \in Nat /\ pendingSetup \in 0..setupIssued
      /\ setupJar \in [Browsers -> 0..setupIssued] /\ spent \in BOOLEAN
      /\ form \in [Forms -> Form \cup {NoForm}] /\ PendingIsFresh
      /\ 0 \in 0..setupIssued
  BY DEF SetupIInv, SetupTypeOK, IInv, TypeOK
<1>g. ASSUME NEW f \in Forms
      PROVE  FormOK(form[f])
  BY <1>g DEF SetupIInv, SetupTypeOK, FormOK
<1>1. CASE Serving /\ UNCHANGED setupVars
  <2>1. IInv' /\ issued <= issued'
    BY <1>0, <1>1, ServingKeeps, ServingIssues
  <2>2. /\ setupIssued' \in 0..MaxSetup /\ setupIssued <= setupIssued'
        /\ pendingSetup' \in 0..setupIssued' /\ setupJar' \in [Browsers -> 0..setupIssued']
        /\ spent' \in BOOLEAN /\ PendingIsFresh'
        /\ form' \in [Forms -> Form \cup {NoForm}] /\ \A g \in Forms : form'[g] = form[g]
    BY <1>0, <1>1 DEF setupVars, PendingIsFresh
  <2>. QED  BY <2>1, <2>2, FormsStay
<1>2. CASE Dying /\ SetupReborn
  <2>1. IInv' /\ issued' = issued
    BY <1>0, <1>2, DyingKeeps
       DEF Dying, Restart, CrashInPasswordSaved, CrashInDisable, CrashInDelete
  <2>2. /\ setupIssued' \in 0..MaxSetup /\ setupIssued <= setupIssued'
        /\ pendingSetup' \in 0..setupIssued' /\ setupJar' \in [Browsers -> 0..setupIssued']
        /\ spent' \in BOOLEAN /\ PendingIsFresh'
    BY <1>0, <1>2 DEF SetupReborn, PendingIsFresh, NoToken
  <2>3. /\ form' \in [Forms -> Form \cup {NoForm}]
        /\ \A g \in Forms : FormOK(form[g])' /\ (form'[g].phase = "form" => EnvPassword[0] = NoPassword)
    BY <1>0, <1>2, <2>2, EmptySlot, NoFormFields DEF SetupReborn, FormOK, NoToken
  <2>. QED  BY <1>0, <2>1, <2>2, <2>3, FormsStay
<1>3. ASSUME NEW f \in Forms, NEW b \in Browsers, OpenSetup(f, b)
      PROVE  SetupIInv'
  <2>. PICK q : q = [NoForm EXCEPT !.phase = "page", !.browser = b, !.tok = setupIssued + 1]
    OBVIOUS
  <2>1. IInv' /\ issued' = issued
    BY <1>0, <1>3, GateStays DEF OpenSetup
  <2>2. /\ setupIssued < MaxSetup /\ setupIssued' = setupIssued + 1
        /\ pendingSetup' = setupIssued + 1 /\ UNCHANGED setupJar /\ ~spent' /\ spent' \in BOOLEAN
        /\ form' = [form EXCEPT ![f] = q]
    BY <1>3 DEF OpenSetup
  <2>3. /\ q \in Form /\ q.phase = "page" /\ q.tok = setupIssued + 1
    <3>1. setupIssued + 1 \in SetupTokens
      BY <1>0, <2>2 DEF SetupTokens
    <3>2. q \in Slot /\ q.phase = "page" /\ q.tok = setupIssued + 1 /\ q.browser = b
      BY <3>1, NoFormFields DEF Slot
    <3>. QED  BY <3>2 DEF Slot, Form
  <2>4. /\ setupIssued' \in 0..MaxSetup /\ setupIssued <= setupIssued'
        /\ pendingSetup' \in 0..setupIssued' /\ setupJar' \in [Browsers -> 0..setupIssued']
        /\ PendingIsFresh'
    BY <1>0, <2>2 DEF PendingIsFresh
  <2>5. /\ form' \in [Forms -> Form \cup {NoForm}]
        /\ \A g \in Forms :
             \/ form'[g] = form[g]
             \/ FormOK(form[g])' /\ form'[g].phase # "form"
    BY <1>0, <2>2, <2>3 DEF FormOK
  <2>. QED  BY <1>0, <2>1, <2>2, <2>4, <2>5, FormsStay
<1>4. ASSUME NEW f \in Forms, PageArrives(f)
      PROVE  SetupIInv'
  <2>1. IInv' /\ issued' = issued /\ UNCHANGED <<pendingSetup, setupIssued, spent>>
        /\ form' = [form EXCEPT ![f] = NoForm]
    BY <1>0, <1>4, GateStays DEF PageArrives
  <2>2. setupJar' \in [Browsers -> 0..setupIssued]
    <3>1. form[f].tok \in 0..setupIssued
      BY <1>0, <1>g, NoFormFields DEF FormOK, Form, SetupTokens, NoToken
    <3>. QED  BY <1>0, <1>4, <3>1 DEF PageArrives
  <2>3. FormOK(NoForm)' /\ NoForm.phase # "form"
    BY <1>0, <2>1, NoFormFields DEF FormOK, NoToken
  <2>. QED  BY <1>0, <2>1, <2>2, <2>3, OneForm
<1>5. ASSUME NEW f \in Forms, NEW b \in Browsers, NEW pw \in Passwords, PostSetup(f, b, pw)
      PROVE  SetupIInv'
  <2>. PICK q : q = [NoForm EXCEPT !.phase = "form", !.browser = b, !.tok = pendingSetup, !.pw = pw]
    OBVIOUS
  <2>1. IInv' /\ issued' = issued /\ UNCHANGED <<pendingSetup, setupIssued, spent, setupJar>>
        /\ form' = [form EXCEPT ![f] = q]
    BY <1>0, <1>5, GateStays DEF PostSetup
  <2>2. /\ q \in Form /\ q.phase = "form" /\ q.tok = pendingSetup /\ q.pw = pw
    <3>1. pendingSetup \in SetupTokens
      BY <1>0, <1>5 DEF SetupTokens, PostSetup, NoToken
    <3>2. /\ q \in Slot /\ q.phase = "form" /\ q.tok = pendingSetup /\ q.browser = b
          /\ q.pw = pw
      BY <3>1, NoFormFields DEF Slot
    <3>. QED  BY <3>2 DEF Slot, Form
  <2>3. FormOK(q)'
    BY <1>0, <2>1, <2>2 DEF FormOK
  <2>4. EnvPassword[0] = NoPassword
    BY <1>0, <1>5, NoOwnerPassword DEF PostSetup
  <2>. QED  BY <1>0, <2>1, <2>3, <2>4, OneForm
<1>6. CASE SetupExpires \/ \E b \in Browsers : RefuseSetup(b)
  <2>1. IInv' /\ issued' = issued /\ pendingSetup' = NoToken
        /\ UNCHANGED <<setupIssued, spent, setupJar, form>>
    BY <1>0, <1>6, GateStays DEF SetupExpires, RefuseSetup
  <2>2. /\ setupIssued' \in 0..MaxSetup /\ setupIssued <= setupIssued'
        /\ pendingSetup' \in 0..setupIssued' /\ setupJar' \in [Browsers -> 0..setupIssued']
        /\ spent' \in BOOLEAN /\ PendingIsFresh'
        /\ form' \in [Forms -> Form \cup {NoForm}] /\ \A g \in Forms : form'[g] = form[g]
    BY <1>0, <2>1 DEF PendingIsFresh, NoToken
  <2>. QED  BY <1>0, <2>1, <2>2, FormsStay
<1>7. ASSUME NEW f \in Forms, FormSaved(f)
      PROVE  SetupIInv'
  <2>. PICK q : q = [NoForm EXCEPT !.phase = "reply", !.browser = form[f].browser, !.opens = issued + 1]
    OBVIOUS
  <2>1. /\ IInv' /\ issued < MaxTokens /\ issued' = issued + 1 /\ pendingSetup' = NoToken
        /\ UNCHANGED <<setupIssued, setupJar>> /\ spent' \in BOOLEAN
        /\ form' = [form EXCEPT ![f] = q] /\ form[f].phase = "form"
    BY <1>7, FormSavedKeeps DEF FormSaved, Spends
  <2>2. q \in Form /\ q.phase = "reply" /\ q.opens = issued + 1 /\ q.tok = NoToken
    <3>1. form[f].browser \in Browsers
      BY <1>0, <2>1, NoFormFields DEF Form
    <3>2. issued + 1 \in Tokens
      BY <1>0, <2>1 DEF Tokens, IInv, TypeOK
    <3>3. /\ q \in Slot /\ q.phase = "reply" /\ q.browser = form[f].browser
          /\ q.opens = issued + 1 /\ q.tok = NoToken
      BY <3>1, <3>2, NoFormFields DEF Slot
    <3>. QED  BY <3>1, <3>3 DEF Slot, Form
  <2>3. /\ setupIssued' \in 0..MaxSetup /\ setupIssued <= setupIssued'
        /\ pendingSetup' \in 0..setupIssued' /\ setupJar' \in [Browsers -> 0..setupIssued']
        /\ PendingIsFresh'
    BY <1>0, <2>1 DEF PendingIsFresh, NoToken
  <2>4. /\ form' \in [Forms -> Form \cup {NoForm}]
        /\ \A g \in Forms :
             \/ form'[g] = form[g]
             \/ FormOK(form[g])' /\ form'[g].phase # "form"
    BY <1>0, <2>1, <2>2 DEF FormOK, NoToken
  <2>. QED  BY <1>0, <2>1, <2>3, <2>4, FormsStay
<1>8. ASSUME NEW f \in Forms, FormAnswered(f)
      PROVE  SetupIInv'
  <2>1. /\ UNCHANGED <<table, sess, issued, req, saving, fwd, pendingSetup, setupIssued, spent>>
        /\ form' = [form EXCEPT ![f] = NoForm] /\ form[f].phase = "reply"
        /\ jar' = [jar EXCEPT ![form[f].browser] = form[f].opens]
        /\ setupJar' = [setupJar EXCEPT ![form[f].browser] = NoToken]
    BY <1>8 DEF FormAnswered
  <2>2. form[f].opens \in 0..issued
    BY <1>0, <1>g, <2>1 DEF FormOK
  <2>3. IInv'
    <3>1. jar' \in [Browsers -> 0..issued]
      BY <1>0, <2>1, <2>2 DEF TypeOK
    <3>. QED
      BY <1>0, <2>1, <3>1 DEF table, IInv, TypeOK, Asking, InTime, RevocationReachesSessions,
                              Admitted, ForwardOK, Source
  <2>4. setupJar' \in [Browsers -> 0..setupIssued]
    BY <1>0, <2>1 DEF NoToken
  <2>5. FormOK(NoForm)' /\ NoForm.phase # "form"
    BY <1>0, <2>1, NoFormFields DEF FormOK, NoToken
  <2>. QED  BY <1>0, <2>1, <2>3, <2>4, <2>5, OneForm
<1>e. ASSUME NEW e \in Entries, UNCHANGED <<up, disabled, deleted, issued, jar>>,
             file' \in [Entries -> Passwords \cup {NoPassword}],
             \A i \in Entries \ {e} : file'[i] = file[i],
             saving' \subseteq saving,
             UNCHANGED <<file, sess, req, fwd>> \/ Escape(e)
      PROVE  IInv'
  <2>1. CASE Escape(e)
    BY <1>0, <1>e, <2>1, EscapingKeeps
  <2>2. CASE UNCHANGED <<file, sess, req, fwd>>
    <3>1. /\ up' \in Routes /\ disabled' \subseteq Entries \ {0} /\ deleted' \subseteq Entries \ {0}
          /\ deleted' \cup disabled' \subseteq deleted \cup disabled
          /\ saving' \subseteq [entry : Entries, pw : Passwords]
          /\ jar' \in [Browsers -> 0..issued]
          /\ sess' \in GoneOrSession /\ \A t \in Tokens : sess'[t] \in {sess[t], Gone}
          /\ req' \in [Requests -> Request \cup {Idle}] /\ \A r \in Requests : req'[r] = req[r]
          /\ fwd' \in [Forwards -> Forwarded \cup {NoForward}]
          /\ \A p \in Forwards : fwd'[p] = fwd[p]
      BY <1>0, <1>e, <2>2 DEF TypeOK, GoneOrSession
    <3>. QED  BY <1>0, <1>e, <2>2, <3>1, Quiet
  <2>. QED  BY <1>e, <2>1, <2>2
<1>9. ASSUME NEW f \in Forms, FormEnds(f)
      PROVE  SetupIInv'
  <2>1. 0 \in Entries
    BY DEF Entries
  <2>2. IInv'
    BY <1>0, <1>9, <2>1, <1>e DEF FormEnds, TypeOK
  <2>3. /\ issued' = issued /\ UNCHANGED <<pendingSetup, setupIssued, spent, setupJar>>
        /\ form' = [form EXCEPT ![f] = NoForm]
    BY <1>9 DEF FormEnds
  <2>4. FormOK(NoForm)' /\ NoForm.phase # "form"
    BY <1>0, <2>3, NoFormFields DEF FormOK, NoToken
  <2>. QED  BY <1>0, <2>2, <2>3, <2>4, OneForm
<1>10. CASE (\E e \in Entries : DeletePasswordFile(e)) \/ (\E s \in saving : PasswordNotSaved(s))
  <2>1. IInv' /\ issued' = issued /\ UNCHANGED setupVars
    <3>1. ASSUME NEW e \in Entries, DeletePasswordFile(e)
          PROVE  IInv' /\ issued' = issued /\ UNCHANGED setupVars
      BY <1>0, <1>e, <3>1 DEF DeletePasswordFile, TypeOK
    <3>2. ASSUME NEW s \in saving, PasswordNotSaved(s)
          PROVE  IInv' /\ issued' = issued /\ UNCHANGED setupVars
      <4>1. s.entry \in Entries
        BY <1>0 DEF TypeOK
      <4>. QED  BY <1>0, <1>e, <3>2, <4>1 DEF PasswordNotSaved, TypeOK
    <3>. QED  BY <1>10, <3>1, <3>2
  <2>2. /\ setupIssued' \in 0..MaxSetup /\ setupIssued <= setupIssued'
        /\ pendingSetup' \in 0..setupIssued' /\ setupJar' \in [Browsers -> 0..setupIssued']
        /\ spent' \in BOOLEAN /\ PendingIsFresh'
        /\ form' \in [Forms -> Form \cup {NoForm}] /\ \A g \in Forms : form'[g] = form[g]
    BY <1>0, <2>1 DEF setupVars, PendingIsFresh
  <2>. QED  BY <1>0, <2>1, <2>2, FormsStay
<1>. QED
  BY <1>1, <1>2, <1>3, <1>4, <1>5, <1>6, <1>7, <1>8, <1>9, <1>10 DEF SetupNext

LEMMA SetupInitIInv == SetupInit => SetupIInv
<1>. SUFFICES ASSUME SetupInit PROVE SetupIInv
  OBVIOUS
<1>1. IInv
  BY InitIInv DEF SetupInit
<1>2. SetupTypeOK
  <2>1. /\ TypeOK /\ setupIssued = 0 /\ pendingSetup = 0 /\ spent = FALSE
        /\ setupJar = [b \in Browsers |-> 0] /\ form = [f \in Forms |-> NoForm]
    BY <1>1 DEF SetupInit, IInv, NoToken
  <2>2. \A f \in Forms : form[f] = NoForm /\ form[f].tok <= setupIssued
    BY <2>1, NoFormFields DEF NoToken
  <2>3. setupIssued \in 0..MaxSetup /\ pendingSetup \in 0..setupIssued
        /\ setupJar \in [Browsers -> 0..setupIssued]
    BY <2>1
  <2>. QED  BY <2>1, <2>2, <2>3, NoFormFields DEF SetupTypeOK
<1>. QED  BY <1>1, <1>2, NoFormFields DEF SetupInit, SetupIInv, FromScratch, PendingIsFresh

-----------------------------------------------------------------------------
(* The theorems                                                            *)

\* The invariant of the gate holds with the setup at work, too.
THEOREM SetupInvariant == SetupSpec => []SetupIInv
<1>1. SetupIInv /\ [SetupNext]_allVars => SetupIInv'
  <2>. SUFFICES ASSUME SetupIInv, [SetupNext]_allVars PROVE SetupIInv'
    OBVIOUS
  <2>1. CASE SetupNext
    BY <2>1, SetupNextKeeps
  <2>2. CASE UNCHANGED allVars
    <3>1. IInv'
      BY <2>2, GateStays DEF allVars, vars, table, SetupIInv
    <3>. QED  BY <2>2, <3>1 DEF allVars, vars, setupVars, SetupIInv, SetupTypeOK, IInv, FromScratch,
                               PendingIsFresh
  <2>. QED  BY <2>1, <2>2
<1>. QED  BY SetupInitIInv, <1>1, PTL DEF SetupSpec

\* Every variable of the gate and of the setup stays in its type.
THEOREM SetupTypeCorrect == SetupSpec => []SetupTypeOK
<1>1. SetupIInv => SetupTypeOK
  BY DEF SetupIInv
<1>. QED  BY SetupInvariant, <1>1, PTL

\* A session alive has the password of its entry also where passwords are lost, set
\* up again, and set up twice, except where nothing was revoked.
THEOREM SetupRevokesToo == SetupSpec => []RevocationReachesSessions
<1>1. SetupIInv => RevocationReachesSessions
  BY DEF SetupIInv, IInv
<1>. QED  BY SetupInvariant, <1>1, PTL

\* Only a form with the newest token, which has set no password, is let in.
THEOREM OneTimeToken == SetupSpec => OnlyNewestUnspent
<1>1. SetupIInv /\ [SetupNext]_allVars =>
        [\A f \in Forms :
           form[f].phase # "form" /\ form'[f].phase = "form" =>
             form'[f].tok = setupIssued /\ ~spent]_allVars
  <2>. SUFFICES ASSUME SetupIInv, SetupNext, NEW g \in Forms,
                       form[g].phase # "form", form'[g].phase = "form"
                PROVE  form'[g].tok = setupIssued /\ ~spent
    OBVIOUS
  <2>1. PICK f \in Forms, b \in Browsers, pw \in Passwords : PostSetup(f, b, pw)
    <3>1. ASSUME NEW f \in Forms, NEW b \in Browsers, OpenSetup(f, b)
          PROVE  FALSE
      <4>1. form'[f].phase = "page"
        BY <3>1, NoFormFields DEF OpenSetup, SetupIInv, SetupTypeOK, Slot
      <4>2. f # g => form'[g] = form[g]
        BY <3>1 DEF OpenSetup, SetupIInv, SetupTypeOK
      <4>. QED  BY <4>1, <4>2
    <3>2. ASSUME NEW f \in Forms, FormSaved(f)
          PROVE  FALSE
      <4>1. form'[f].phase = "reply"
        BY <3>2, NoFormFields DEF FormSaved, SetupIInv, SetupTypeOK, Slot
      <4>2. f # g => form'[g] = form[g]
        BY <3>2 DEF FormSaved, SetupIInv, SetupTypeOK
      <4>. QED  BY <4>1, <4>2
    <3>3. ASSUME NEW f \in Forms, PageArrives(f) \/ FormAnswered(f) \/ FormEnds(f)
          PROVE  FALSE
      BY <3>3, NoFormFields DEF PageArrives, FormAnswered, FormEnds, SetupIInv, SetupTypeOK
    <3>4. ~SetupReborn /\ form' # form
      BY NoFormFields DEF SetupReborn
    <3>. QED
      BY <3>1, <3>2, <3>3, <3>4
      DEF SetupNext, setupVars, RefuseSetup, SetupExpires, DeletePasswordFile, PasswordNotSaved
  <2>2. form'[g].tok = pendingSetup /\ pendingSetup # NoToken
    <3>1. form' = [form EXCEPT ![f] = [NoForm EXCEPT !.phase = "form", !.browser = b,
                                                    !.tok = pendingSetup, !.pw = pw]]
          /\ pendingSetup # NoToken
      BY <2>1 DEF PostSetup
    <3>2. f = g
      BY <3>1 DEF SetupIInv, SetupTypeOK
    <3>. QED  BY <3>1, <3>2, NoFormFields DEF SetupIInv, SetupTypeOK, Slot
  <2>. QED  BY <2>2 DEF SetupIInv, PendingIsFresh
<1>. QED  BY SetupInvariant, <1>1, PTL DEF SetupSpec, OnlyNewestUnspent
=============================================================================
