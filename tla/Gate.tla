-------------------------------- MODULE Gate --------------------------------
(***************************************************************************)
(* The password gate: the HTTP handlers of lib/proxy.mjs, the auth object  *)
(* they call (lib/index.js) and the settings operations that change        *)
(* passwords and entries while requests are in flight.                     *)
(*                                                                         *)
(* The process is single-threaded: a handler runs without interruption     *)
(* from one await to the next.  A login is cut at its awaits - the body,   *)
(* one password check per entry, the probe of the upstream -, a request to *)
(* be forwarded at the cookie for its upstream, and a change of password   *)
(* at its hashing; everything else is one step.                            *)
(*                                                                         *)
(* Abstracted: the session store keeps what it is given (SessionStore      *)
(* shows when); a session's time runs out whenever it likes (Expire); the  *)
(* login limiter is a module of its own; what happens while no enabled     *)
(* entry has a password is in Setup; a hash matches the password it was    *)
(* made from and no other; the environment is the same in every process;   *)
(* entries are not added beyond those there are.                           *)
(***************************************************************************)
EXTENDS Integers, FiniteSets

CONSTANTS
  Browsers,
  Logins,       \* bound: slots for logins in flight
  Logouts,      \* bound: slots for logouts in flight
  Forwards,     \* bound: slots for requests on their way to an upstream
  MaxTokens,    \* bound: sessions issued in one behaviour
  MaxSaving,    \* bound: passwords being hashed at a time
  MaxEntry,     \* bound: entries are 0..MaxEntry, 0 is the owner's
  RuntimeBase,  \* the first entry added in the settings page
  Passwords,
  NoPassword,
  EnvPassword,  \* EnvPassword[e]: from the environment, NoPassword if unset
  Addresses,    \* host:port of upstreams
  InitialUp,    \* InitialUp[e]: the address of entry e in the first process
  InitialFile   \* InitialFile[e]: the password whose hash is in password.<e>

Entries == 0..MaxEntry
Tokens  == 1..MaxTokens
NoToken == 0
Requests == Logins \cup Logouts

\* resolveEntries() and appendRuntimeEntries() leave no address twice.
Routes == {u \in [Entries -> Addresses] : \A i, j \in Entries : u[i] = u[j] => i = j}

ASSUME GateAssumption ==
  /\ MaxEntry \in Nat /\ MaxTokens \in Nat /\ MaxSaving \in Nat
  /\ RuntimeBase \in Nat \ {0}
  /\ NoPassword \notin Passwords
  /\ EnvPassword \in [Entries -> Passwords \cup {NoPassword}]
  /\ InitialFile \in [Entries -> Passwords \cup {NoPassword}]
  /\ InitialUp \in Routes

VARIABLES
  up,        \* up[e]: the address of entry e, from the configuration
  disabled,  \* entries switched off in the settings
  deleted,   \* entries removed in the settings
  file,      \* file[e]: the password whose hash is in password.<e>
  sess,      \* sess[t]: the session of token t, or Gone
  issued,    \* number of tokens issued
  jar,       \* jar[b]: the gate cookie of browser b, NoToken if none
  req,       \* req[r]: the request in slot r
  saving,    \* password changes being hashed
  fwd        \* fwd[p]: the request in slot p that is to be sent to an upstream

vars == <<up, disabled, deleted, file, sess, issued, jar, req, saving, fwd>>

-----------------------------------------------------------------------------
(* Sessions, requests and the entry table.  Definitions named Faulty... are *)
(* seeded faults: plausible slips in the definition that follows them,     *)
(* never used by Next, kept to see that each property can fail.            *)

Gone == [entry |-> 0, up |-> "none", by |-> NoPassword, escaped |-> "no"]

\* A session is bound to an entry and to its address.  History: by is the
\* password that opened it; escaped, how it escaped from a revocation of the
\* sessions of its entry: its login was under way; or there was none, because the
\* process died, a setup form replaced the password, or its file was lost.
Escapes == {"no", "login", "unrevoked"}

Session == [entry : Entries, up : Addresses, by : Passwords, escaped : Escapes]

Phases == {"body", "check", "probe", "reply"}

\* A request that is to be sent: to which address, and the session it was admitted
\* with.  History: whether the password of its entry was changed, or the entry
\* switched off or deleted, since.
NoForward == [to |-> "none", with |-> Gone, stale |-> FALSE]

Forwarded == [to : Addresses, with : Session, stale : BOOLEAN]

Idle == [phase |-> "idle", browser |-> "none", tok |-> NoToken, pw |-> NoPassword,
         at |-> 0, ok |-> FALSE, cookie |-> "keep", escaped |-> "no"]

\* A request remembers the cookie it came with (tok); a login also its
\* password, the entry it is at, and whether the password it read for that entry
\* is the same.  Its reply keeps, clears, or sets the browser's cookie.
Request ==
  [phase : Phases, browser : Browsers, tok : Tokens \cup {NoToken},
   pw : Passwords \cup {NoPassword}, at : Entries, ok : BOOLEAN,
   cookie : {"keep", "clear", "set"}, escaped : Escapes]

Visible(e) == e \notin deleted

\* isEnabledEntry(): the owner's entry is never off.
Enabled(e) == Visible(e) /\ (e = 0 \/ e \notin disabled)

\* getPasswordSource(): the environment wins over the file.
Source(e) == IF EnvPassword[e] # NoPassword THEN EnvPassword[e] ELSE file[e]

\* hasAnyPassword()
HasPassword == \E e \in Entries : Enabled(e) /\ Source(e) # NoPassword

FaultyAccepts(t) ==
  /\ t # NoToken
  /\ sess[t] # Gone
  /\ Enabled(sess[t].entry)

\* verifySession() of a token: its session exists, its entry is on, and the
\* entry still leads where it led when the session was issued.
Accepts(t) ==
  /\ t # NoToken
  /\ sess[t] # Gone
  /\ Enabled(sess[t].entry)
  /\ sess[t].up = up[sess[t].entry]

\* What a list of sessions is without those of tokens ts.
Without(s, ts) == [t \in Tokens |-> IF t \in ts THEN Gone ELSE s[t]]

\* verifySession() destroys a session it does not accept.
Verified(t) == IF Accepts(t) THEN sess ELSE Without(sess, {t})

SessionsOf(e) == {t \in Tokens : sess[t] # Gone /\ sess[t].entry = e}

-----------------------------------------------------------------------------
(* Logging in                                                              *)

Init ==
  /\ up = InitialUp
  /\ disabled = {}
  /\ deleted = {}
  /\ file = InitialFile
  /\ sess = [t \in Tokens |-> Gone]
  /\ issued = 0
  /\ jar = [b \in Browsers |-> NoToken]
  /\ req = [r \in Requests |-> Idle]
  /\ saving = {}
  /\ fwd = [p \in Forwards |-> NoForward]

table == <<up, disabled, deleted, file>>

\* The header of POST /gate-login: the handler looks at the session first, as it
\* does for every request.
Login(r, b, pw) ==
  /\ HasPassword
  /\ req[r] = Idle
  /\ req' = [req EXCEPT ![r] = [Idle EXCEPT !.phase = "body", !.browser = b,
                                            !.tok = jar[b], !.pw = pw]]
  /\ sess' = Verified(jar[b])
  /\ UNCHANGED <<table, issued, jar, saving, fwd>>

\* The browser goes away before its body is complete.
Abort(r) ==
  /\ req[r].phase = "body"
  /\ req' = [req EXCEPT ![r] = Idle]
  /\ UNCHANGED <<table, sess, issued, jar, saving, fwd>>

FaultyReply(q, tok, cookie) == [q EXCEPT !.phase = "reply", !.tok = tok, !.cookie = cookie]

\* The answer to request q, after which nothing else of it matters.
Reply(q, tok, cookie) ==
  [Idle EXCEPT !.phase = "reply", !.browser = q.browser, !.tok = tok, !.cookie = cookie]

\* verifyAny(): the next enabled entry from e on, with the password it has now;
\* past the last one the login has failed.
Trying(q, e) ==
  LET rest == {i \in Entries : i >= e /\ Enabled(i)}
  IN  IF rest = {} THEN Reply(q, NoToken, "keep")
      ELSE LET i == CHOOSE i \in rest : \A j \in rest : i <= j
           IN  [q EXCEPT !.phase = "check", !.at = i, !.ok = (Source(i) = q.pw)]

FaultyChecked(r) ==
  /\ req[r].phase = "check"
  /\ req' = [req EXCEPT ![r] = IF @.ok THEN [@ EXCEPT !.phase = "probe"]
                               ELSE Trying(@, @.at)]
  /\ UNCHANGED <<table, sess, issued, jar, saving, fwd>>

BodyRead(r) ==
  /\ req[r].phase = "body"
  /\ req' = [req EXCEPT ![r] = Trying(@, 0)]
  /\ UNCHANGED <<table, sess, issued, jar, saving, fwd>>

\* verifyPassword() of the password read for this entry has come to an end.
Checked(r) ==
  /\ req[r].phase = "check"
  /\ req' = [req EXCEPT ![r] = IF @.ok THEN [@ EXCEPT !.phase = "probe"]
                               ELSE Trying(@, @.at + 1)]
  /\ UNCHANGED <<table, sess, issued, jar, saving, fwd>>

\* The upstream does not answer the probe.
ProbeFails(r) ==
  /\ req[r].phase = "probe"
  /\ req' = [req EXCEPT ![r] = Reply(@, NoToken, "keep")]
  /\ UNCHANGED <<table, sess, issued, jar, saving, fwd>>

\* It does: a session is created and the one the browser came with is destroyed.
ProbeSucceeds(r) ==
  LET q == req[r]
      s == [entry |-> q.at, up |-> up[q.at], by |-> q.pw, escaped |-> q.escaped]
  IN  /\ q.phase = "probe"
      /\ issued < MaxTokens
      /\ issued' = issued + 1
      /\ sess' = [Without(sess, {q.tok}) EXCEPT ![issued + 1] = s]
      /\ req' = [req EXCEPT ![r] = Reply(q, issued + 1, "set")]
      /\ UNCHANGED <<table, jar, saving, fwd>>

-----------------------------------------------------------------------------
(* Logging out, replies, and the use of a session                          *)

\* POST /gate/logout destroys the session and lets the browser forget it.
Logout(r, b) ==
  /\ HasPassword
  /\ req[r] = Idle
  /\ sess' = Without(sess, {jar[b]})
  /\ req' = [req EXCEPT ![r] = Reply([Idle EXCEPT !.browser = b], NoToken, "clear")]
  /\ UNCHANGED <<table, issued, jar, saving, fwd>>

\* The reply reaches the browser, in any order with other replies to it.
Deliver(r) ==
  LET q == req[r]
  IN  /\ q.phase = "reply"
      /\ jar' = CASE q.cookie = "keep"  -> jar
                  [] q.cookie = "clear" -> [jar EXCEPT ![q.browser] = NoToken]
                  [] q.cookie = "set"   -> [jar EXCEPT ![q.browser] = q.tok]
      /\ req' = [req EXCEPT ![r] = Idle]
      /\ UNCHANGED <<table, sess, issued, saving, fwd>>

\* The reply is lost: the browser has gone.
Lose(r) ==
  /\ req[r].phase = "reply"
  /\ req' = [req EXCEPT ![r] = Idle]
  /\ UNCHANGED <<table, sess, issued, jar, saving, fwd>>

\* Any other request, and a WebSocket upgrade even while no entry has a password, is
\* to go to the entry of its session; the DSH cookie of the entry is awaited first.
\* (An entry without one awaits nothing: it is sent in the same step.)
Forward(p, b) ==
  LET s == sess[jar[b]]
  IN  /\ fwd[p] = NoForward
      /\ Accepts(jar[b])
      /\ fwd' = [fwd EXCEPT ![p] = [to |-> up[s.entry], with |-> s, stale |-> FALSE]]
      /\ UNCHANGED <<table, sess, issued, jar, req, saving>>

\* It is sent where it was to go when it came: nothing is looked at again.
Send(p) ==
  /\ fwd[p] # NoForward
  /\ fwd' = [fwd EXCEPT ![p] = NoForward]
  /\ UNCHANGED <<table, sess, issued, jar, req, saving>>

\* Without an accepted session it is sent to the login page.
TurnAway(b) ==
  /\ ~Accepts(jar[b])
  /\ sess' = Verified(jar[b])
  /\ UNCHANGED <<table, issued, jar, req, saving, fwd>>

\* The time of a session is over: the next look at it deletes it.
Expire(t) ==
  /\ sess[t] # Gone
  /\ sess' = Without(sess, {t})
  /\ UNCHANGED <<table, issued, jar, req, saving, fwd>>

-----------------------------------------------------------------------------
(* Settings                                                                *)

\* webpass.password.set up to the hashing: entry and password are acceptable,
\* and no other visible entry has this password in the environment.
SetPassword(e, pw) ==
  /\ Visible(e)
  /\ \A i \in Entries \ {e} : Visible(i) => EnvPassword[i] # pw
  /\ Cardinality(saving) < MaxSaving
  /\ saving' = saving \cup {[entry |-> e, pw |-> pw]}
  /\ UNCHANGED <<table, sess, issued, jar, req, fwd>>

FaultyRevoked(e) == {t \in SessionsOf(e) : \A b \in Browsers : jar[b] # t}

\* destroyEntrySessions()
Revoked(e) == SessionsOf(e)

\* The logins that have read the password of entry e, the right one, and have no
\* session yet.
Outrunning(e) ==
  [r \in Requests |-> IF req[r].ok /\ req[r].at = e
                      THEN [req[r] EXCEPT !.escaped = "login"] ELSE req[r]]

\* The requests admitted with a session of entry e before now.
Overtaken(e) ==
  [p \in Forwards |-> IF fwd[p] # NoForward /\ fwd[p].with.entry = e
                      THEN [fwd[p] EXCEPT !.stale = TRUE] ELSE fwd[p]]

Revoke(e) ==
  /\ sess' = Without(sess, Revoked(e))
  /\ req' = Outrunning(e)
  /\ fwd' = Overtaken(e)

\* The hash is ready: it is written and the sessions of the entry are destroyed.
PasswordSaved(s) ==
  /\ s \in saving
  /\ saving' = saving \ {s}
  /\ file' = [file EXCEPT ![s.entry] = s.pw]
  /\ Revoke(s.entry)
  /\ UNCHANGED <<up, disabled, deleted, issued, jar>>

\* webpass.entry.set of a known entry, which may even be a deleted one.
Enable(e) ==
  /\ e # 0
  /\ disabled' = disabled \ {e}
  /\ UNCHANGED <<up, deleted, file, sess, issued, jar, req, saving, fwd>>

Disable(e) ==
  /\ e # 0
  /\ disabled' = disabled \cup {e}
  /\ Revoke(e)
  /\ UNCHANGED <<up, deleted, file, issued, jar, saving>>

\* webpass.entry.del
Delete(e) ==
  /\ e # 0
  /\ deleted' = deleted \cup {e}
  /\ Revoke(e)
  /\ UNCHANGED <<up, disabled, file, issued, jar, saving>>

\* webpass.entry.add of the address of a deleted entry: one that was added in the
\* settings page is reused, switched off.
AddAgain(e) ==
  /\ e \in deleted
  /\ e >= RuntimeBase
  /\ deleted' = deleted \ {e}
  /\ disabled' = disabled \cup {e}
  /\ UNCHANGED <<up, file, sess, issued, jar, req, saving, fwd>>

\* The process restarts, perhaps with other addresses in its configuration.  All
\* requests under way are lost; what was on disk is not.
Reborn ==
  /\ up' \in Routes
  /\ req' = [r \in Requests |-> Idle]
  /\ saving' = {}
  /\ fwd' = [p \in Forwards |-> NoForward]

Restart ==
  /\ Reborn
  /\ UNCHANGED <<disabled, deleted, file, sess, issued, jar>>

\* The process dies in the middle of destroyEntrySessions(e), when only the
\* sessions ts are destroyed.
CutShort(e, ts) ==
  /\ sess' = [t \in Tokens |-> IF t \in ts THEN Gone
                               ELSE IF t \in Revoked(e)
                               THEN [sess[t] EXCEPT !.escaped = "unrevoked"] ELSE sess[t]]
  /\ Reborn

CrashInPasswordSaved(s) ==
  /\ s \in saving
  /\ file' = [file EXCEPT ![s.entry] = s.pw]
  /\ \E ts \in SUBSET Revoked(s.entry) : CutShort(s.entry, ts)
  /\ UNCHANGED <<disabled, deleted, issued, jar>>

CrashInDisable(e) ==
  /\ e # 0
  /\ disabled' = disabled \cup {e}
  /\ \E ts \in SUBSET Revoked(e) : CutShort(e, ts)
  /\ UNCHANGED <<deleted, file, issued, jar>>

CrashInDelete(e) ==
  /\ e # 0
  /\ deleted' = deleted \cup {e}
  /\ \E ts \in SUBSET Revoked(e) : CutShort(e, ts)
  /\ UNCHANGED <<disabled, file, issued, jar>>

Step(r) ==
  \/ BodyRead(r)
  \/ Checked(r)
  \/ ProbeFails(r)
  \/ ProbeSucceeds(r)
  \/ Deliver(r)
  \/ Lose(r)

Serving ==
  \/ \E r \in Logins, b \in Browsers, pw \in Passwords : Login(r, b, pw)
  \/ \E r \in Requests : Abort(r)
  \/ \E r \in Requests : Step(r)
  \/ \E r \in Logouts, b \in Browsers : Logout(r, b)
  \/ \E p \in Forwards, b \in Browsers : Forward(p, b)
  \/ \E p \in Forwards : Send(p)
  \/ \E b \in Browsers : TurnAway(b)
  \/ \E t \in Tokens : Expire(t)
  \/ \E e \in Entries, pw \in Passwords : SetPassword(e, pw)
  \/ \E s \in saving : PasswordSaved(s)
  \/ \E e \in Entries : Enable(e)
  \/ \E e \in Entries : Disable(e)
  \/ \E e \in Entries : Delete(e)
  \/ \E e \in Entries : AddAgain(e)

Dying ==
  \/ Restart
  \/ \E s \in saving : CrashInPasswordSaved(s)
  \/ \E e \in Entries : CrashInDisable(e)
  \/ \E e \in Entries : CrashInDelete(e)

Next == Serving \/ Dying

Spec == Init /\ [][Next]_vars

\* What is under way on the server comes to an end: scrypt returns, probeTcp()
\* has a timeout, and a reply is sent or its connection breaks.
FairSpec == Spec /\ \A r \in Requests : WF_vars(Step(r))

-----------------------------------------------------------------------------
(* Properties                                                              *)

\* The types of the state, and what a request in each phase knows.
TypeOK ==
  /\ up \in Routes
  /\ disabled \subseteq Entries \ {0}
  /\ deleted \subseteq Entries \ {0}
  /\ file \in [Entries -> Passwords \cup {NoPassword}]
  /\ issued \in 0..MaxTokens
  /\ sess \in [Tokens -> Session \cup {Gone}]
  /\ \A t \in Tokens : t > issued => sess[t] = Gone
  /\ jar \in [Browsers -> 0..issued]
  /\ req \in [Requests -> Request \cup {Idle}]
  /\ \A r \in Requests :
       /\ req[r].tok <= issued
       /\ req[r].ok => req[r].phase \in {"check", "probe"} /\ req[r].pw # NoPassword
  /\ saving \subseteq [entry : Entries, pw : Passwords]
  /\ fwd \in [Forwards -> Forwarded \cup {NoForward}]

\* Setting a password, switching an entry off and deleting it revoke the sessions
\* of the entry: a session alive was opened with the password its entry has now
\* and its entry is on, whatever happened in between, except where its login
\* had read the password before the change or the process died revoking.
RevocationReachesSessions ==
  \A t \in Tokens :
    sess[t] # Gone /\ sess[t].escaped = "no" =>
      /\ sess[t].by = Source(sess[t].entry)
      /\ sess[t].entry \notin deleted \cup disabled

\* Whatever restarts have made of the list of entries and whatever is awaited before a
\* request is sent, it goes to the address its session was issued for; and, unless
\* that was changed while it waited, its entry is on and has the password the session
\* was opened with, but for sessions that escaped.
ForwardsToOwnUpstream ==
  [][\A p \in Forwards : Send(p) =>
       LET s == fwd[p].with
       IN  /\ fwd[p].to = s.up
           /\ ~fwd[p].stale =>
                /\ s.entry \notin deleted \cup disabled
                /\ s.escaped = "no" => s.by = Source(s.entry)]_vars

\* lib/index.js:280, README.en.md:142: sessions of an entry that is switched off or
\* deleted are void at once - no request of theirs is sent to it any more.  One that
\* awaits its cookie is.
OffGetsNothing ==
  [][\A p \in Forwards : Send(p) => fwd[p].with.entry \notin deleted \cup disabled]_vars

\* lib/proxy.mjs:296: a new login voids the old token of the same browser, no session
\* is orphaned - a browser that gets another cookie had none, or one that is void.
RotationLeavesNoOrphan ==
  [][\A b \in Browsers :
       jar'[b] \notin {jar[b], NoToken} /\ jar[b] # NoToken => sess[jar[b]] = Gone]_vars

\* A login whose password is being checked is answered, or lost with its
\* connection: the loop over the entries ends although entries are switched on
\* and off and passwords change under it.
LoginAnswered ==
  \A r \in Requests : req[r].phase \in {"check", "probe", "reply"} ~> req[r].phase = "idle"

\* README.en.md:135: on save the old password is invalidated immediately and all its
\* sessions are revoked - unless the process dies, a session alive was opened
\* with the password its entry has now.  A login that is past its check escapes.
PasswordResetRevokes ==
  \A t \in Tokens :
    sess[t] # Gone /\ sess[t].escaped # "unrevoked" => sess[t].by = Source(sess[t].entry)
=============================================================================
