------------------------------- MODULE Setup -------------------------------
(***************************************************************************)
(* The gate while no enabled entry has a password (lib/proxy.mjs, the      *)
(* branch under !hasPassword), composed with the gate as it is otherwise:  *)
(* a login, a settings operation and a setup form may be under way at the  *)
(* same time.                                                              *)
(*                                                                         *)
(* Every request is answered with a fresh one-time token, in a cookie, and *)
(* the newest one alone is pending.  A form that comes with it is admitted *)
(* at once; its body and the hash of its password are awaited before the   *)
(* password is written, and nothing is looked at again then.               *)
(***************************************************************************)
EXTENDS Gate

CONSTANTS
  Forms,    \* bound: slots for setup pages and forms on their way
  MaxSetup  \* bound: one-time tokens issued in one behaviour

ASSUME SetupAssumption == MaxSetup \in Nat

VARIABLES
  pendingSetup,  \* the pending one-time token, NoToken if none
  setupIssued,   \* number of one-time tokens issued
  setupJar,      \* setupJar[b]: the setup cookie of browser b, NoToken if none
  form,          \* form[f]: the page or form in slot f
  spent          \* history: the newest one-time token has set a password

setupVars == <<pendingSetup, setupIssued, setupJar, form, spent>>
allVars == <<vars, setupVars>>

-----------------------------------------------------------------------------
(* Forms.  Definitions named Faulty... are seeded faults: plausible slips  *)
(* in the definition that follows them, never used by SetupNext, kept to   *)
(* see that each property can fail.                                        *)

SetupTokens == 1..MaxSetup

NoForm == [phase |-> "idle", browser |-> "none", tok |-> NoToken, pw |-> NoPassword,
           opens |-> NoToken]

\* A page on its way to the browser, with token tok; a form of which first the
\* body and then the hash is awaited; and the answer to it, with its session.
Form ==
  [phase : {"page", "form", "reply"}, browser : Browsers,
   tok : SetupTokens \cup {NoToken}, pw : Passwords \cup {NoPassword}, opens : Tokens \cup {NoToken}]

SetupInit ==
  /\ Init
  /\ pendingSetup = NoToken
  /\ setupIssued = 0
  /\ setupJar = [b \in Browsers |-> NoToken]
  /\ form = [f \in Forms |-> NoForm]
  /\ spent = FALSE

\* What entry e had is no longer its password, and no session of it is revoked.
Escaping(e) ==
  [t \in Tokens |-> IF t \in SessionsOf(e) /\ sess[t].escaped = "no"
                    THEN [sess[t] EXCEPT !.escaped = "unrevoked"] ELSE sess[t]]

EscapingLogins(e) ==
  [r \in Requests |-> IF req[r].ok /\ req[r].at = e /\ req[r].escaped = "no"
                      THEN [req[r] EXCEPT !.escaped = "unrevoked"] ELSE req[r]]

Escape(e) ==
  /\ sess' = Escaping(e)
  /\ req' = EscapingLogins(e)
  /\ fwd' = Overtaken(e)

-----------------------------------------------------------------------------
(* Without a password                                                      *)

\* Any request but a form is answered with the setup page, or sent there, and
\* with a new token.
OpenSetup(f, b) ==
  /\ ~HasPassword
  /\ form[f] = NoForm
  /\ setupIssued < MaxSetup
  /\ setupIssued' = setupIssued + 1
  /\ pendingSetup' = setupIssued + 1
  /\ form' = [form EXCEPT ![f] = [NoForm EXCEPT !.phase = "page", !.browser = b,
                                                !.tok = setupIssued + 1]]
  /\ spent' = FALSE
  /\ UNCHANGED <<setupJar, table, sess, issued, jar, req, saving, fwd>>

\* Pages reach the browser in any order.
PageArrives(f) ==
  /\ form[f].phase = "page"
  /\ setupJar' = [setupJar EXCEPT ![form[f].browser] = form[f].tok]
  /\ form' = [form EXCEPT ![f] = NoForm]
  /\ UNCHANGED <<pendingSetup, setupIssued, spent, table, sess, issued, jar, req, saving, fwd>>

\* POST /gate/setup with the pending token.
PostSetup(f, b, pw) ==
  /\ ~HasPassword
  /\ form[f] = NoForm
  /\ pendingSetup # NoToken
  /\ setupJar[b] = pendingSetup
  /\ form' = [form EXCEPT ![f] = [NoForm EXCEPT !.phase = "form", !.browser = b,
                                                !.tok = pendingSetup, !.pw = pw]]
  /\ UNCHANGED <<pendingSetup, setupIssued, setupJar, spent, table, sess, issued, jar, req, saving, fwd>>

\* With another one, or none, it is refused and the pending token is gone.
RefuseSetup(b) ==
  /\ ~HasPassword
  /\ setupJar[b] # pendingSetup
  /\ pendingSetup' = NoToken
  /\ UNCHANGED <<setupIssued, setupJar, form, spent, table, sess, issued, jar, req, saving, fwd>>

\* After 15 minutes the pending token is as good as none.
SetupExpires ==
  /\ pendingSetup # NoToken
  /\ pendingSetup' = NoToken
  /\ UNCHANGED <<setupIssued, setupJar, form, spent, table, sess, issued, jar, req, saving, fwd>>

\* The body breaks off or is not acceptable, the hash cannot be written, an
\* answer or a page gets lost.  A failing write may leave the file empty.
FormEnds(f) ==
  /\ form[f].phase # "idle"
  /\ form' = [form EXCEPT ![f] = NoForm]
  /\ \/ UNCHANGED <<file, sess, req, fwd>>
     \/ /\ form[f].phase = "form"
        /\ file' = [file EXCEPT ![0] = NoPassword]
        /\ Escape(0)
  /\ UNCHANGED <<pendingSetup, setupIssued, setupJar, spent, up, disabled, deleted,
                 issued, jar, saving>>

FaultySpends(f) == UNCHANGED pendingSetup

\* Whatever token is pending is void, even one issued since the form came.
Spends(f) == pendingSetup' = NoToken

\* Body and hash are ready: it becomes the owner's password, whatever was set meanwhile,
\* and a session of the owner is created.
FormSaved(f) ==
  LET q == form[f]
      s == [entry |-> 0, up |-> up[0], by |-> q.pw, escaped |-> "no"]
  IN  /\ q.phase = "form"
      /\ issued < MaxTokens
      /\ issued' = issued + 1
      /\ file' = [file EXCEPT ![0] = q.pw]
      /\ Spends(f)
      /\ sess' = [Escaping(0) EXCEPT ![issued + 1] = s]
      /\ req' = EscapingLogins(0)
      /\ fwd' = Overtaken(0)
      /\ form' = [form EXCEPT ![f] = [NoForm EXCEPT !.phase = "reply", !.browser = q.browser,
                                                    !.opens = issued + 1]]
      /\ spent' = (spent \/ q.tok = setupIssued)
      /\ UNCHANGED <<setupIssued, setupJar, up, disabled, deleted, jar, saving>>

\* The answer sets the gate's cookie and clears the setup cookie.
FormAnswered(f) ==
  LET q == form[f]
  IN  /\ q.phase = "reply"
      /\ jar' = [jar EXCEPT ![q.browser] = q.opens]
      /\ setupJar' = [setupJar EXCEPT ![q.browser] = NoToken]
      /\ form' = [form EXCEPT ![f] = NoForm]
      /\ UNCHANGED <<pendingSetup, setupIssued, spent, table, sess, issued, req, saving, fwd>>

-----------------------------------------------------------------------------
(* How a password is lost                                                  *)

\* The operator deletes the file, as the README advises who forgot a password.
DeletePasswordFile(e) ==
  /\ file[e] # NoPassword
  /\ file' = [file EXCEPT ![e] = NoPassword]
  /\ Escape(e)
  /\ UNCHANGED <<setupVars, up, disabled, deleted, issued, jar, saving>>

\* webpass.password.set cannot write the hash: the file may be left empty, and no
\* session is revoked.  (A hash written in part, which nothing matches, is left
\* out.)
PasswordNotSaved(s) ==
  /\ s \in saving
  /\ saving' = saving \ {s}
  /\ \/ UNCHANGED <<file, sess, req, fwd>>
     \/ /\ file' = [file EXCEPT ![s.entry] = NoPassword]
        /\ Escape(s.entry)
  /\ UNCHANGED <<setupVars, up, disabled, deleted, issued, jar>>

\* A new process knows of no token and no form.
SetupReborn ==
  /\ pendingSetup' = NoToken
  /\ form' = [f \in Forms |-> NoForm]
  /\ UNCHANGED <<setupIssued, setupJar, spent>>

SetupNext ==
  \/ Serving /\ UNCHANGED setupVars
  \/ Dying /\ SetupReborn
  \/ \E f \in Forms, b \in Browsers : OpenSetup(f, b)
  \/ \E f \in Forms : PageArrives(f)
  \/ \E f \in Forms, b \in Browsers, pw \in Passwords : PostSetup(f, b, pw)
  \/ \E b \in Browsers : RefuseSetup(b)
  \/ SetupExpires
  \/ \E f \in Forms : FormSaved(f)
  \/ \E f \in Forms : FormAnswered(f)
  \/ \E f \in Forms : FormEnds(f)
  \/ \E e \in Entries : DeletePasswordFile(e)
  \/ \E s \in saving : PasswordNotSaved(s)

SetupSpec == SetupInit /\ [][SetupNext]_allVars

-----------------------------------------------------------------------------
(* Properties                                                              *)

\* The types of the gate and of the setup; a form knows its password until it is
\* answered, and an answer the session it opens.
SetupTypeOK ==
  /\ TypeOK
  /\ setupIssued \in 0..MaxSetup
  /\ pendingSetup \in 0..setupIssued
  /\ setupJar \in [Browsers -> 0..setupIssued]
  /\ spent \in BOOLEAN
  /\ form \in [Forms -> Form \cup {NoForm}]
  /\ \A f \in Forms :
       /\ form[f].tok <= setupIssued
       /\ form[f].phase = "form" => form[f].pw # NoPassword
       /\ form[f].phase = "reply" => form[f].opens \in 1..issued

\* A form is admitted only with the token of the newest page, and not with one
\* that has set a password before - not even after that password was lost again:
\* neither a page seen by somebody else before, nor a form sent twice, gets in
\* once another has been through.
OnlyNewestUnspent ==
  [][\A f \in Forms :
       form[f].phase # "form" /\ form'[f].phase = "form" =>
         form'[f].tok = setupIssued /\ ~spent]_allVars

\* lib/proxy.mjs:205 and 229: the token is good for one time and void as soon as a
\* password is set - no form sets one with a token that has set one.
TokenSetsOnce ==
  [][\A f \in Forms :
       form[f].phase = "form" /\ form'[f].phase = "reply" =>
         ~(spent /\ form[f].tok = setupIssued)]_allVars
=============================================================================
