---------------------------- MODULE SessionTable ----------------------------
(***************************************************************************)
(* What the session store of the gate promises, without its file: a table  *)
(* from tokens to sessions in which a token is issued once, a session is   *)
(* renewed only when less than half of its life is left, and a session     *)
(* that is gone stays gone.  A process crash and a restart are not even    *)
(* steps of this table.                                                    *)
(*                                                                         *)
(* The promise has one gap, stated here instead of hidden: while writes    *)
(* fail (degraded) a step may also disturb the table, and then any session *)
(* that was ever issued may be lost or come back - but even then only for  *)
(* the upstream entry it was issued for and with no more life than a fresh *)
(* session.                                                                *)
(***************************************************************************)
EXTENDS Integers

CONSTANTS
  Tokens,   \* the tokens create() can draw
  Entries,  \* the upstream identities a session is bound to
  NoEntry,  \* the binding of a token that was never issued
  TTL       \* life of a fresh session, in clock ticks

VARIABLES
  sess,     \* sess[t]: the session token t stands for, or Gone
  owner,    \* owner[t]: the entry t was issued for, or NoEntry
  now,      \* the clock
  degraded  \* TRUE while the table promises nothing about lost writes

tableVars == <<sess, owner, now, degraded>>

Renew == TTL \div 2

\* A session is an expiry time and the entry it opens; Gone is no session.
Gone    == [exp |-> 0, entry |-> NoEntry]
Session == [exp : Nat, entry : Entries \cup {NoEntry}]
Fresh(e) == [exp |-> now + TTL, entry |-> e]

Init ==
  /\ sess = [t \in Tokens |-> Gone]
  /\ owner = [t \in Tokens |-> NoEntry]
  /\ now = 0
  /\ degraded = FALSE

Issue(t, e) ==
  /\ owner[t] = NoEntry
  /\ owner' = [owner EXCEPT ![t] = e]
  /\ sess' = [sess EXCEPT ![t] = Fresh(e)]
  /\ UNCHANGED now

Extend(t) ==
  /\ sess[t].exp > now
  /\ sess[t].exp - now < Renew
  /\ sess' = [sess EXCEPT ![t].exp = now + TTL]
  /\ UNCHANGED <<owner, now>>

Revoke(gone) ==
  /\ sess' = [t \in Tokens |-> IF t \in gone THEN Gone ELSE sess[t]]
  /\ UNCHANGED <<owner, now>>

\* Time passes and takes the sessions whose life is over with it.
Pass ==
  /\ now' = now + 1
  /\ sess' = [t \in Tokens |-> IF sess[t].exp > now' THEN sess[t] ELSE Gone]
  /\ UNCHANGED owner

Clean ==
  \/ \E t \in Tokens, e \in Entries : Issue(t, e)
  \/ \E t \in Tokens : Extend(t)
  \/ \E gone \in SUBSET Tokens : Revoke(gone)
  \/ Pass

Disturb ==
  /\ degraded \/ degraded'
  /\ \A t \in Tokens : owner[t] # NoEntry => owner'[t] = owner[t]
  /\ \A t \in Tokens : \/ sess'[t] = Gone
                       \/ /\ sess'[t].entry = owner'[t]
                          /\ sess'[t].exp > now
                          /\ sess'[t].exp <= now + TTL
  /\ UNCHANGED now

Next == (Clean /\ degraded' \in BOOLEAN) \/ Disturb

Spec == Init /\ [][Next]_tableVars
=============================================================================
