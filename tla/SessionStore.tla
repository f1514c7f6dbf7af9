---------------------------- MODULE SessionStore ----------------------------
(***************************************************************************)
(* The session store of the gate (lib/session-store.mjs): a Map of live    *)
(* sessions in memory and, behind it, the append-only file sessions.jsonl  *)
(* from which a restarted process rebuilds the Map.                        *)
(*                                                                         *)
(* Every operation runs to its end without another one in between (the     *)
(* file calls are synchronous), so an operation is one step - except that  *)
(* the loops of destroyEntrySessions and destroyAllExcept do one file call *)
(* per session and the process may die between two of them.                *)
(*                                                                         *)
(* What the world may do: the clock ticks; the process dies, also in the   *)
(* middle of a write; a write fails having put none, a part, or everything *)
(* but the final newline of its line into the file; a read fails at start. *)
(*                                                                         *)
(* A session's creation time and its upstream fingerprint travel with its  *)
(* entry through every operation and are not told apart from it here.      *)
(* The lines an older version wrote (add, remove, remove-many, clear),     *)
(* which _load still reads, are left out: nothing writes them any more.    *)
(***************************************************************************)
EXTENDS Integers, Sequences, FiniteSets, SequencesExt

CONSTANTS
  MaxTokens,  \* bound: tokens issued in one behaviour
  Entries,    \* the upstream identities a session is bound to
  NoEntry,    \* the binding of a token not issued yet
  TTL,        \* SESSION_TTL_MS, in ticks
  MaxTime,    \* bound: the clock stops there
  MaxLines    \* bound: lines in the file between two compactions

ASSUME StoreAssumption ==
  /\ MaxTokens \in Nat \ {0}
  /\ NoEntry \notin Entries
  /\ TTL \in Nat \ {0}
  /\ MaxTime \in Nat
  /\ MaxLines \in Nat

VARIABLES
  live,     \* live[t]: what the Map holds for t, Gone if nothing
  todo,     \* tokens a revocation loop still has to revoke
  file,     \* the lines of sessions.jsonl
  open,     \* TRUE when the last line has no newline at its end
  running,  \* FALSE between a crash and the next start
  exposed,  \* history: writes were lost and no rewrite has made up for them
  now,      \* Date.now(), in ticks
  owner     \* history: the entry each token was issued for

vars == <<live, todo, file, open, running, exposed, now, owner>>

-----------------------------------------------------------------------------
(* Sessions and lines of the file.  Definitions named Faulty... are seeded *)
(* faults: plausible slips in the definition that follows them, never used *)
(* by Next, kept to see that each property can fail.                       *)

Tokens == 1..MaxTokens
Renew  == TTL \div 2    \* SESSION_RENEW_MS

Gone    == [exp |-> 0, entry |-> NoEntry]
Session == [exp : Nat, entry : Entries \cup {NoEntry}]
FaultyFresh(e) == [exp |-> now - TTL, entry |-> e]

\* What create() and a renewal at now give a session of entry e.
Fresh(e) == [exp |-> now + TTL, entry |-> e]

Ops  == {"issue", "revoke", "purge", "garbage"}
Line == [op : Ops, token : Tokens \cup {0}, sess : Session]

IssueLine(t, s) == [op |-> "issue", token |-> t, sess |-> s]
RevokeLine(t)   == [op |-> "revoke", token |-> t, sess |-> Gone]
PurgeLine       == [op |-> "purge", token |-> 0, sess |-> Gone]
Garbage         == [op |-> "garbage", token |-> 0, sess |-> Gone]

-----------------------------------------------------------------------------
(* Reading the file (_load)                                                *)

\* The line sets t, when read at time m.
Grants(ln, t, m) == ln.op = "issue" /\ ln.token = t /\ ln.sess.exp > m

FaultyKills(ln, t) == ln.op = "revoke" /\ ln.token = t

\* The line deletes t.
Kills(ln, t) == ln.op = "purge" \/ (ln.op = "revoke" /\ ln.token = t)

FaultyDecides(f, t, m, i) ==
  /\ Grants(f[i], t, m)
  /\ \A j \in (i + 1)..Len(f) : ~Grants(f[j], t, m)

\* Line i is the last word of file f on token t.
Decides(f, t, m, i) ==
  /\ Grants(f[i], t, m)
  /\ \A j \in (i + 1)..Len(f) : ~Grants(f[j], t, m) /\ ~Kills(f[j], t)

Loaded(f, t, m) ==
  IF \E i \in 1..Len(f) : Decides(f, t, m, i)
  THEN f[CHOOSE i \in 1..Len(f) : Decides(f, t, m, i)].sess
  ELSE Gone

Replay(f, m) == [t \in Tokens |-> Loaded(f, t, m)]

\* The same, as the loop of _load does it, line by line.
ReplayByLine(f, m) ==
  FoldLeft(LAMBDA map, ln :
             [t \in Tokens |-> IF Grants(ln, t, m) THEN ln.sess
                               ELSE IF Kills(ln, t) THEN Gone ELSE map[t]],
           [t \in Tokens |-> Gone], f)

-----------------------------------------------------------------------------
(* Writing the file (_append and _compact)                                 *)

\* No session outlives this time.
Horizon == MaxTime + TTL

\* What reading a Map or a file at time m leaves of session s.
Alive(s, m) == IF s.exp > m THEN s ELSE Gone

\* The file a compaction at time m writes: one line per unexpired session.
Snapshot(map, m) ==
  LET kept == SetToSeq({t \in Tokens : map[t].exp > m})
  IN  [i \in 1..Len(kept) |-> IssueLine(kept[i], map[kept[i]])]

\* A line written behind an unfinished one makes one unreadable line of both.
WithLine(ln) ==
  IF open THEN [file EXCEPT ![Len(file)] = Garbage] ELSE Append(file, ln)

\* A write that stops early: none of the line, a part of it, or all of it but
\* the newline ("cut"), which is still readable as long as nothing follows.
Parts == {"none", "torn", "cut"}
WithPart(ln, part) ==
  CASE part = "none" -> file
    [] part = "torn" -> WithLine(Garbage)
    [] part = "cut"  -> WithLine(ln)

Room == Len(file) < MaxLines

Compacted ==
  /\ file' = Snapshot(live', now)
  /\ open' = FALSE
  /\ exposed' = FALSE

\* _append returns true: the line is written, or else a compaction succeeds.
Appended(ln) ==
  /\ Room
  /\ \/ file' = WithLine(ln) /\ open' = FALSE /\ UNCHANGED exposed
     \/ Compacted

\* _append returns false: the line is not written and neither is the compaction.
NotAppended(ln) ==
  /\ Room
  /\ \E part \in Parts : /\ file' = WithPart(ln, part)
                         /\ open' = (open \/ part # "none")
  /\ exposed' = TRUE

-----------------------------------------------------------------------------
(* Operations                                                              *)

Init ==
  /\ live = [t \in Tokens |-> Gone]
  /\ todo = {}
  /\ file = <<>>
  /\ open = FALSE
  /\ running = TRUE
  /\ exposed = FALSE
  /\ now = 0
  /\ owner = [t \in Tokens |-> NoEntry]

Idle == running /\ todo = {}

\* randomBytes draws a token never drawn before; tokens are numbered in order.
Unissued(t) ==
  /\ owner[t] = NoEntry
  /\ \A s \in 1..(t - 1) : owner[s] # NoEntry

\* create()
Create(t, e) ==
  /\ Idle
  /\ Unissued(t)
  /\ owner' = [owner EXCEPT ![t] = e]
  /\ live' = [live EXCEPT ![t] = Fresh(e)]
  /\ Appended(IssueLine(t, Fresh(e))) \/ NotAppended(IssueLine(t, Fresh(e)))
  /\ UNCHANGED <<todo, running, now>>

\* verify() of a token whose session is over: it is deleted and revoked.
VerifyExpired(t) ==
  /\ Idle
  /\ live[t] # Gone
  /\ live[t].exp <= now
  /\ live' = [live EXCEPT ![t] = Gone]
  /\ Appended(RevokeLine(t)) \/ NotAppended(RevokeLine(t))
  /\ UNCHANGED <<todo, running, now, owner>>

FaultyDueForRenewal(t) == live[t] # Gone /\ live[t].exp - now < Renew

DueForRenewal(t) == live[t].exp > now /\ live[t].exp - now < Renew

FaultyRenewedLine(t) == IssueLine(t, live[t])

\* The line is written from the session after its expiry was moved.
RenewedLine(t) == IssueLine(t, Fresh(live[t].entry))

\* verify() of a session in the second half of its life: it is renewed.
VerifyRenews(t) ==
  /\ Idle
  /\ DueForRenewal(t)
  /\ live' = [live EXCEPT ![t] = Fresh(live[t].entry)]
  /\ Appended(RenewedLine(t)) \/ NotAppended(RenewedLine(t))
  /\ UNCHANGED <<todo, running, now, owner>>

Revoking(t) ==
  /\ live' = [live EXCEPT ![t] = Gone]
  /\ Appended(RevokeLine(t)) \/ NotAppended(RevokeLine(t))

\* destroy(): the token is whatever the browser sent, live or not.
Destroy(t) ==
  /\ Idle
  /\ owner[t] # NoEntry
  /\ Revoking(t)
  /\ UNCHANGED <<todo, running, now, owner>>

\* destroyEntrySessions() takes a snapshot of the Map ...
DestroyEntrySessions(e) ==
  /\ Idle
  /\ todo' = {t \in Tokens : live[t].entry = e}
  /\ UNCHANGED <<live, file, open, running, exposed, now, owner>>

\* ... and so does destroyAllExcept();
DestroyAllExcept(keep) ==
  /\ Idle
  /\ todo' = {t \in Tokens : live[t] # Gone} \ {keep}
  /\ UNCHANGED <<live, file, open, running, exposed, now, owner>>

\* their loops then revoke one session after the other.
RevokeNext(t) ==
  /\ running
  /\ t \in todo
  /\ todo' = todo \ {t}
  /\ Revoking(t)
  /\ UNCHANGED <<running, now, owner>>

\* destroyAll()
DestroyAll ==
  /\ Idle
  /\ live' = [t \in Tokens |-> Gone]
  /\ Appended(PurgeLine) \/ NotAppended(PurgeLine)
  /\ UNCHANGED <<todo, running, now, owner>>

-----------------------------------------------------------------------------
(* The world                                                               *)

Tick ==
  /\ now < MaxTime
  /\ now' = now + 1
  /\ UNCHANGED <<live, todo, file, open, running, exposed, owner>>

Dies ==
  /\ running
  /\ running' = FALSE
  /\ live' = [t \in Tokens |-> Gone]
  /\ todo' = {}
  /\ exposed' = FALSE
  /\ UNCHANGED now

Crash == Dies /\ UNCHANGED <<file, open, owner>>

\* The process dies while it writes ln; "all" is just after the write.
DiesWriting(ln) ==
  /\ Dies
  /\ Room
  /\ \E part \in {"torn", "cut", "all"} :
       /\ file' = IF part = "all" THEN WithLine(ln) ELSE WithPart(ln, part)
       /\ open' = (part # "all")

\* A token that reached neither a browser nor the file was never issued.
CrashInCreate(t, e) ==
  /\ Idle
  /\ Unissued(t)
  /\ DiesWriting(IssueLine(t, Fresh(e)))
  /\ owner' = [owner EXCEPT ![t] = Loaded(file', t, now).entry]

CrashInRenewal(t) ==
  /\ Idle
  /\ DueForRenewal(t)
  /\ DiesWriting(RenewedLine(t))
  /\ UNCHANGED owner

CrashInRevoke(t) ==
  /\ owner[t] # NoEntry
  /\ todo = {} \/ t \in todo
  /\ DiesWriting(RevokeLine(t))
  /\ UNCHANGED owner

CrashInPurge ==
  /\ Idle
  /\ DiesWriting(PurgeLine)
  /\ UNCHANGED owner

\* The constructor: _load, then a compaction whose failure is only logged.
Start ==
  /\ ~running
  /\ running' = TRUE
  /\ live' = Replay(file, now)
  /\ \/ Compacted
     \/ exposed' = open /\ UNCHANGED <<file, open>>
  /\ UNCHANGED <<todo, now, owner>>

\* The file cannot be read: _load gives up silently and leaves it as it is.
StartUnreadable ==
  /\ ~running
  /\ file # <<>>
  /\ running' = TRUE
  /\ exposed' = TRUE
  /\ UNCHANGED <<live, todo, file, open, now, owner>>

Next ==
  \/ \E t \in Tokens, e \in Entries : Create(t, e)
  \/ \E t \in Tokens : VerifyExpired(t)
  \/ \E t \in Tokens : VerifyRenews(t)
  \/ \E t \in Tokens : Destroy(t)
  \/ \E e \in Entries : DestroyEntrySessions(e)
  \/ \E keep \in Tokens : DestroyAllExcept(keep)
  \/ \E t \in Tokens : RevokeNext(t)
  \/ DestroyAll
  \/ Tick
  \/ Crash
  \/ \E t \in Tokens, e \in Entries : CrashInCreate(t, e)
  \/ \E t \in Tokens : CrashInRenewal(t)
  \/ \E t \in Tokens : CrashInRevoke(t)
  \/ CrashInPurge
  \/ Start
  \/ StartUnreadable

Spec == Init /\ [][Next]_vars

-----------------------------------------------------------------------------
(* Properties                                                              *)

\* Every variable stays in its type, and a missing final newline means that
\* there is a last line.
TypeOK ==
  /\ live \in [Tokens -> Session]
  /\ todo \in SUBSET Tokens
  /\ file \in Seq(Line)
  /\ open \in BOOLEAN
  /\ running \in BOOLEAN
  /\ exposed \in BOOLEAN
  /\ now \in Nat
  /\ owner \in [Tokens -> Entries \cup {NoEntry}]
  /\ open => file # <<>>

\* _load's loop gives what Replay says it gives, whatever is in the file:
\* torn lines, renewals behind revocations, purges.
LoadIsReplay ==
  \A m \in now..Horizon : ReplayByLine(file, m) = Replay(file, m)

\* As long as no write was lost, the file is a faithful copy of the Map: read
\* at any later time it gives exactly the sessions the Map still holds then.
\* This is what makes a crash at any point harmless.
Mirrors ==
  running /\ ~exposed =>
    \A t \in Tokens, m \in now..Horizon : Loaded(file, t, m) = Alive(live[t], m)

\* The sessions the store stands for: those of the Map, or, while the process
\* is down, those it will find in the file.
Sessions ==
  IF running THEN [t \in Tokens |-> Alive(live[t], now)] ELSE Replay(file, now)

\* What an issue line says is what was issued: its entry is the token's and its
\* expiry is no later than a session renewed at m would get; and the lines of
\* one token are in the order of their expiry, so that the last one decides.
LinesOK(f, bound, m) ==
  /\ \A i \in 1..Len(f) : f[i].op = "issue" =>
       /\ f[i].token \in Tokens
       /\ bound[f[i].token] # NoEntry
       /\ f[i].sess.entry = bound[f[i].token]
       /\ f[i].sess.exp <= m + TTL
  /\ \A i, j \in 1..Len(f) :
       /\ i < j
       /\ f[i].op = "issue" /\ f[j].op = "issue"
       /\ f[i].token = f[j].token
       => f[i].sess.exp <= f[j].sess.exp

\* A session in the Map opens the entry its token was issued for, and lives no
\* longer than a fresh one.
LiveOK(map, bound, m) ==
  \A t \in Tokens : map[t] # Gone =>
    bound[t] # NoEntry /\ map[t].entry = bound[t] /\ map[t].exp <= m + TTL

\* While the process is down there is no Map; a tail without newline is left
\* behind only by a write that failed or by a start that could not rewrite it.
WorldOK ==
  /\ now <= MaxTime
  /\ ~running => todo = {} /\ ~exposed /\ \A t \in Tokens : live[t] = Gone
  /\ running /\ open => exposed

\* The inductive invariant behind Mirrors: no line of the file and no session in
\* memory says anything that was not issued, in the order it was issued, even
\* after torn writes, lost writes and crashes.
IInv ==
  /\ TypeOK
  /\ LinesOK(file, owner, now)
  /\ LiveOK(live, owner, now)
  /\ WorldOK
  /\ Mirrors

\* A token whose session ended - revoked, logged out, expired - never opens an
\* entry again, across any number of crashes and restarts, unless a write was
\* lost without being made up for.
NoResurrection ==
  [][\A t \in Tokens :
       owner[t] # NoEntry /\ Sessions[t] = Gone => Sessions'[t] = Gone \/ exposed]_vars

\* The store implements the table of SessionTable.
Table == INSTANCE SessionTable WITH sess <- Sessions, degraded <- exposed
ImplementsTable == Table!Spec
=============================================================================
