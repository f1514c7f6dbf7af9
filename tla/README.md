# Verification of dsh-web-pass

TLA+ modules for dsh-web-pass, the password gate in front of DSH Web: one Node process that
authenticates browsers with a session cookie and forwards them to the upstream their
password opens. The reference is the source under `src/lib` and `src/client`; line numbers
in this file and in `PROJECT.json` refer to it.

## 1. The system

### Components

| component | source | state | operations |
|---|---|---|---|
| session store | `lib/session-store.mjs` | Map token -> session; `sessions.jsonl` | create, verify (expire, renew), destroy, destroyEntrySessions, destroyAllExcept, destroyAll, load, compact |
| login limiter | `lib/ratelimit.mjs` | Map client -> hits, lockedUntil, mult, coolSince | lockRemainingMs, recordFailure, settle |
| entry table | `lib/entries.mjs`, `lib/index.js:207-236,344-425` | entryDefs, runtimeRows, entryState; `upstreams.json`, `entries.json` | add, re-add, enable, disable, soft delete, load |
| passwords | `lib/passwords.mjs` | `password`, `password.<i>`, environment | hash, verify, write |
| auth object | `lib/index.js:245-306` | none of its own | verifySession (store + entry + address), verifyAny, clashes |
| settings RPC | `lib/index.js:41-156` | none of its own | status, password.set, entry.set/del/add |
| gate server | `lib/proxy.mjs:164-365` | pendingSetup, requests in flight | setup, login, logout, log viewer, forward |
| WebSocket upgrade | `lib/proxy.mjs:368-411` | open tunnels | upgrade, teardown |
| forwarding | `lib/proxy.mjs:428-558` | bodies being buffered | collectBody, sendRewritten, pass-through |
| header filters | `lib/proxy.mjs:91-162` | none | sanitizeUpstreamSetCookie, sanitizeIngressHeaders, loopbackAuthority |
| DSH cookie provider | `lib/dsh-auth.mjs` | cookie, acquiredAt, pending | get, acquire, invalidate, start |
| access log | `lib/accesslog.mjs` | `access.log[.n]`, `.hmac-key` | log, rotate, view |
| lifecycle | `lib/index.js:192-500` | servers, timers, disposers | apply, dispose |
| settings page | `client/client.js` | status, busy, form fields | poll, add, save, flip, delete, log out |

### How they interact

The gate server asks the auth object about every request's cookie; the auth object asks the
session store, then compares the session's entry and address with the entry table. The
settings RPC (a different server, the owner's own DSH) changes passwords and entries and
destroys sessions through the same auth object while logins are in flight. Everything that
must survive a restart - sessions, flags, added rows, password hashes - is in files written
synchronously; the entry table, the password files and the sessions are tied together only
by the entry's index, plus, for sessions, the upstream's `host:port`.

### What is hard here

* **Interleaving at awaits.** The process has one thread, but a login awaits its body, one
  scrypt per entry and a TCP probe; a password change awaits its hash. Whatever was read
  before an await is stale after it (`proxy.mjs:272-300`, `index.js:255-263`, `54-68`).
* **Files.** `sessions.jsonl` is appended to and rewritten by rename; appends can be torn,
  fail, and be retried by compaction. `entries.json` and `upstreams.json` are overwritten
  in place, one after the other, and a broken one is read as empty.
* **Indices.** Flags, password files and sessions go by index; indices move when the patch
  configuration changes before a restart.
* **Time.** Half-life renewal, lock spans, doubling, an hour of silence.
* **Limits.** The limiter's Map, the 8 MB buffer, the size of a log file.
* **Applied again in the same process.** Servers come up after `apply()` has returned, dispose
  awaits, and a log write or a hash may outlive the plugin (`index.js:438-497`).
* **Answers out of order.** A status is taken at once and answered up to 1.2 seconds later; an
  addition is given up after eight (`index.js:77-93`, `client.js:82-132`).

### What makes each part correct

* Store: file and Map agree whenever the process may die; what ended stays ended.
* Limiter: a lock holds for exactly its span; repeat locks double; only eviction loses one.
* Gate: revocation reaches every session; a request reaches only the upstream its session was
  issued for, whatever it awaits on the way; a login is answered.
* Entry table: one entry per address; a restart changes nothing it should not.
* Setup: a form is let in only with the newest token, and not after that has set a password. (Two forms
  let in with one token before either is hashed both set one: section 4.)
* Cookie provider: a failed fetch costs nothing by itself. (The interval throws the cookie away before it
  asks for another: section 4.)
* Log: lines of calls that do not overlap are in order over the files; only the oldest file is lost; a
  call on its own passes the limit by its own line at most; a key in use stays while it can be read.
* Tunnels and lifecycle: what was disposed does nothing more, and a dispose ends; a revoked
  session is accepted by no application of the plugin.
* Settings page: a password goes to the row that was picked; the page comes to show the table.

## 2. The modules

| module | models |
|---|---|
| `SessionTable` | what the store promises: a table of sessions, with one explicit gap for lost writes |
| `SessionStore` | the store: Map, file as lines, torn and failed writes, crashes, restarts |
| `SessionStoreProofs` | inductive invariant of the store; what `_load` reads; the store implements the table; ended sessions stay ended |
| `RateLimiter`, `MCRateLimiter` | the limiter in the order the login handler uses it |
| `RateLimiterProofs` | a lock is in force as long as it was given and lost to eviction only; a repeated one doubles; the order of the Map |
| `Gate`, `MCGate` | logins, logouts, forwarding and settings operations, interleaved |
| `GateProofs` | inductive invariant of the gate and its three properties, without and with the setup at work; extends `Setup` |
| `Setup`, `MCSetup` | the gate without a password, and how a password is lost; extends `Gate` |
| `EntryTable`, `MCEntryTable` | the table of entries and its two files |
| `EntryTableProofs` | what deduplication makes of a list; inductive invariant of the table and its properties |
| `DshAuth` | the provider of DSH's own cookie: one shared fetch, one timer |
| `DshRestart` | the provider while the DSH behind its entry restarts; extends `DshAuth` |
| `Forwarding`, `MCForwarding` | a browser's requests over days: session, cookie, responses, upgrades; extends `DshAuth` |
| `ForwardingProofs` | inductive invariant of forwarding and its properties |
| `AccessLog` | log() and rotation, line by line and in bytes |
| `HmacKey` | the key of the pseudonyms and its file |
| `AccessLogger`, `MCAccessLog` | the log and the key together |
| `AccessLogProofs` | the types of the log, the order of its lines, what rotation gives up, its limit; the key |
| `Tunnels` | a WebSocket tunnel, from the upgrade to its teardown |
| `Lifecycle`, `MCLifecycle` | the plugin applied and disposed again: servers, timers, sessions; extends `Tunnels` |
| `LifecycleProofs` | inductive invariant of the applications, what dispose leaves, revocation across them |
| `SettingsPage` | the page against the server that answers it |
| `SettingsPageProofs` | inductive invariant of the page, one operation at a time, the row of a password |

`SessionStore` is the store in full. `Gate` uses a store that keeps what it is given, which is
what `SessionTable` says the store is while no write is lost; `Expire` stands for time. `Gate`
takes the table of entries at a fixed size and lets a restart permute its addresses;
`EntryTable` has the table in full, without sessions. `Setup` is all of `Gate` and more: its
next-state relation is `Serving`, `Dying` and the actions of the setup. `Lifecycle` has several
gates, each with its tunnels and its Map, over one file; a login there has a beginning and an end, as it
may outlive its gate.

In every module definitions named `Faulty...` are plausible slips in the definition that
follows them, not part of the specification; with one of them in its place a property of the
run fails.

### SessionStore and the code

`live` is the Map, `file` the lines of `sessions.jsonl`, `open` says that the last line has no
newline. Each operation is one action that ends in `Appended` or `NotAppended`, the two
returns of `_append`: the line is written, or the write fails and `_compact` succeeds; or
both fail, with none, part, or all but the newline of the line in the file. The two loops
that revoke many sessions are a snapshot (`DestroyEntrySessions`, `DestroyAllExcept`) and one
`RevokeNext` per session, as each does its own write. `Crash...` actions are the death of the
process in the middle of a write, `Start` the constructor. `StartUnreadable` is the
swallowed read error of line 44. History: `owner` (what a token was issued for), `exposed` (a
write was lost and no compaction has rewritten the file since; the state in which the comment
at lines 49-51 promises nothing).

### RateLimiter and the code

`rows` and `order` are `failuresByIp`, `inFlight` counts the logins admitted
(`proxy.mjs:263`) whose password is not judged yet. `Wrong` is `recordFailure` with its
eviction: `Dropped` is how many keys its loop deletes, `Evicted` which. `Recent` is the filter of
the hits, a fold. `Settle` is the settling `lockRemainingMs` does on the way. History: `lock`, the
last lock of each client.

### Gate and the code

A login is a record that moves through its awaits: `body` (`req.on('end')`), `check` (one
`verifyPassword` per enabled entry, with the password source read before the await),
`probe` (`probeTcp`), `reply`. `ProbeSucceeds` is lines 297-300 in one step: session created,
the browser's old one destroyed, cookie sent. Replies arrive in any order or never.
`Forward` is a request, or an upgrade, that is admitted (`proxy.mjs:193`, `372`) and awaits the cookie of
its upstream (`488`, `383`); `Send` what follows the await (`504`, `387`), which looks at nothing again.
`SetPassword` is the handler up to the hash, `PasswordSaved` the rest. The three `CrashIn...`
actions are the death of the process when the password file or `entries.json` is written
and only some of the entry's sessions are destroyed. A session carries, as history, the
password that opened it and how it escaped a revocation, if it did: its login was under way
(`login`), or nothing was revoked (`unrevoked`). A request to be sent carries the session it was admitted
with and, as history, whether its entry was changed since (`stale`).

### Setup and the code

`pendingSetup` is the variable of that name, `form[f]` a page or form on its way: `page` (the
setup page with its cookie travels), `form` (the body, then the hash, is awaited), `reply`.
`OpenSetup` is any request answered with a fresh token (`proxy.mjs:252-258`), `PostSetup` and
`RefuseSetup` the two outcomes of the look at the token, `FormSaved` what follows the hash:
file, token, session - nothing is looked at again there. `DeletePasswordFile` is the operator's
way out when a password is forgotten (README.en.md:133), `PasswordNotSaved` a `password.set` whose
write fails and may leave the file empty. History: `spent`, the newest token has set a password. In the
run `setup` two forms with one token both get in, if neither is hashed yet, and both set a password.

### EntryTable and the code

`defs`, `base`, `rows`, `flags` are entryDefs, runtimeBase, runtimeRows, entryState. Entry `i`
of the code is `defs[i + 1]`. The RPC handlers have no await, so an operation is one action;
its writes either all succeed or some fail, each leaving the old file, an empty one
(unparsable is read as empty), or the new one. Dying in an operation is the same as its
later writes failing, followed by `Restart`. `AddAgain` can also leave `entries.json` with the
delete flag lifted and the disabled flag not set yet, as the code writes the file in between.
History: `lost` (a write of this process failed), `moved` (some process had other patch rows or
other files than the one before it left).

### Forwarding, DshAuth and the code

`live` is the session's `expiresAt` on the server, `cookie` what the browser holds and until
when, `req` the requests under way: `waiting` for the DSH cookie, `sent` to the upstream or
the log viewer, `overflow` once `collectBody` has given up buffering at 8 MB. `held`,
`pending` and `timer` are the fields of `DshAuthProvider`, `held` being the time the cookie
was acquired.

`Arrive` is the verification of a request, its renewal, and `get()` up to its await.
`FetchSucceeds` and `FetchFails` are the end of the shared `acquire()`, for everyone who waits
for it; `Timer` the prewarming and the interval (`invalidate`, then `get`). `Answer` is one of
the exits of `proxyForward` and what the browser makes of its `Set-Cookie`: `Delivered` is
`sanitizeUpstreamSetCookie`, which the exit after an overflow does without (lines 441-445);
`Arrived` the replacement of the appended cookie by the upstream's in `writeHead`. `GateRequest` and
`TurnAway` are the verifications whose renewal is handed to no response. Answers arrive in any
order, also after the login of another session, or never (`Abort`, `Restart`).

History: `missed` (the last renewal of a session reached the browser in no response),
`lastUse` and `steady` (when its last answered page was asked for, and whether two of them
were ever half a life apart), `discarded` (nothing acquired since the timer threw the last DSH
cookie away).

`DshRestart` has the requests of one entry and the time its DSH started. What the DSH does with a cookie
from before is external: there it refuses it, which is the case README.en.md:170 speaks of.

### AccessLog, HmacKey and the code

`file[0]` is `access.log`, `file[i]` its history `.i`, each the set of its lines, `bytes[i]` its length. A
line has the number of the call that built it (`accesslog.mjs:150`, before the rotation is awaited) and the
number of lines that had been built when a file was opened for it (151). `rotating[g]` is the variable of
logger `g`. A call of `log()` is a record that moves through its awaits: `stat`, one `shift` per `rename`,
`clean` (the loop of `unlink`), `open` and `write` (the two halves of `appendFile`). `Full` compares the
length before the append, as line 128 does. A write keeps to the file that was opened, whatever it is
renamed to (`Moved`) - or is lost with it (`Gone`). A `stat` of a file that is there may fail (`StatFails`),
a rename fails when there is nothing to rename, or otherwise. `Reload` is a second logger in the same
process, `Die` another process. History, in a call: `marred` (its rotation did not see the file, failed to
rename one, or met another logger's) and `alone`.

In `HmacKey` the key is the text of `.hmac-key`, kept as the sequence of pieces that were appended.
`LoadKey` is the read, `MisreadKey` the swallowed error of it (110-113), `SaveKey` the append, which may
write less than the key, `UseKey` what follows it. `AccessLogger` has both: loggers and deaths are the
same, everything else interleaves.

### Tunnels, Lifecycle and the code

A tunnel waits for the DSH cookie (`cookie`), for the upstream's answer (`asked`), or is `wired`;
`client` is its other socket. The upgrade handler listens to no `close` of the client before the
upstream has answered, so a client that goes away leaves an `orphan`, which is paused for good
(`stuck`) when the upstream sends something. `Lifecycle` gives each application `i` of the plugin its
gate, viewer, timers and Map; the file is shared. `GateUp`, `ViewerUp` and `NotUp` are the ends of
`createGateProxy` and `createLogViewer`, which `apply` does not await. `Dispose` is the effect up to its
await of the viewer's `close`, `DisposeGate` the rest: the gate, if it is up by then, with all its
client sockets. A browser that is connected to the viewer (`View`) stays so for as long as it likes, and is
served by a viewer that is closing: `server.close()` ends no connection that is in use. `LoginBegins` and
`LoginEnds` are a login, or a first setup, before and after its probe or hash, `ChangePassword` and
`PasswordSaved` a `password.set` before and after its hash; neither looks at whether its application is
still there. History: `issued`, `over`, `late` (servers that came up when dispose had looked for them),
`astray` (sessions an application opened or ended when a newer one had read the file).

### SettingsPage and the code

`table` is the server's table, `shown` the page's, `picked` is `entryIdx`, `busy` the state of that
name. A poll is `asked`, then `taken` (`getStatus` reads the table), then shown (`Arrive`). An operation
is `sent`, then `done` or `refused`, then answered; `Answered` enables the buttons, asks for a status
and, for an addition, puts the new row in by itself. `Target` is `effIdx`. `GiveUp` is the timer of
eight seconds, which an answer stops. `Elsewhere` is another page. History: `behind` (rows the page
shows from an answer taken before they came into the table), `gaveUp`.

## 3. Runs

| run | config | states | checks |
|---|---|---|---|
| `store` | `SessionStore.cfg` | 231 k | `TypeOK`, `LoadIsReplay`, `Mirrors`, `NoResurrection`, `ImplementsTable` |
| `limiter` | `RateLimiter.cfg` | 1.5 M | `TypeOK`, `LockHonoured`, `RepeatDoubles`, `LockLostOnlyWhenFull` |
| `gate` | `Gate.cfg` | 430 k | `TypeOK`, `RevocationReachesSessions`, `ForwardsToOwnUpstream`, `LoginAnswered` |
| `gate_reset` | `GateReset.cfg` | | `PasswordResetRevokes`: violated |
| `setup` | `Setup.cfg` | 1.8 M | `SetupTypeOK`, `RevocationReachesSessions`, `OnlyNewestUnspent` |
| `entries` | `EntryTable.cfg` | 965 k | `TypeOK`, `NoTwoDoors`, `RowBehindEveryEntry`, `RestartKeepsTable`, `UnmovedAsShown` |
| `entries_survive` | `EntriesSurvive.cfg` | | `AddedSurvive`: violated |
| `forwarding` | `Forwarding.cfg` | 2.9 M | `TypeOK`, `SessionSlides`, `CookieKeepsUp`, `BareOnlyAfterDiscard` |
| `forwarding_daily` | `ForwardingDaily.cfg` | | `DailyUseStaysSignedIn`: violated |
| `access_log` | `AccessLog.cfg` | 1.4 M | `TypeOK`, `KeyTypeOK`, `Chronological`, `OnlyOldestLost`, `AloneWithinCap`, `KeyStays` |
| `lifecycle` | `Lifecycle.cfg` | 885 k | `LifecycleTypeOK`, `DisposedIsSilent`, `RevokedEverywhere`, `DisposeEnds` |
| `settings_page` | `SettingsPage.cfg` | 718 k | `TypeOK`, `OneAtATime`, `SavesForPicked`, `Settles` |

A run that is violated checks one claim of a document or a comment; section 4 says what it shows.
What each property says is in the comment above it.

### Bounds

* `store`: two tokens of two entries, a life of four ticks (renewal below two) in five ticks
  of time, three lines between compactions. Enough for issue, renewal and revocation of one
  token, for a torn line in front of each of them, for expiry and for a second token whose
  lines must be left alone; the proofs remove the bound.
* `limiter`: four clients, a Map of three rows (so that a failure of any of them in a full Map
  evicts, and the lock at stake is that of the oldest row or of a later one), two failures to lock, locks
  of two, four and six ticks (the limit cuts the third off), an idle span of three, two logins of a client
  at a time, eight ticks: time for a third lock, for one within the idle span after another and one
  later, and for failures between them.
* `gate`: one browser; one login, one logout and one request to be forwarded under way; two entries
  (owner and one more), two passwords, one session at a time, one password change at a time, two
  addresses that a restart may swap. Each property relates one session to one settings operation; a
  second session, and the one that a login destroys, are in `setup`. `gate_reset`: the same without
  logouts and forwarding.
* `setup`: the owner's entry alone (an added entry cannot be set up in the browser), two pages or forms
  on their way, so that two forms may be hashing at once, two one-time tokens, so that a page may be
  overtaken and a password be lost and set up again, one login, one logout, one password change, two
  sessions.
* `entries`: addresses `a`, `b`, `c` and the owner's; three patch configurations, among them one
  with the owner's own address; two added rows, so that one may be shadowed by a patch
  row and the other move up.
* `forwarding`: two logins and two requests of one browser, so that an answer of the old session can
  arrive after the new login; a life of four ticks (half days) with renewal below two, a DSH
  cookie of two ticks, five ticks in all: time for a renewal, for the life it replaces to end,
  and for the interval to fire twice. A request is over within one tick (`Tick` waits for it):
  a fetch is cut off after ten seconds, an upstream after two idle minutes; a download that
  takes longer has sent its head. The proofs remove the other bounds.
* `forwarding_daily`: one login, one request at a time, eight ticks: two lives.
* `access_log`: three calls, so that two may overlap one that rotates; lines of half the limit or all of
  it, so that a file is full after one line or after two; any files from before; two files kept, so
  that one rotation shifts twice and the oldest is overwritten, and a third from a larger `keepFiles`; two
  loggers, in one process or two. For the key three loggers: two may look for it at once, and another
  reads what they left. As the log and the key leave each other alone (`LogIsApart`), `Focus` looks at
  them one at a time: calls of `log()` while no key is looked for.
* `lifecycle`: three applications, one session: an application may open or end it late, while another has
  read the file before and a third reads it after. One tunnel (tunnels do not know of each other), one
  entry with DSH's cookie and one provider more. Tunnels and the readers of the viewer are looked at with
  two applications (`Focus`): what one does to the next, and the reverse.
* `settings_page`: two rows besides the owner's, two polls under way (one to overtake the other), two
  operations (a second is possible only after an addition was given up), three changes here or by
  another page, one lost request. Slots are taken first-free, which loses nothing as they are alike.

Deadlock is not checked: the clocks stop at their bound, token supplies end, and then a model
may really stop. The code never deadlocks by waiting on itself; what must go on is stated as
liveness.

### Fairness

`LoginAnswered` assumes weak fairness of each request's own next step (`Step(r)`): scrypt
returns, `probeTcp` has a timer, a reply is written or its connection breaks. It is not
assumed of the body, which a client may hold back (the property starts at the check), of any
settings operation, nor of time.

`DisposeEnds` assumes only that an await that is over is gone on from (`DisposeGate`). It does not assume
that whoever is connected to the log viewer leaves: the viewer's page reloads itself every five seconds,
and a connection in use is not ended by `server.close()`. The property says so itself: a dispose ends, or
somebody is connected to the viewer from some time on for good. Nothing is assumed of tunnels either:
that they do not hold the dispose up is the point. The host awaits a dispose before it applies the plugin
again.

`Settles` assumes that the interval goes on, that the server answers a status (its probes have a
timeout) and an operation (a handler waits for nothing but a hash), or that the request fails. The
fairness of operations is strong only because the model has a bounded number of polls: the `load()`
that an answer begins may find all slots in use again and again, which the code knows nothing of. The
number of changes is bounded, so "when nothing changes any more" is reached.

## 4. What the code does otherwise than its documents say

### Shown by a run

1. `gate_reset`: a login that passed its check before a password change and waits for its probe
   creates its session after the change destroyed all sessions; README.en.md:135 says all
   sessions are revoked.
2. `entries_survive`: `runtimeRows` is indexed by `idx - runtimeBase` (`index.js:354`, `423`), but the
   loading of the table skips a row whose address a patch row has taken (`entries.mjs:127`), so that entries
   and rows behind it are one apart. Adding a deleted entry again then writes its address over the row of
   another, which is gone with the next start; README.en.md:141 says added rows survive a restart.
3. `forwarding_daily`: a renewal appended to the response (`proxy.mjs:88`) is replaced when
   `writeHead` (`proxy.mjs:545`) is given an upstream's `Set-Cookie`, and a renewal that falls to an
   upgrade or to the gate's own endpoints goes into no response. The server does not renew
   again for a day, in which the browser's cookie runs out; README.en.md:27 says daily users
   never get kicked.

### Claims that fail, beside the runs

Each is a definition among the properties of its module, and TLC finds it violated with the config named:
`tlc -config <config> <module>`.

| claim | of | module | config |
|---|---|---|---|
| `MultiplierSurvives` | README.en.md:51, `ratelimit.mjs:4` | `RateLimiter` | `RateLimiterResets.cfg` |
| `OffGetsNothing` | `index.js:280`, README.en.md:142 | `MCGate` | `GateOff.cfg` |
| `RotationLeavesNoOrphan` | `proxy.mjs:296`, README.en.md:56 | `MCGate` | `GateOrphans.cfg` |
| `TokenSetsOnce` | `proxy.mjs:205`, `229` | `MCSetup` | `SetupOnce.cfg` |
| `DeletedStaysHidden` | `index.js:421` | `MCEntryTable` | `EntriesDeleted.cfg` |
| `NewWithoutPassword` | README.en.md:141 | `MCEntryTable` | `EntriesPassword.cfg` |
| `NextRequestFetches` | README.en.md:170 | `DshRestart` | `DshRestart.cfg` |
| `OldValueKept` | `dsh-auth.mjs:42` | `DshRestart` | `DshOldValue.cfg` |
| `HardCap` | `accesslog.mjs:98`, README.en.md:195 | `AccessLog` | `AccessLogClaim.cfg` |
| `KeyReused` | `accesslog.mjs:107`, README.en.md:196 | `HmacKey` | `HmacKeyClaim.cfg` |
| `RevokedAtOnce` | README.en.md:135 | `Lifecycle` | `LifecycleClaim.cfg` |
| `ServersStop` | `index.js:492` | `Lifecycle` | `LifecycleServers.cfg` |

* The limiter's multiplier goes back to 1 an hour after the last lock ended, also in the middle
  of further failures (`ratelimit.mjs:32-35`); the documents say an hour without failures.
* A request, or an upgrade, that awaits DSH's cookie is sent to an entry that was switched off or
  deleted meanwhile (`proxy.mjs:488-504`, `383-387`).
* Two logins of one browser under way at once each get a session; the one whose cookie is replaced
  stays valid, known to no cookie.
* Two setup forms with one token that both arrive before either is hashed both set a password
  (`proxy.mjs:208`, `229`).
* The `deleted` mark of a row is read back and never looked at (`index.js:222`): when a patch row before
  it is removed, a deleted entry is visible again, and a new one inherits the password file of its index.
* A cookie that DSH refuses after it has restarted is sent until the interval comes round, up to six
  hours: nothing looks at the status of DSH's answer (`dsh-auth.mjs:33`, `proxy.mjs:504-558`). Whether DSH
  does refuse it is not in this repository; the model takes README.en.md:170 at its word.
* The interval throws the cookie away before it asks for another (`dsh-auth.mjs:79`); if that fails, there is
  none, although the message says the old value is kept.
* The size of a log file is compared before the append (`accesslog.mjs:128`, `151`). A call on its own passes the
  limit by its own line (`AloneWithinCap`); calls that overlap all append, so that no size is a hard limit.
* An error of reading `.hmac-key` is taken for a missing key (`accesslog.mjs:110-113`): another is appended, and
  from the next start on the whole text is the key.
* A `password.set` that is hashing when the plugin is disposed and applied again ends the sessions of the
  Map that is gone (`index.js:66-67`), and a login that is hashing then opens its session there; the new
  application accepts what the file said before.
* A server that comes up after a dispose has looked for it is closed by nobody (`index.js:487-491`).

### Named exceptions

Where a claim fails, the passing property says what holds instead, and a history variable says where it
does not: what it covers is excluded from the property, not caught by it.

| history | excludes | from |
|---|---|---|
| `exposed` | what follows a write that was lost, until the next compaction | `Mirrors`, `NoResurrection` |
| `escaped` | a session opened by a login that a revocation overtook (`login`); one that nothing revoked, as the process died in the loop, a second form set a password, or the file was lost (`unrevoked`) | `RevocationReachesSessions` |
| `stale` | a request whose entry changed while it waited | `ForwardsToOwnUpstream` |
| `lost`, `moved` | a write of this process that failed; a start with other patch rows or files | `RestartKeepsTable`, `UnmovedAsShown` |
| `missed` | a renewal that reached the browser in no response | `CookieKeepsUp` |
| `discarded` | the time after the interval threw the cookie away | `BareOnlyAfterDiscard` |
| `marred` | a rotation that did not see the file, failed to rename one, or met another's | `OnlyOldestLost`, `AloneWithinCap` |
| `misread` (a state of the logger) | a logger that failed to read the key | `KeyStays` |
| `late` | a server that came up when dispose had looked for it | `DisposedIsSilent`, `RevokedEverywhere` |
| `astray` | a session opened or ended by an application when a newer one had read the file | `RevokedEverywhere` |
| `behind` | a row that the page shows from an answer taken before it was there | `SavesForPicked` |
| `gaveUp` | the time after an addition was given up | `OneAtATime` |

Seen while modelling, and left open by the properties:

* A line cut short by a failed write, whose compaction failed as well, swallows the next line. That
  one's append returns true and nothing is logged, although README.en.md:65 says a failure is
  observable. (`exposed` stays set.)
* Deleting the owner's password file does not reopen the setup while another enabled entry has a
  password; README.en.md:133 and 135 say it does. A write of a password that fails may leave the
  file empty, which does reopen it, with no session revoked.
* When a poll is shown that was taken before the picked row was there, a save goes to the row that
  the list falls back to (`client.js:96-102`). A late answer of an addition that was given up clears the
  form that was filled in again and enables the buttons of what is under way (`client.js:116-132`).
* Dispose waits for the readers of the log viewer while the gate serves on, without settings and timers.

## 5. Proofs

Every theorem is proved from the named assumptions on the constants alone, for every value of the
constants that meets them. What induction there is goes through the well-foundedness of the naturals,
with a set of numbers for what is to be shown (`NatSetInduction`).

`SessionStoreProofs` proves, from `StoreAssumption` alone (the sets
and numbers have their types, the life is positive), for every number of tokens, entries and
lines and every horizon:

* `Invariant`: `Spec => []IInv`; `TypeCorrect` and `FileMirrorsMap`: `[]TypeOK`, `[]Mirrors`.
* `LoopReadsLastWord`: `Spec => []LoadIsReplay`. `Replay` says of each token what the last line that
  decides says; `_load` is a loop. The lemma `LoopByOne` says what one more line adds, and
  `LoopIsReplay` goes by the length of the file.
* `EndedStaysEnded`: `Spec => NoResurrection`.
* `StoreImplementsTable`: `Spec => ImplementsTable`.

`Mirrors` alone is not inductive. A renewal appends a second issue line for the same token, and
`_load` takes the last unexpired one: read at a later time the earlier line must be expired
whenever the later one is. That is the order of expiries in `LinesOK`, which in turn needs
every line's expiry bounded by `now + TTL`. While writes are lost `Mirrors` says nothing, yet
the table still demands that whatever comes back belongs to the token's entry: hence `owner`
in `LinesOK` and `LiveOK`. `WorldOK` connects `open`, `running` and `exposed`.

The other proofs go through one lemma per way a file changes (a line appended, a line glued to an
unfinished one, a snapshot) saying what `Loaded` gives afterwards, then one step per action.
The refinement maps the store to `Sessions`, the unexpired part of the Map, or of the file
while the process is down: a crash and a start are stutters of the table.

`ForwardingProofs` proves from `ForwardingAssumption` and `DshAuthAssumption`, for every number of
logins, requests and ticks, `Invariant`, the four properties of the run `forwarding`
(`TypeCorrect`, `InUseLives`, `CookieFollows`, `FailureCostsNothing`), and
`NothingElseWritesOver`: only a response that outgrew the buffer puts an upstream's value in the
place of the gate's cookie. `SessionSlides` is not inductive: it speaks of the last answered page, and
the answer may come after others have renewed the session. `HalfALife` says that every request
under way left its session with half a life, so that its answer may become the last use at
any time. `CookieKeepsUp` needs `Timely`: an answer carries a whole life from now, which no
session exceeds, so a late answer never shortens the cookie below its session.
`HeldUntilDiscarded` ties the history variable of `BareOnlyAfterDiscard` to the cookie held.

`GateProofs` proves from `GateAssumption`, for every number of browsers, requests, entries, passwords
and sessions, `Invariant`, `TypeCorrect`, `RevocationIsComplete` and `NoOtherUpstream`. `RevocationReachesSessions` speaks of
sessions that are there, but a login that passed its check creates its own later, at the end of its
probe. Hence `InTime`: a login that has read the right password, and was not marked by a revocation of
its entry since, has the password its entry still has, and the entry is on. Every step concerns one
entry at most, and the lemma `Kept` says once what that leaves of the invariant: a step that changes
nothing but one entry, and marks or ends what is under way for it. The entry a login tries next is the
least that is on; that there is one is well-foundedness of the naturals. `ForwardsToOwnUpstream` needs the
like for a request that waits (`Admitted`): it is to go to the address of the session it came with, and
unless something overtook it, its entry is on and has the password that session was opened with.

The second part of `GateProofs` proves from `SetupAssumption` as well that the same holds with the setup at work
(`SetupRevokesToo`), since `Serving` and `Dying` are steps of the gate and the rest goes through `Kept`
again, and that a form is let in with the newest, unspent token only (`OneTimeToken`). The invariant
adds `FromScratch`, a form under way means that the owner's password is not from the environment, so
that the one it saves is the one in force; and `PendingIsFresh`, for a token that was replaced or used.

`LifecycleProofs` proves from `TunnelAssumption` and `LifecycleAssumption`, for every number of
applications, tunnels, sessions and providers, `LifecycleTypeCorrect`, `SilentAfterDispose` and
`RevokedForAll`. The invariant has four parts beside the types and `DisposedIsSilent`. `InTurn`: what is
followed by another application was disposed. `Ordered`: a gate that is not up has no tunnels, a closed
one was disposed, a viewer that is up when its application is not came up late, timers stop first.
`Fresh`: a session is opened once, by one login. `InStep`: a gate that came up in time belongs to an
application that is not disposed; what the file has of sessions that are `over` is `astray`; and the Map of
the newest application is what the file replays to, but for those `astray`. `RevokedEverywhere` then
follows from the newest being the only one whose gate is up.

`AccessLogProofs` proves from `AccessLogAssumption`, for every number of calls, loggers and files and
every limit, `TypeCorrect`, `InOrder`, `NothingElseLost` and `WithinCapAlone`. `Chronological` is about lines
in files; a line whose file was opened and then renamed is written later, to the file's new name.
`Sorted` counts it in where it will be (`Has`), and compares when a line was built with when a file was
opened for another one: opening a file puts the youngest of the latter into the youngest file, and a
rename takes a whole number to the next. `Room` is behind `NothingElseLost`: two rotations at once are both
marked as interfered with, and one that is not finds nothing at the number it renames to.
`WithinCapAlone` needs two facts (`Undisturbed`): a logger marked as rotating is (`Busy`), so that a call
without company never goes on without a look at the size; and a call that began alone still is, and what it
then finds in access.log when it opens it is less than the limit in bytes, unless it is marked as marred
(`Alone`, `Fits`). `KeyIsForGood` is proved of `HmacKey` first
(`SettledStays`); a step of `AccessLogger` is one of the key or leaves it alone, and one of the log or leaves
that alone (`LogIsApart`), so that what is proved of either holds of both together.

`RateLimiterProofs` proves from `LimiterAssumption`, for every number of clients and of logins under
judgement, every limit and every size of the Map, `LockInForce` and `RepeatsDouble`: a lock is twice as long
as the last one or has the base length, and the latter only a while after it, or if there was none. The lock of a
client is history, its row is the code's: `Agrees` lists the four ways they go together - there was no
lock; it is in force; it is over and `settle()` has seen it; it is forgotten - and says in the second
and third that the multiplier is the one that doubles it. `settle()` moves from one to the next, a
failure of an unlocked row gives the lock the multiplier stands for, and an eviction takes both.

`TypeCorrect` and `LostOnlyToEviction` of the limiter are about the order of its Map: that no key is in
it twice, that it never outgrows its limit, and that a client it does not list has nothing against it.
Behind them are what `RemoveFirst` leaves of a sequence without repetitions (`RemoveFirstFields`), what
dropping the first keys leaves (`SparedFields`), and, by induction over the hits, that `Recent` keeps
numbers only (`RecentTypes`).

`EntryTableProofs` proves from `EntryTableAssumption` - the patch configurations are sequences of
addresses of bounded length, in any number - all five properties of the run `entries`:
`TypeCorrect`, `OneDoorEach`, `EveryEntryHasRow`, `SameTableAfterRestart` and `ShownAsIs`. The table of a
start is the deduplication of a list, a fold; `DedupedFields`, by induction over the list, says that it
has no address twice, that the beginning of the list stays as it is as far as it has none twice, and
that nothing is moved unless something is dropped. `RebuiltFields` says it of the patch rows followed by
the added ones. The invariant adds to the types and `IsInjective(defs)`: `FromConfig`, the table begins with the
configuration; `InOrder`, there are no more entries than rows, and the same order where there are as
many; `FilesAgree`; and `Unmoved`, which ties deletion marks, flags and password files together while
nothing moved. Each operation has a lemma, and those that write go through one on what the writes leave
(`SavesFields`).

`SettingsPageProofs` proves from `SettingsAssumption`, for every number of rows, polls, operations,
changes and lost requests, `TypeCorrect`, `OnlyOneUnderWay` and `PasswordForPicked`. `OneAtATime` is
inductive with the buttons (`Alone`: while something is under way and no addition was given up, they are
disabled), with timers only for what is under way, and with every operation knowing its row.
`SavesForPicked` is about one step; it needs `ShownAccounted`, a row the page lacks came to the table after the
page's answer was taken, and for that the same of every answer on its way (`PollsAccounted`).

Only model-checked: liveness (`LoginAnswered`, `DisposeEnds`, `Settles`), as fairness and ENABLED are
out of the prover's reach; `KeyTypeOK`; and the claims of section 4 that fail. `ReplayByLine`, `Deduped` and
`Recent` are folds of the community modules; about a definition that is declared RECURSIVE nothing could
be proved.

## 6. Plan

Done, in the order of importance: the store and its proofs; the limiter; the gate; the entry
table; the DSH cookie provider, forwarding and their proofs; setup; the access log; tunnels and the
lifecycle; the settings page; the proofs of the last.

Every invariant and action property of a passing run but `KeyTypeOK` is stated by a theorem. Left: `Gate` against the store as `SessionTable` promises it, as a refinement.

## 7. Not modelled

* Hashing, the strength rule, HTML pages, wording, paths, the choice of a LAN address and the log
  viewer's rendering keep no state or are pure formatting.
* The filters of request headers (`sanitizeIngressHeaders`, `loopbackAuthority`) and the rewriting of
  bodies: functions of one request, better tested than checked.
* The lines of the older vocabulary of `sessions.jsonl` (`add`, `remove`, `remove-many`, `clear`;
  `session-store.mjs:29-40`): `_load` still reads them, nothing writes them any more, and the compaction at
  its end leaves none.
* Entries added while a login is under way: `Gate` has a table of fixed size, which `EntryTable` has not.
* Two names of one machine: `NoTwoDoors` compares addresses as text, as the code does.
* Labels, the dsh and clientHostTrust switches, `enabled: false` in the configuration and
  `normalizeUpstreamInput`: they travel with a row.
* A line of the access log cut short by a death of the process; `sessions.jsonl` compacted by an
  application of the plugin and by the one before it at the same time.
* On the settings page, logging out (the page is another one afterwards), forms that are not
  acceptable, and the time before the first status.
* The limit of 512 connections, which is Node's.
