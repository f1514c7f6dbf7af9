----------------------------- MODULE EntryTable -----------------------------
(***************************************************************************)
(* The table of upstream entries (lib/entries.mjs and its use in           *)
(* lib/index.js): entry 0 is the owner's, then come the rows of the patch  *)
(* configuration, then the rows added in the settings page.  Everything    *)
(* the gate knows of an entry - switched off, deleted, its password file,  *)
(* its sessions - goes by its index.                                       *)
(*                                                                         *)
(* Two files stand behind the table: upstreams.json with the added rows    *)
(* and entries.json with the flags.  Both are overwritten in place: a      *)
(* write may fail and leave the file as it was, or stop half way, and a    *)
(* file that does not parse is read as an empty one.  A process that dies  *)
(* in an operation is one whose later writes have failed.                  *)
(*                                                                         *)
(* Labels, the dsh and clientHostTrust switches and enabled:false in the   *)
(* configuration travel with a row and are left out.                       *)
(***************************************************************************)
EXTENDS Integers, Sequences, FiniteSets, SequencesExt

CONSTANTS
  Addresses,  \* host:port of upstreams
  Owner,      \* the address of entry 0
  Patches,    \* what the upstreams of cordis.patch.yml may be at a start
  MaxRows,    \* bound: rows added in the settings page
  PasswordIndices,  \* bound: the indices for which a password is set
  WritesFail  \* FALSE leaves out failing writes

MaxPatch == CHOOSE n \in {Len(p) : p \in Patches} : \A p \in Patches : Len(p) <= n
Indices  == 0..(MaxPatch + MaxRows)

ASSUME EntryTableAssumption ==
  /\ Owner \in Addresses
  /\ PasswordIndices \subseteq Indices
  /\ Patches \subseteq Seq(Addresses)
  /\ \E p \in Patches : \A q \in Patches : Len(q) <= Len(p)
  /\ MaxRows \in Nat
  /\ WritesFail \in BOOLEAN

VARIABLES
  config,     \* the patch rows this process was started with
  defs,       \* entryDefs: defs[i + 1] is the address of entry i
  base,       \* runtimeBase: the index of the first row that was added
  rows,       \* runtimeRows
  flags,      \* entryState
  diskRows,   \* upstreams.json
  diskFlags,  \* entries.json
  lost,       \* history: this process had a write that failed
  moved,      \* history: a process had other patch rows or other files than the last
  pw,         \* the indices i for which there is a file password.<i>
  added       \* the entry the last step added, 0 if none

vars == <<config, defs, base, rows, flags, diskRows, diskFlags, lost, moved, pw, added>>

-----------------------------------------------------------------------------
(* The table.  Definitions named Faulty... are seeded faults: plausible    *)
(* slips in the definition that follows them, never used by Next, kept to  *)
(* see that each property can fail.                                        *)

Row     == [addr : Addresses, deleted : BOOLEAN]
Flags   == [disabled : SUBSET Indices, deleted : SUBSET Indices]
NoFlags == [disabled |-> {}, deleted |-> {}]

Known(i)   == i \in 0..(Len(defs) - 1)
Visible(i) == Known(i) /\ i \notin flags.deleted
At(i)      == defs[i + 1]

\* The first occurrence of each address counts.
Deduped(s) == FoldLeft(LAMBDA out, a : IF Contains(out, a) THEN out ELSE Append(out, a), <<>>, s)

FaultyResolved(patch) == Deduped(patch)

\* resolveEntries()
Resolved(patch) == Deduped(<<Owner>> \o patch)

AddressesOf(rs) == [k \in 1..Len(rs) |-> rs[k].addr]

FaultyRebuilt(patch, rs) == Resolved(patch) \o AddressesOf(rs)

FaultyRebuiltVisible(patch, rs) ==
  Deduped(Resolved(patch) \o AddressesOf(SelectSeq(rs, LAMBDA r : ~r.deleted)))

\* appendRuntimeEntries(): a row whose address is taken is skipped, and the rows
\* behind it move up.
Rebuilt(patch, rs) == Deduped(Resolved(patch) \o AddressesOf(rs))

-----------------------------------------------------------------------------
(* Writing the files                                                       *)

\* An operation that writes upstreams.json (r) or entries.json (f); the flags
\* it writes on the way are in between.
SavesAll(r, f) ==
  /\ diskRows' = IF r THEN rows' ELSE diskRows
  /\ diskFlags' = IF f THEN flags' ELSE diskFlags
  /\ UNCHANGED lost

SavesFail(r, f, between) ==
  /\ WritesFail
  /\ diskRows' \in IF r THEN {rows', diskRows, <<>>} ELSE {diskRows}
  /\ diskFlags' \in IF f THEN {flags', diskFlags, NoFlags} \cup between ELSE {diskFlags}
  /\ lost' = TRUE

Saves(r, f) == SavesAll(r, f) \/ SavesFail(r, f, {})

-----------------------------------------------------------------------------
(* Operations                                                              *)

Started(patch, rs) ==
  /\ config = patch
  /\ defs = Rebuilt(patch, rs)
  /\ base = Len(Resolved(patch))

Init ==
  /\ \E patch \in Patches : Started(patch, <<>>)
  /\ rows = <<>> /\ diskRows = <<>>
  /\ flags = NoFlags /\ diskFlags = NoFlags
  /\ lost = FALSE /\ moved = FALSE
  /\ pw = {}
  /\ added = 0

FaultyAddNew(a) ==
  /\ ~Contains(defs, a)
  /\ Len(rows) < MaxRows
  /\ defs' = Append(defs, a)
  /\ flags' = [flags EXCEPT !.disabled = @ \cup {Len(defs)}]
  /\ added' = Len(defs)
  /\ Saves(FALSE, TRUE)
  /\ UNCHANGED <<config, base, rows, moved, pw>>

\* webpass.entry.add of an address the table does not have: a new row and a new
\* entry, switched off.
AddNew(a) ==
  /\ ~Contains(defs, a)
  /\ Len(rows) < MaxRows
  /\ rows' = Append(rows, [addr |-> a, deleted |-> FALSE])
  /\ defs' = Append(defs, a)
  /\ flags' = [flags EXCEPT !.disabled = @ \cup {Len(defs)}]
  /\ added' = Len(defs)
  /\ Saves(TRUE, TRUE)
  /\ UNCHANGED <<config, base, moved, pw>>

\* webpass.entry.add of the address of a deleted entry behind the patch rows: the
\* row at the same distance from base becomes its row again.
AddAgain(i) ==
  LET k       == i - base + 1
      visible == [flags EXCEPT !.deleted = @ \ {i}]
  IN  /\ Known(i) /\ ~Visible(i)
      /\ i >= base /\ k <= Len(rows)
      /\ rows' = [rows EXCEPT ![k] = [addr |-> At(i), deleted |-> FALSE]]
      /\ flags' = [visible EXCEPT !.disabled = @ \cup {i}]
      /\ SavesAll(TRUE, TRUE) \/ SavesFail(TRUE, TRUE, {visible})
      /\ added' = 0
      /\ UNCHANGED <<config, defs, base, moved, pw>>

\* webpass.entry.set
SetEnabled(i, en) ==
  /\ Known(i) /\ i > 0
  /\ flags' = [flags EXCEPT !.disabled = IF en THEN @ \ {i} ELSE @ \cup {i}]
  /\ Saves(FALSE, TRUE)
  /\ added' = 0
  /\ UNCHANGED <<config, defs, base, rows, moved, pw>>

FaultyDelete(i) ==
  /\ Known(i) /\ i > 0
  /\ flags' = [flags EXCEPT !.deleted = @ \cup {i}]
  /\ rows' = IF i >= base /\ i - base < Len(rows)
             THEN [rows EXCEPT ![i - base + 1].deleted = TRUE] ELSE rows
  /\ Saves(FALSE, TRUE)
  /\ added' = 0
  /\ UNCHANGED <<config, defs, base, moved, pw>>

\* webpass.entry.del: the flag, and onEntryDeleted() marks a row.
Delete(i) ==
  LET hasRow == i >= base /\ i - base < Len(rows)
  IN  /\ Known(i) /\ i > 0
      /\ flags' = [flags EXCEPT !.deleted = @ \cup {i}]
      /\ rows' = IF hasRow THEN [rows EXCEPT ![i - base + 1].deleted = TRUE] ELSE rows
      /\ Saves(hasRow, TRUE)
      /\ added' = 0
      /\ UNCHANGED <<config, defs, base, moved, pw>>

\* webpass.password.set
SetPassword(i) ==
  /\ Visible(i) /\ i \in PasswordIndices
  /\ pw' = pw \cup {i}
  /\ added' = 0
  /\ UNCHANGED <<config, defs, base, rows, flags, diskRows, diskFlags, lost, moved>>

\* A new process, perhaps with other patch rows, reads the files.  The deleted
\* mark of a row is read and never looked at.
Restart(patch) ==
  /\ config' = patch
  /\ rows' = diskRows
  /\ flags' = diskFlags
  /\ defs' = Rebuilt(patch, diskRows)
  /\ base' = Len(Resolved(patch))
  /\ lost' = FALSE
  /\ moved' = (moved \/ lost \/ patch # config)
  /\ added' = 0
  /\ UNCHANGED <<diskRows, diskFlags, pw>>

Next ==
  \/ \E a \in Addresses : AddNew(a)
  \/ \E i \in Indices : AddAgain(i)
  \/ \E i \in Indices, en \in BOOLEAN : SetEnabled(i, en)
  \/ \E i \in Indices : Delete(i)
  \/ \E i \in Indices : SetPassword(i)
  \/ \E patch \in Patches : Restart(patch)

Spec == Init /\ [][Next]_vars

-----------------------------------------------------------------------------
(* Properties                                                              *)

\* The types of the state.  An added row may have lost its entry to a patch row,
\* so there are at least as many rows as entries behind the patch rows.
TypeOK ==
  /\ config \in Patches
  /\ defs \in Seq(Addresses) /\ Len(defs) - 1 \in Indices
  /\ base \in 1..Len(defs)
  /\ rows \in Seq(Row) /\ Len(rows) <= MaxRows
  /\ diskRows \in Seq(Row) /\ Len(diskRows) <= MaxRows
  /\ flags \in Flags /\ diskFlags \in Flags
  /\ lost \in BOOLEAN /\ moved \in BOOLEAN
  /\ pw \subseteq PasswordIndices
  /\ added \in Indices

\* No address has two entries, which would be two doors with two passwords to one
\* upstream - to the owner's, in the worst case: whatever the configuration, the
\* additions, the deletions and the restarts.
NoTwoDoors ==
  /\ At(0) = Owner
  /\ IsInjective(defs)

\* addEntry() never ends in its error "state inconsistent, no persisted row": an
\* entry behind the patch rows always finds a row to be added again with.
RowBehindEveryEntry ==
  \A i \in Indices : Known(i) /\ i >= base => i - base < Len(rows)

\* A restart with the same patch rows gives the same entries at the same indices
\* with the same flags, unless a write failed or a patch row has taken the
\* address of an added row.
RestartKeepsTable ==
  ~lost =>
    /\ diskFlags = flags
    /\ diskRows = rows
    /\ Len(defs) = base + Len(rows) => Rebuilt(config, diskRows) = defs

\* While every process has had the same patch rows and no write was lost between
\* them, an added row is what the settings page said: a new one has no password
\* left by another entry, and a deleted one is hidden.  Beyond that neither is so.
UnmovedAsShown ==
  ~moved => /\ added # 0 => added \notin pw
            /\ \A i \in Indices : Known(i) /\ i >= base /\ rows[i - base + 1].deleted => ~Visible(i)

\* README.en.md:141: rows added in the settings page survive restarts and coexist with
\* patch rows - an added entry has a row of its own address to come back with.
AddedSurvive ==
  \A i \in Indices : Known(i) /\ i >= base => Contains(AddressesOf(rows), At(i))

\* lib/index.js:421: the row of a deleted entry is marked as well, so that the entry
\* stays hidden over restarts.
DeletedStaysHidden ==
  \A i \in Indices : Known(i) /\ i >= base =>
    \A k \in DOMAIN rows : rows[k] = [addr |-> At(i), deleted |-> TRUE] => ~Visible(i)

\* README.en.md:141: new rows start with no password.
NewWithoutPassword == added # 0 => added \notin pw
=============================================================================
