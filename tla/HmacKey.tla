------------------------------- MODULE HmacKey -------------------------------
(***************************************************************************)
(* The key of the pseudonyms in the access log (lib/accesslog.mjs): one    *)
(* for the process, which every logger looks for in .hmac-key, and makes   *)
(* and appends to that file when it finds none.                            *)
(*                                                                         *)
(* Reading, appending and taking the new key into use are steps of their   *)
(* own.  The plugin may be applied again in the same process while the     *)
(* logger before is still looking for the key, and the process may die     *)
(* anywhere.                                                               *)
(*                                                                         *)
(* A key is the whole text of the file, a sequence of the pieces that were *)
(* appended to it: g is the key of logger g, -g the most of it, 0 a torn   *)
(* beginning that is too short to be a key; two of these are long enough.  *)
(***************************************************************************)
EXTENDS Integers, Sequences

CONSTANT MaxLoggers  \* bound: calls of createAccessLogger(), one or more

Loggers == 1..MaxLoggers

VARIABLES
  logger,   \* the newest logger
  hmacKey,  \* the key of the process, <<>> before the first one is loaded
  keyFile,  \* what is in .hmac-key
  keyInit   \* keyInit[g]: how far logger g is in loading the key

vars == <<logger, hmacKey, keyFile, keyInit>>

Init ==
  /\ logger = 1
  /\ hmacKey = <<>>
  /\ keyFile = <<>>
  /\ keyInit = [g \in Loggers |-> IF g = 1 THEN "read" ELSE "none"]

-----------------------------------------------------------------------------
(* Loading the key.  Definitions named Faulty... are seeded faults:        *)
(* plausible slips in the definition that follows them, never used by      *)
(* Next, kept to see that each property can fail.                          *)

Piece == (-MaxLoggers)..MaxLoggers

Usable(text) == Len(text) > 1 \/ \E i \in DOMAIN text : text[i] # 0

FaultyLoadKey(g) ==
  /\ keyInit[g] = "read"
  /\ hmacKey' = IF Usable(keyFile) THEN keyFile ELSE hmacKey
  /\ keyInit' = [keyInit EXCEPT ![g] = "make"]
  /\ UNCHANGED <<logger, keyFile>>

LoadKey(g) ==
  /\ keyInit[g] = "read"
  /\ IF Usable(keyFile)
     THEN /\ hmacKey' = keyFile
          /\ keyInit' = [keyInit EXCEPT ![g] = "done"]
     ELSE /\ keyInit' = [keyInit EXCEPT ![g] = "make"]
          /\ UNCHANGED hmacKey
  /\ UNCHANGED <<logger, keyFile>>

\* The file cannot be read, which is taken for no key in it.
MisreadKey(g) ==
  /\ keyInit[g] = "read"
  /\ Usable(keyFile)
  /\ keyInit' = [keyInit EXCEPT ![g] = "misread"]
  /\ UNCHANGED <<logger, hmacKey, keyFile>>

ToAppend(g) == keyInit[g] \in {"make", "misread"}

\* What may reach the file of an append that fails or is cut short.
Torn(g) == {<<>>, <<0>>, <<-g>>}

\* A key of its own is appended to whatever is there by now, or not quite, ...
SaveKey(g) ==
  /\ ToAppend(g)
  /\ \E wrote \in Torn(g) \cup {<<g>>} : keyFile' = keyFile \o wrote
  /\ keyInit' = [keyInit EXCEPT ![g] = "saved"]
  /\ UNCHANGED <<logger, hmacKey>>

\* ... and used by the process from then on.
UseKey(g) ==
  /\ keyInit[g] = "saved"
  /\ hmacKey' = <<g>>
  /\ keyInit' = [keyInit EXCEPT ![g] = "done"]
  /\ UNCHANGED <<logger, keyFile>>

\* The new logger takes the key of the one before for granted.
FaultyReload ==
  /\ logger < MaxLoggers
  /\ logger' = logger + 1
  /\ UNCHANGED <<hmacKey, keyFile, keyInit>>

\* apply() once more: a new logger, which looks for the key again.
Reload ==
  /\ logger < MaxLoggers
  /\ logger' = logger + 1
  /\ keyInit' = [keyInit EXCEPT ![logger + 1] = "read"]
  /\ UNCHANGED <<hmacKey, keyFile>>

\* The process dies, maybe in the middle of saving a key, and starts again.
Die ==
  /\ logger < MaxLoggers
  /\ logger' = logger + 1
  /\ hmacKey' = <<>>
  /\ keyInit' = [g \in Loggers |-> IF g = logger + 1 THEN "read"
                                   ELSE IF g > logger THEN "none" ELSE "done"]
  /\ \/ UNCHANGED keyFile
     \/ \E g \in Loggers : ToAppend(g) /\ \E torn \in Torn(g) : keyFile' = keyFile \o torn

\* Logger g goes on with loading the key.
Step(g) ==
  \/ LoadKey(g)
  \/ MisreadKey(g)
  \/ SaveKey(g)
  \/ UseKey(g)

Next ==
  \/ \E g \in Loggers : Step(g)
  \/ Reload
  \/ Die

Spec == Init /\ [][Next]_vars

-----------------------------------------------------------------------------
(* Properties                                                              *)

\* The types of the state; a logger that is there has begun to look for the key.
TypeOK ==
  /\ logger \in Loggers
  /\ hmacKey \in Seq(Piece)
  /\ keyFile \in Seq(Piece)
  /\ keyInit \in [Loggers -> {"none", "read", "make", "misread", "saved", "done"}]
  /\ \A g \in Loggers : keyInit[g] = "none" <=> g > logger

KeySettled ==
  /\ Usable(keyFile)
  /\ hmacKey \in {<<>>, keyFile}
  /\ \A g \in Loggers : keyInit[g] \in {"none", "read", "done"}

\* Once the key in use is what the file gives and no logger is making another, it
\* is the key of every process to come, so that pseudonyms stay comparable,
\* however many keys were torn or saved twice before, until a logger fails to read
\* the file.
KeyStays ==
  [][KeySettled => /\ keyFile' = keyFile
                   /\ KeySettled' \/ \E g \in Loggers : keyInit'[g] = "misread"]_vars

\* What lib/accesslog.mjs says of the key: made and stored the first time, and used
\* again from then on, so that the pseudonyms of an address can be put together.
KeyReused == [][Usable(keyFile) => keyFile' = keyFile]_vars
=============================================================================
