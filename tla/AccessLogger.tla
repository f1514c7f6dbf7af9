----------------------------- MODULE AccessLogger -----------------------------
(***************************************************************************)
(* createAccessLogger() (lib/accesslog.mjs): the log and the key of its    *)
(* pseudonyms.  Each logger looks for the key while calls of its log() are *)
(* under way already: log() waits for no key, and neither touches a file   *)
(* of the other.  A reload and a death are of both.                        *)
(***************************************************************************)
EXTENDS AccessLog

VARIABLES hmacKey, keyFile, keyInit  \* of HmacKey

keyVars == <<hmacKey, keyFile, keyInit>>

Key == INSTANCE HmacKey

LoggerInit == Init /\ Key!Init

LoggerNext ==
  \/ \E c \in Calls : Step(c) /\ UNCHANGED keyVars
  \/ \E g \in Loggers : Key!Step(g) /\ UNCHANGED vars
  \/ Reload /\ Key!Reload
  \/ Die /\ Key!Die

LoggerSpec == LoggerInit /\ [][LoggerNext]_<<vars, keyVars>>

-----------------------------------------------------------------------------
(* Properties                                                              *)

\* The types of HmacKey.
KeyTypeOK == Key!TypeOK

\* A key that is in use and stored stays until a logger fails to read it.
KeyStays == Key!KeyStays
=============================================================================
