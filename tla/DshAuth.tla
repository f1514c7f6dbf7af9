------------------------------- MODULE DshAuth -------------------------------
(***************************************************************************)
(* The provider of DSH's own cookie (lib/dsh-auth.mjs): one cookie held for *)
(* all requests of an entry, fetched when it is missing or old, fetched    *)
(* once for all requests that ask for it meanwhile, thrown away and fetched *)
(* again by a timer.  Which requests wait for the fetch is the business of *)
(* the module that forwards them; here are the provider and the clock.     *)
(*                                                                         *)
(* The cookie is the time it was acquired, 0 for null; time starts at 1.   *)
(***************************************************************************)
EXTENDS Integers

CONSTANTS
  AuthTTL,  \* DEFAULT_TTL_MS, in ticks
  MaxTime   \* bound: the clock stops there

ASSUME DshAuthAssumption ==
  /\ AuthTTL \in Nat \ {0}
  /\ MaxTime \in Nat

VARIABLES
  now,       \* Date.now(), in ticks
  held,      \* cookie and acquiredAt of the provider
  pending,   \* a fetch is under way
  timer,     \* when the interval fires next, 0 before the first fetch of start()
  discarded  \* history: nothing held since the timer threw the last cookie away

authVars == <<held, pending, timer, discarded>>

AuthInit ==
  /\ held = 0
  /\ pending = FALSE
  /\ timer = 0
  /\ discarded = TRUE

AuthTypeOK ==
  /\ now \in Nat
  /\ held \in Nat
  /\ pending \in BOOLEAN
  /\ timer \in Nat
  /\ discarded \in BOOLEAN

-----------------------------------------------------------------------------
(* The provider.  Definitions named Faulty... are seeded faults: plausible *)
(* slips in the definition that follows them, never used by Next, kept to  *)
(* see that each property can fail.                                        *)

\* get() answers from the cookie it holds.
Usable == held # 0 /\ now - held < AuthTTL

\* get() otherwise joins the fetch under way or starts one.
Ask ==
  /\ pending' = (pending \/ ~Usable)
  /\ UNCHANGED <<held, timer, discarded>>

FaultyAcquired ==
  /\ pending
  /\ pending' = FALSE
  /\ held' = now - AuthTTL
  /\ discarded' = FALSE
  /\ UNCHANGED timer

\* acquire() gets its Set-Cookie.
Acquired ==
  /\ pending
  /\ pending' = FALSE
  /\ held' = now
  /\ discarded' = FALSE
  /\ UNCHANGED timer

FaultyNotAcquired ==
  /\ pending
  /\ pending' = FALSE
  /\ held' = 0
  /\ UNCHANGED <<timer, discarded>>

\* acquire() fails: no answer in ten seconds, an error, no Set-Cookie.  get()
\* falls back on whatever is held.
NotAcquired ==
  /\ pending
  /\ pending' = FALSE
  /\ UNCHANGED <<held, timer, discarded>>

\* The first fetch of start().
Prewarm ==
  /\ timer = 0
  /\ pending' = (pending \/ ~Usable)
  /\ timer' = now + AuthTTL
  /\ UNCHANGED <<held, discarded>>

\* The interval of start(): invalidate(), then get(), which finds nothing held.
Refresh ==
  /\ timer # 0 /\ timer <= now
  /\ held' = 0
  /\ discarded' = TRUE
  /\ pending' = TRUE
  /\ timer' = now + AuthTTL
=============================================================================
