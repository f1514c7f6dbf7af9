\* Two logins of one browser, two requests under way, a life of four ticks (a tick
\* is half a day), renewal below two, a DSH cookie of two ticks.
SPECIFICATION Spec
CONSTANTS
  Tokens = {t1, t2}
  NoToken = none
  Requests = {r1, r2}
  TTL = 4
  AuthTTL = 2
  MaxTime = 5
SYMMETRY Symmetry
INVARIANTS
  TypeOK
  SessionSlides
  CookieKeepsUp
PROPERTIES
  BareOnlyAfterDiscard
CHECK_DEADLOCK FALSE
