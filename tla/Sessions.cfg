\* Two requests at once, three logins, room for two sessions.
SPECIFICATION Spec
CONSTANTS
  Tokens = {t1, t2, t3}
  NoToken = NoToken
  Requests = {r1, r2}
  MAX_SESSIONS = 2
INVARIANTS
  LogoutIsFinal
  StoresAgree
PROPERTIES
  LastsUntilLogout
