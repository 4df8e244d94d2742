\* Two users of a browser with two tabs, with cookies of a host or of a domain; the
\* access token dies with the next tick, the refresh token with the one after.
SPECIFICATION SessionSpec
CONSTANTS
  User = {u1, u2}
  Tab = {t1, t2}
  NoUser = NoUser
  AccessTtl = 1
  RefreshTtl = 2
  MaxTime = 3
SYMMETRY Symmetric
INVARIANT LogoutLasts
PROPERTY RefreshKeepsSession
CHECK_DEADLOCK FALSE
