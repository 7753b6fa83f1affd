SPECIFICATION ApiSpec
CONSTANTS
  Agents = {a1}
  k1 = k1
  k2 = k2
  Keys <- BothKeys
  Configs = {c1, c2}
  Allowed = {c1}
  Admins = {u1, u2}
  NoRow = NoRow
  MaxIds = 3
  t1 = t1
  t2 = t2
  Tokens <- BothTokens
  Password = Password
  Configured = 0
  MinTTL = 2
INVARIANTS AdminInv PageIdsStay ReplyNeverMisdirects
SYMMETRY Symmetry
CHECK_DEADLOCK TRUE
