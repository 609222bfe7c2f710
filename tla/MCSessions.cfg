\* Two sessions of one actor, two requests; sessions live for one hour.
SPECIFICATION SessionsSpec
CONSTANTS
  NULL = NULL
  Actors = {"root"}
  LocalUsers <- Admin
  Usernames = {"admin", "nobody"}
  Passwords = {"right", "wrong"}
  Jtis = {"j1", "j2"}
  Logins = {"l1", "l2"}
  Calls = {"c1", "c2"}
  TokenTTL = 1
  MaxTime = 3
INVARIANTS
  RevokedIsRejected
CHECK_DEADLOCK FALSE
