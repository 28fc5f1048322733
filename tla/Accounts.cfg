SPECIFICATION Spec
CONSTANTS
  u1 = u1
  u2 = u2
  u3 = u3
  k1 = k1
  k2 = k2
  s1 = s1
  s2 = s2
  w1 = w1
  w2 = w2
  e1 = e1
  e2 = e2
  p1 = p1
  p2 = p2
  None = None
  Users <- MCUsers
  Keys <- MCKeys
  Sessions <- MCSessions
  Workers <- MCWorkers
  Emails = {e1, e2}
  Passwords = {p1, p2}
  Roles = {"user", "admin"}
  Doors = {"read", "admin"}
  Scopes <- MCScopes
  MaxRequests = 4
  MaxRestarts = 1
SYMMETRY MCSymmetry
INVARIANTS
  AdminUnlessOvertaken
  SessionsEndWithTheirUser
  KeysAreAnnouncedAsThemselves
PROPERTIES
  PeopleManageCredentials
