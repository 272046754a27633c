SPECIFICATION AccountSpec
CONSTANTS
  u1 = u1
  u2 = u2
  p1 = p1
  p2 = p2
  n1 = n1
  n2 = n2
  d1 = d1
  d2 = d2
  r1 = r1
  r2 = r2
  Request = {r1, r2}
  User = {u1, u2}
  Password = {p1, p2}
  NoPassword = NoPassword
  NoUser = NoUser
  Limit <- MCLimit
  MAX_FAILED_LOGIN_ATTEMPTS = 2
  MaxAttempts = 3
  RegistrationNumber = {n1, n2}
  Files <- MCFiles
  Doc = {d1, d2}
  MaxArchives = 2
  Starts <- ImportStarts
PROPERTY
  ImportKeepsPasswords
CHECK_DEADLOCK FALSE
