SPECIFICATION NormalPathSpec
CONSTANTS
  c1 = c1
  student = student
  focal = focal
  hod = hod
  dean = dean
  Request = {r1}
  Case = {c1}
  OwnerOf <- MCOwnerOf
  User <- MCUser
  RolesOf <- MCRolesOf
  System = System
  NoCase = NoCase
  Label <- MCLabel
  Company = {k1, k2}
  NoCompany = NoCompany
  Plans <- MCPlans
  MaxHistory <- MCMaxHistory
  MaxDocuments = 3
  MaxTokens = 2
INVARIANTS
  PassIsEarned
CHECK_DEADLOCK FALSE
