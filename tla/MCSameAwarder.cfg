SPECIFICATION MCSpec
CONSTANTS
  c1 = c1
  student = student
  focal = focal
  hod = hod
  both = both
  dean = dean
  Request = {r1}
  Case = {c1}
  OwnerOf <- MCOwnerOf
  User <- MCUser
  RolesOf <- MCRolesOf
  System = System
  NoCase = NoCase
  Label <- MCLabel
  MaxHistory <- MCMaxHistory
INVARIANTS
  RecommenderIsNotAwarder
CHECK_DEADLOCK FALSE
