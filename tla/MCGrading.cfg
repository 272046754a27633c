SPECIFICATION MCSpec
CONSTANTS
  c1 = c1
  student = student
  focal = focal
  hod = hod
  both = both
  dean = dean
  Request = {r1, r2}
  Case = {c1}
  OwnerOf <- MCOwnerOf
  User <- MCUser
  RolesOf <- MCRolesOf
  System = System
  NoCase = NoCase
  Label <- MCLabel
  MaxHistory <- MCMaxHistory
INVARIANTS
  GradeBacksClosure
  ClosuresAreBeingGraded
  DisagreementShowsInEvents
PROPERTIES
  GradesAreImmutable
  ClosureGetsGrade
CHECK_DEADLOCK FALSE
