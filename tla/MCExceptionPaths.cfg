SPECIFICATION ExceptionSpec
CONSTANTS
  c0 = c0
  c1 = c1
  student = student
  focal = focal
  both = both
  dean = dean
  Request = {r1, r2}
  Case <- MCCase
  OwnerOf <- MCOwnerOf
  User <- MCUser
  RolesOf <- MCRolesOf
  System = System
  NoCase = NoCase
  Label <- MCLabel
  MaxHistory <- MCMaxHistory
  AssignedTo <- MCAssignedTo
  RestartCap = 1
  MaxRestarts = 1
  MaxDocuments = 1
  Past <- MCPast
INVARIANTS
  RestartHasTwoSigners
  AuthorizedRequestHasNewCase
  GraduationIsEarned
  DecisionsAreBeingRecorded
PROPERTIES
  RestartIsRecorded
  WaiverDecisionIsRecorded
CHECK_DEADLOCK FALSE
