SPECIFICATION MCSpec
CONSTANTS
  c1 = c1
  student = student
  focal = focal
  Request = {r1, r2}
  Case = {c1}
  OwnerOf <- MCOwnerOf
  User <- MCUser
  RolesOf <- MCRolesOf
  System = System
  NoCase = NoCase
  Label <- MCLabel
  MaxHistory <- MCMaxHistory
  MaxDocuments = 3
  MaxTokens = 2
INVARIANTS
  OneLiveToken
  DeliverablesBeforeVerification
  EvidenceWasVerified
  CompleteEvidenceIsHeld
PROPERTIES
  CompleteEvidenceAdvances
CHECK_DEADLOCK FALSE
