SPECIFICATION OfferSpec
CONSTANTS
  c1 = c1
  c2 = c2
  student = student
  focal = focal
  Request = {r1, r2}
  Case <- MCCase
  OwnerOf <- MCOwnerOf
  User <- MCUser
  RolesOf <- MCRolesOf
  System = System
  NoCase = NoCase
  Label <- MCLabel
  Company = {k1}
  NoCompany = NoCompany
  Plans <- MCPlans
  MaxHistory <- MCMaxHistory
  MaxDocuments = 2
INVARIANTS
  OfferLetterOnFile
  TransientCasesMoveOn
PROPERTIES
  TransientStatesPass
CHECK_DEADLOCK FALSE
