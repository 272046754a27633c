SPECIFICATION Spec
CONSTANTS
  c1 = c1
  c2 = c2
  r1 = r1
  r2 = r2
  student = student
  hod = hod
  dean = dean
  both = both
  Request = {r1, r2}
  Case <- MCCase
  OwnerOf <- MCOwnerOf
  User <- MCUser
  RolesOf <- MCRolesOf
  System = System
  NoCase = NoCase
  Label = {"idle", "commit", "committed"}
  Contexts <- MCContexts
  MaxHistory <- MCMaxHistory
SYMMETRY Symmetry
INVARIANTS
  TypeOK
  OneActiveCase
  EventsPermitted
  HistoryExplainsState
  NoStageSkipped
  CallsInFlight
PROPERTIES
  ImplementsLifecycle
CHECK_DEADLOCK FALSE
