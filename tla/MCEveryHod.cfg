SPECIFICATION BackgroundSpec
CONSTANTS
  k1 = k1
  k2 = k2
  s1 = s1
  s2 = s2
  focal = focal
  hod1 = hod1
  hod2 = hod2
  Case <- MCCase
  OwnerOf <- MCOwnerOf
  NoCase = NoCase
  User <- MCUser
  RolesOf <- MCRolesOf
  AssignedTo <- MCAssignedTo
  Supervisor = Supervisor
  WebTask = {w1, w2}
  MaxTime = 4
  DayParts = 2
  MaxCrashes = 1
  MaxEvents = 4
  SLA_DAYS = 1
  SUPERVISOR_SLA_DAYS = 1
  REMINDER_INTERVAL_DAYS = 1
  NonWorking = {1}
  MaxTokens = 2
  Semester <- MCSemester
  AdmissionOf <- MCAdmissionOf
  AUTO_ENROLL_BOUNDARY_SEMESTERS = 1
  NoDeadline = NoDeadline
  Starts <- EscalationStarts
PROPERTY
  EveryHodIsTold
CHECK_DEADLOCK FALSE
