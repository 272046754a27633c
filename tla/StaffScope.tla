------------------------------- MODULE StaffScope -------------------------------
(***************************************************************************)
(* Which staff may act on a student: requireDepartmentAccess() of          *)
(* src/server/authz/department-scope.ts.  Assignments do not change while   *)
(* the requests of these models run.                                       *)
(***************************************************************************)
EXTENDS CaseExecutor

CONSTANT AssignedTo    \* AssignedTo[s]: the staff assigned to the department of student s

ASSUME ScopeOK == AssignedTo \in [User -> SUBSET User]

SCOPED_ROLES == {"FOCAL", "HOD"}
BYPASS_ROLES == {"DEAN", "ADMIN"}

\* Deans and Admins see everybody; a student with no department is nobody's.
InScope(u, s) ==
  \/ RolesOf[u] \cap BYPASS_ROLES # {}
  \/ RolesOf[u] \cap SCOPED_ROLES = {}
  \/ u \in AssignedTo[s]

\* requireCapability() for a capability one role holds, then the scope.
MayAct(u, role, s) == Holds(u, role) /\ InScope(u, s)

\* A case id no row has and no request refers to.  (Ids are never reused.)
Fresh(c) == ~Exists(c) /\ \A r \in Request : frame[r].kase # c /\ tx[r].kase # c

HasActiveCase(s) == \E c \in Case : StudentOf(c) = s /\ Active(c)
================================================================================
