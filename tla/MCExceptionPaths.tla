---------------------------- MODULE MCExceptionPaths ----------------------------
(* ExceptionPaths for TLC: a student with a failed case c0 and one id for a  *)
(* new one, a Focal Person, an account that is Focal Person and HoD, a Dean. *)
EXTENDS ExceptionPaths, TLC

CONSTANTS c0, c1, student, focal, both, dean

MCCase == {c0, c1}
MCOwnerOf == [c \in MCCase |-> student]
MCUser == {student, focal, both, dean}
MCRolesOf == student :> {"STUDENT"} @@ focal :> {"FOCAL"} @@ both :> {"FOCAL", "HOD"}
             @@ dean :> {"DEAN"}
MCAssignedTo == [u \in MCUser |-> IF u = student THEN {focal, both} ELSE {}]
MCLabel == {"idle", "commit", "committed", "restart:decide", "restart:pending",
            "restart:refused", "countersign:decide", "countersign:restart", "deny:decide",
            "deny:record", "escalate:create", "waiver:create", "waiver:evidence",
            "waiver:undo", "waiver:record", "waiver:decide", "waiver:sign"}

Step(from, to, actor) == [from |-> from, to |-> to, actor |-> actor]
FailedCase ==
  <<Step("ELIGIBILITY_PENDING", "ELIGIBLE", System), Step("ELIGIBLE", "OFFER_SUBMITTED", student),
    Step("OFFER_SUBMITTED", "OFFER_UNDER_REVIEW", System),
    Step("OFFER_UNDER_REVIEW", "APPROVED", focal), Step("APPROVED", "IN_PROGRESS", System),
    Step("IN_PROGRESS", "DOCS_PENDING", student),
    Step("DOCS_PENDING", "PENDING_VERIFICATION", System),
    Step("PENDING_VERIFICATION", "VERIFIED", focal), Step("VERIFIED", "GRADE_RECOMMENDED", focal),
    Step("GRADE_RECOMMENDED", "CLOSED_INCOMPLETE", both)>>
MCPast == [c \in MCCase |-> IF c = c0 THEN FailedCase ELSE <<>>]
MCMaxHistory == c0 :> 12 @@ c1 :> 2
================================================================================
