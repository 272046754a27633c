--------------------------- MODULE MCBackgroundWork ---------------------------
(* BackgroundWork for TLC: two students, a Focal Person and two HoDs.  Each   *)
(* element of MCStarts gives some of the queues work, with the cases,         *)
(* semesters and moves that matter to them.                                   *)
EXTENDS BackgroundWork

CONSTANTS k1, k2, s1, s2, focal, hod1, hod2

MCCase == {k1, k2}
MCOwnerOf == k1 :> s1 @@ k2 :> s2
MCUser == {s1, s2, focal, hod1, hod2}
MCRolesOf == s1 :> {"STUDENT"} @@ s2 :> {"STUDENT"} @@ focal :> {"FOCAL"}
             @@ hod1 :> {"HOD"} @@ hod2 :> {"HOD"}
MCAssignedTo == [u \in MCUser |-> CASE u = s1 -> {focal, hod1, hod2} [] u = s2 -> {focal, hod2}
                                    [] OTHER -> {}]
MCSemester == {1, 2}
MCAdmissionOf == [s \in {s1, s2} |-> 1]

Nothing == [c \in MCCase |-> NoCase]
\* No request that has read an earlier state is still running.
Settled(st) == [c \in MCCase |-> {st[c]} \ {NoCase}]
Queued == <<[to |-> "OFFER_UNDER_REVIEW", time |-> 0, seen |-> 0]>>
Sem(s, d) == [status |-> s, deadline |-> d]
NoSemesters == [n \in MCSemester |-> NoSemester]
InReview == [c \in MCCase |-> "OFFER_UNDER_REVIEW"]
Only(s) == k1 :> s @@ k2 :> NoCase

Resubmission == {"OFFER_SUBMITTED", "OFFER_UNDER_REVIEW", "OFFER_REJECTED"}
Moves(s) == k1 :> s @@ k2 :> {}

MCStarts == {
  [registered |-> {"sla-escalation-sweep"}, until |-> 6, admin |-> {},
   stages |-> Moves(Resubmission), status |-> Only("OFFER_UNDER_REVIEW"),
   entered |-> Settled(Only("OFFER_UNDER_REVIEW")), events |-> k1 :> Queued @@ k2 :> <<>>,
   semesters |-> NoSemesters],
  [registered |-> {"sla-escalation-sweep"}, until |-> 2, admin |-> {},
   stages |-> Moves({"OFFER_REJECTED"}), status |-> InReview, entered |-> Settled(InReview),
   events |-> [c \in MCCase |-> Queued], semesters |-> NoSemesters],
  [registered |-> {"case-notifications"}, until |-> 0, admin |-> {},
   stages |-> Moves(Resubmission), status |-> Only("OFFER_UNDER_REVIEW"),
   entered |-> Settled(Only("OFFER_UNDER_REVIEW")), events |-> k1 :> Queued @@ k2 :> <<>>,
   semesters |-> NoSemesters],
  [registered |-> {"supervisor-reminder-sweep"}, until |-> 6, admin |-> {},
   stages |-> Moves({}), status |-> Only("DOCS_PENDING"),
   entered |-> Settled(Only("DOCS_PENDING")), events |-> [c \in MCCase |-> <<>>],
   semesters |-> NoSemesters],
  [registered |-> {"deadline-sweep"}, until |-> 2, admin |-> {"deadline"},
   stages |-> Moves({"WITHDRAWN"}), status |-> InReview, entered |-> Settled(InReview),
   events |-> [c \in MCCase |-> Queued],
   semesters |-> <<Sem("OPEN", 1), NoSemester>>],
  [registered |-> {"roster-sweep"}, until |-> 0, admin |-> {"semester"},
   stages |-> Moves({"ELIGIBILITY_PENDING"}), status |-> Nothing,
   entered |-> Settled(Nothing), events |-> [c \in MCCase |-> <<>>],
   semesters |-> <<Sem("UPCOMING", NoDeadline), NoSemester>>]}

\* One HoD queue with one case, for the violation runs.
EscalationStarts == {
  [registered |-> {"sla-escalation-sweep"}, until |-> 4, admin |-> {},
   stages |-> Moves(Resubmission), status |-> Only("OFFER_UNDER_REVIEW"),
   entered |-> Settled(Only("OFFER_UNDER_REVIEW")), events |-> k1 :> Queued @@ k2 :> <<>>,
   semesters |-> NoSemesters]}

\* A second semester with a deadline of its own, which an Admin opens.
SecondDeadlineStarts == {
  [registered |-> {"deadline-sweep"}, until |-> 2, admin |-> {"semester"},
   stages |-> Moves({}), status |-> Only("OFFER_UNDER_REVIEW"),
   entered |-> Settled(Only("OFFER_UNDER_REVIEW")), events |-> k1 :> Queued @@ k2 :> <<>>,
   semesters |-> <<Sem("OPEN", 1), Sem("UPCOMING", 2)>>]}
================================================================================
