------------------------------- MODULE MCGrading -------------------------------
(* Grading for TLC: one verified case, a Focal Person, a HoD, an account that *)
(* is both, a Dean, two slots.                                              *)
EXTENDS Grading, TLC

CONSTANTS c1, student, focal, hod, both, dean

MCOwnerOf == [c \in {c1} |-> student]
MCUser == {student, focal, hod, both, dean}
MCRolesOf == student :> {"STUDENT"} @@ focal :> {"FOCAL"} @@ hod :> {"HOD"}
             @@ both :> {"FOCAL", "HOD"} @@ dean :> {"DEAN"}
MCLabel == {"idle", "commit", "committed", "recommend:decide", "award:decide", "award:grade"}

MCHistory ==
  <<[from |-> "ELIGIBILITY_PENDING", to |-> "ELIGIBLE", actor |-> System],
    [from |-> "ELIGIBLE", to |-> "OFFER_SUBMITTED", actor |-> student],
    [from |-> "OFFER_SUBMITTED", to |-> "OFFER_UNDER_REVIEW", actor |-> System],
    [from |-> "OFFER_UNDER_REVIEW", to |-> "APPROVED", actor |-> focal],
    [from |-> "APPROVED", to |-> "IN_PROGRESS", actor |-> System],
    [from |-> "IN_PROGRESS", to |-> "DOCS_PENDING", actor |-> student],
    [from |-> "DOCS_PENDING", to |-> "PENDING_VERIFICATION", actor |-> System],
    [from |-> "PENDING_VERIFICATION", to |-> "VERIFIED", actor |-> focal]>>
MCMaxHistory == [c \in {c1} |-> Len(MCHistory) + 3]

MCInit ==
  /\ state = [c \in {c1} |-> "VERIFIED"]
  /\ history = [c \in {c1} |-> MCHistory]
  /\ pc = [r \in Request |-> "idle"]
  /\ tx = [r \in Request |-> NoTx]
  /\ frame = [r \in Request |-> NoFrame]
  /\ GradingInit

MCSpec == MCInit /\ [][GradingNext]_gradingPathVars /\ GradingFairness
================================================================================
