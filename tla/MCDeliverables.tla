----------------------------- MODULE MCDeliverables -----------------------------
(* Deliverables for TLC: one case whose offer has just been approved, its    *)
(* student, a Focal Person, two slots.                                      *)
EXTENDS Deliverables, TLC

CONSTANTS c1, student, focal

MCOwnerOf == [c \in {c1} |-> student]
MCUser == {student, focal}
MCRolesOf == student :> {"STUDENT"} @@ focal :> {"FOCAL"}
MCLabel == {"idle", "commit", "committed", "complete:decide", "cert:scan", "cert:store",
            "token:revoke", "token:create", "eval:store", "advance:facts", "advance:move",
            "verify:create", "mark:read", "mark:decide"}

MCHistory ==
  <<[from |-> "ELIGIBILITY_PENDING", to |-> "ELIGIBLE", actor |-> System],
    [from |-> "ELIGIBLE", to |-> "OFFER_SUBMITTED", actor |-> student],
    [from |-> "OFFER_SUBMITTED", to |-> "OFFER_UNDER_REVIEW", actor |-> System],
    [from |-> "OFFER_UNDER_REVIEW", to |-> "APPROVED", actor |-> focal],
    [from |-> "APPROVED", to |-> "IN_PROGRESS", actor |-> System]>>
MCMaxHistory == [c \in {c1} |-> Len(MCHistory) + 3]

MCInit ==
  /\ state = [c \in {c1} |-> "IN_PROGRESS"]
  /\ history = [c \in {c1} |-> MCHistory]
  /\ pc = [r \in Request |-> "idle"]
  /\ tx = [r \in Request |-> NoTx]
  /\ frame = [r \in Request |-> NoFrame]
  /\ documents = <<[kase |-> c1, type |-> "OFFER_LETTER", status |-> "ACTIVE"]>>
  /\ DeliverablesInit

MCSpec == MCInit /\ [][DeliverableNext]_deliverablePathVars /\ DeliverableFairness
================================================================================
