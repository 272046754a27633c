------------------------------- MODULE NormalPath -------------------------------
(***************************************************************************)
(* The normal path from opening a case to its grade: OfferPath,            *)
(* Deliverables and Grading on the same cases, documents and executor, with *)
(* processes that may die between any two steps.  A step of one leaves the  *)
(* tables of the others alone.                                             *)
(***************************************************************************)
EXTENDS OfferPath, Deliverables, Grading

normalPathVars == <<coreVars, documents, offerVars, deliverableVars, gradingVars>>

RequestOf(r) ==
  \/ OfferRequest(r) /\ UNCHANGED <<deliverableVars, gradingVars>>
  \/ DeliverableRequest(r) /\ UNCHANGED <<offerVars, gradingVars>>
  \/ GradingRequest(r) /\ UNCHANGED <<documents, offerVars, deliverableVars>>

\* What the server does next, while no process dies.
StepOf(r) ==
  \/ OfferStep(r) /\ UNCHANGED <<deliverableVars, gradingVars>>
  \/ DeliverableStep(r) /\ UNCHANGED <<offerVars, gradingVars>>
  \/ GradingStep(r) /\ UNCHANGED <<documents, offerVars, deliverableVars>>
  \/ ExecutorStep(r) /\ UNCHANGED <<documents, offerVars, deliverableVars, gradingVars>>

ServerOf(r) ==
  \/ StepOf(r)
  \/ Crash(r) /\ UNCHANGED <<documents, offerVars, deliverableVars, gradingVars>>

NormalPathInit ==
  CoreInit /\ DocumentsInit /\ OfferInit /\ DeliverablesInit /\ GradingInit

NormalPathNext == \E r \in Request : RequestOf(r) \/ ServerOf(r)

NormalPathSpec == NormalPathInit /\ [][NormalPathNext]_normalPathVars

\* The same, on a day no process dies.
SteadyNext == \E r \in Request : RequestOf(r) \/ StepOf(r)

SteadySpec == NormalPathInit /\ [][SteadyNext]_normalPathVars

-----------------------------------------------------------------------------
(* Properties.                                                             *)

\* A pass is earned: whatever requests were denied or cut short on the way, a
\* case that closed with one has a company, all its deliverables, a verified
\* document of either type and a recommendation.
PassIsEarned ==
  \A c \in Case : "CLOSED_PASS" \in Entered(c) =>
    /\ company[c] # NoCompany
    /\ DeliverablesPresent(c)
    /\ \A type \in DeliverableType :
         \E i \in verified : documents[i].kase = c /\ documents[i].type = type
    /\ recommendation[c] # NoRecommendation
================================================================================
