---------------------------- MODULE TransitionTable ----------------------------
(***************************************************************************)
(* The case states and the table of legal transitions of                   *)
(* src/server/state-machine/{types,transitions}.ts, as constants.  A row   *)
(* names its guards; a guard is a predicate of the context its caller      *)
(* passes in, so a call is modelled by the SET of guards its context       *)
(* satisfies (a context that is missing satisfies none).                   *)
(***************************************************************************)

\* The CaseState enum of the schema.
CaseState ==
  {"ELIGIBILITY_PENDING", "ELIGIBLE", "OFFER_SUBMITTED", "OFFER_UNDER_REVIEW",
   "OFFER_REJECTED", "APPROVED", "IN_PROGRESS", "DOCS_PENDING",
   "PENDING_VERIFICATION", "VERIFIED", "GRADE_RECOMMENDED", "CLOSED_PASS",
   "CLOSED_INCOMPLETE", "WITHDRAWN", "RESTART_REQUESTED", "RESTART_AUTHORIZED",
   "RESTART_DENIED", "WAIVER_REQUESTED", "WAIVER_COUNTERSIGNED",
   "WAIVER_GRANTED", "WAIVER_DENIED"}

TERMINAL_CASE_STATES ==
  {"CLOSED_PASS", "CLOSED_INCOMPLETE", "WITHDRAWN", "WAIVER_GRANTED",
   "WAIVER_DENIED", "RESTART_DENIED", "RESTART_AUTHORIZED"}

\* Roles of people, and the role a scheduled job or chained step acts in.
RoleName == {"STUDENT", "FOCAL", "HOD", "DEAN", "ADMIN"}
ActorRole == RoleName \cup {"SYSTEM"}

GuardName ==
  {"eligibilityConfirmed", "offerComplete", "durationWithinBounds",
   "relevanceConfirmed", "actualDatesRecorded", "deliverablesPresent",
   "deliverablesVerified", "recommenderNotAwarder", "differentOrganization",
   "timeRemains", "belowRestartCap", "distinctSigners"}

Row(from, to, role, guards, requiresReason) ==
  [from |-> from, to |-> to, actorRole |-> role, guards |-> guards,
   requiresReason |-> requiresReason]

\* Withdrawal is offered before approval only.
PreApproval == {"ELIGIBILITY_PENDING", "ELIGIBLE", "OFFER_SUBMITTED",
                "OFFER_UNDER_REVIEW", "OFFER_REJECTED"}

\* The normal path.
NormalRows ==
  {Row("ELIGIBILITY_PENDING", "ELIGIBLE", "SYSTEM", {"eligibilityConfirmed"}, FALSE),
   Row("ELIGIBLE", "OFFER_SUBMITTED", "STUDENT", {"offerComplete"}, FALSE),
   Row("OFFER_SUBMITTED", "OFFER_UNDER_REVIEW", "SYSTEM", {}, FALSE),
   Row("OFFER_UNDER_REVIEW", "APPROVED", "FOCAL",
       {"durationWithinBounds", "relevanceConfirmed"}, TRUE),
   Row("OFFER_UNDER_REVIEW", "OFFER_REJECTED", "FOCAL", {}, TRUE),
   Row("OFFER_REJECTED", "OFFER_SUBMITTED", "STUDENT", {"offerComplete"}, FALSE),
   Row("APPROVED", "IN_PROGRESS", "SYSTEM", {}, FALSE),
   Row("IN_PROGRESS", "DOCS_PENDING", "STUDENT", {"actualDatesRecorded"}, FALSE),
   Row("DOCS_PENDING", "PENDING_VERIFICATION", "SYSTEM", {"deliverablesPresent"}, FALSE),
   Row("PENDING_VERIFICATION", "VERIFIED", "FOCAL", {"deliverablesVerified"}, FALSE),
   Row("VERIFIED", "GRADE_RECOMMENDED", "FOCAL", {}, TRUE),
   Row("GRADE_RECOMMENDED", "CLOSED_PASS", "HOD", {"recommenderNotAwarder"}, FALSE),
   Row("GRADE_RECOMMENDED", "CLOSED_INCOMPLETE", "HOD", {"recommenderNotAwarder"}, TRUE)}

\* The restart gate and the waivers.
RestartRows ==
  {Row("CLOSED_INCOMPLETE", "RESTART_REQUESTED", "FOCAL",
       {"differentOrganization", "timeRemains", "belowRestartCap"}, TRUE),
   Row("RESTART_REQUESTED", "RESTART_AUTHORIZED", "HOD", {"distinctSigners"}, TRUE),
   Row("RESTART_REQUESTED", "RESTART_DENIED", "HOD", {}, TRUE)}

WaiverRowsOneSigner ==
  {Row("WAIVER_REQUESTED", "WAIVER_COUNTERSIGNED", "HOD", {}, TRUE),
   Row("WAIVER_REQUESTED", "WAIVER_DENIED", "HOD", {}, TRUE),
   Row("WAIVER_REQUESTED", "WAIVER_GRANTED", "DEAN", {}, TRUE),
   Row("WAIVER_COUNTERSIGNED", "WAIVER_DENIED", "DEAN", {}, TRUE)}
WaiverRows ==
  {Row("WAIVER_REQUESTED", "WAIVER_COUNTERSIGNED", "HOD", {}, TRUE),
   Row("WAIVER_REQUESTED", "WAIVER_DENIED", "HOD", {}, TRUE),
   Row("WAIVER_COUNTERSIGNED", "WAIVER_GRANTED", "DEAN", {}, TRUE),
   Row("WAIVER_COUNTERSIGNED", "WAIVER_DENIED", "DEAN", {}, TRUE)}

TRANSITIONS ==
  NormalRows \cup RestartRows \cup WaiverRows
    \cup {Row(s, "WITHDRAWN", "STUDENT", {}, FALSE) : s \in PreApproval}

\* The states a case row is inserted in: openCase, the BR-02 sweep and an
\* authorised restart, a waiver.
GENESIS_STATES == {"ELIGIBILITY_PENDING", "ELIGIBLE", "WAIVER_REQUESTED"}

LegalMove(from, to) == \E t \in TRANSITIONS : t.from = from /\ t.to = to

\* <<s, p>>: every path of TRANSITIONS from a genesis state to s goes through p.
\* Read off the table for the properties below; no code states it.
MUST_FOLLOW ==
  {<<"OFFER_SUBMITTED", "ELIGIBLE">>, <<"OFFER_UNDER_REVIEW", "OFFER_SUBMITTED">>,
   <<"OFFER_REJECTED", "OFFER_UNDER_REVIEW">>, <<"APPROVED", "OFFER_UNDER_REVIEW">>,
   <<"IN_PROGRESS", "APPROVED">>, <<"DOCS_PENDING", "IN_PROGRESS">>,
   <<"PENDING_VERIFICATION", "DOCS_PENDING">>, <<"VERIFIED", "PENDING_VERIFICATION">>,
   <<"GRADE_RECOMMENDED", "VERIFIED">>, <<"CLOSED_PASS", "GRADE_RECOMMENDED">>,
   <<"CLOSED_INCOMPLETE", "GRADE_RECOMMENDED">>,
   <<"RESTART_REQUESTED", "CLOSED_INCOMPLETE">>,
   <<"RESTART_AUTHORIZED", "RESTART_REQUESTED">>, <<"RESTART_DENIED", "RESTART_REQUESTED">>,
   <<"WAIVER_COUNTERSIGNED", "WAIVER_REQUESTED">>, <<"WAIVER_DENIED", "WAIVER_REQUESTED">>,
   <<"WAIVER_GRANTED", "WAIVER_COUNTERSIGNED">>}
================================================================================
