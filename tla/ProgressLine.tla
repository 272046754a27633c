------------------------------ MODULE ProgressLine ------------------------------
(***************************************************************************)
(* The student's home page draws the state of the latest case as a line of *)
(* eight steps, or as a banner for the three exception paths                *)
(* (src/server/dashboards/progress-line.ts).  The code keeps the two maps   *)
(* by hand, apart from the table of transitions.                           *)
(***************************************************************************)
EXTENDS TransitionTable, Naturals

EIGHT_STEPS == 1..8

STATE_TO_STEP ==
  {<<"ELIGIBILITY_PENDING", 1>>, <<"ELIGIBLE", 2>>, <<"OFFER_SUBMITTED", 3>>,
   <<"OFFER_REJECTED", 3>>, <<"OFFER_UNDER_REVIEW", 4>>, <<"APPROVED", 4>>,
   <<"IN_PROGRESS", 5>>, <<"DOCS_PENDING", 6>>, <<"PENDING_VERIFICATION", 7>>,
   <<"VERIFIED", 7>>, <<"GRADE_RECOMMENDED", 7>>, <<"CLOSED_PASS", 8>>,
   <<"CLOSED_INCOMPLETE", 8>>}

\* Each exception state, and whether its banner is a final one.
EXCEPTION_STATES ==
  {<<"RESTART_REQUESTED", FALSE>>, <<"RESTART_AUTHORIZED", TRUE>>, <<"RESTART_DENIED", TRUE>>,
   <<"WAIVER_REQUESTED", FALSE>>, <<"WAIVER_COUNTERSIGNED", FALSE>>,
   <<"WAIVER_GRANTED", TRUE>>, <<"WAIVER_DENIED", TRUE>>, <<"WITHDRAWN", TRUE>>}

AtStep(s, k) == <<s, k>> \in STATE_TO_STEP

\* computeProgressLine(): a state is drawn as final, and step k as done.
ShownTerminal(s) == <<s, TRUE>> \in EXCEPTION_STATES \/ s \in {"CLOSED_PASS", "CLOSED_INCOMPLETE"}

StepDone(s, k) ==
  \E current \in EIGHT_STEPS : AtStep(s, current) /\ (k < current \/ ShownTerminal(s))
================================================================================
