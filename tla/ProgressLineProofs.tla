--------------------------- MODULE ProgressLineProofs ---------------------------
(***************************************************************************)
(* The drawing of a case agrees with the table of transitions, and with     *)
(* what has happened to the case.                                          *)
(***************************************************************************)
EXTENDS AnyCallerProofs, ProgressLine

\* progress-line.ts, "every CaseState is in one of the two maps": in one of them
\* and not in both, at one step, so that no page fails to be drawn.
THEOREM EveryStateIsDrawn ==
  \A s \in CaseState :
    \/ /\ \E k \in EIGHT_STEPS : AtStep(s, k) /\ \A l \in EIGHT_STEPS : AtStep(s, l) => l = k
       /\ \A t \in BOOLEAN : <<s, t>> \notin EXCEPTION_STATES
    \/ /\ \E t \in BOOLEAN : <<s, t>> \in EXCEPTION_STATES
       /\ \A k \in EIGHT_STEPS : ~AtStep(s, k)
<1> SUFFICES ASSUME NEW s \in CaseState
             PROVE  \/ /\ \E k \in EIGHT_STEPS : AtStep(s, k) /\ \A l \in EIGHT_STEPS : AtStep(s, l) => l = k
                       /\ \A t \in BOOLEAN : <<s, t>> \notin EXCEPTION_STATES
                    \/ /\ \E t \in BOOLEAN : <<s, t>> \in EXCEPTION_STATES
                       /\ \A k \in EIGHT_STEPS : ~AtStep(s, k)
  OBVIOUS
<1> DEFINE OnLine == {"ELIGIBILITY_PENDING", "ELIGIBLE", "OFFER_SUBMITTED", "OFFER_REJECTED",
                      "OFFER_UNDER_REVIEW", "APPROVED", "IN_PROGRESS", "DOCS_PENDING",
                      "PENDING_VERIFICATION", "VERIFIED", "GRADE_RECOMMENDED", "CLOSED_PASS",
                      "CLOSED_INCOMPLETE"}
<1>1. CASE s \in OnLine
  <2>1. \A t \in BOOLEAN : <<s, t>> \notin EXCEPTION_STATES
    BY <1>1 DEF EXCEPTION_STATES
  <2>2. \A k, l : AtStep(s, k) /\ AtStep(s, l) => l = k
    BY <1>1 DEF AtStep, STATE_TO_STEP
  <2>3. \E k \in 1..8 : AtStep(s, k)
    BY <1>1 DEF AtStep, STATE_TO_STEP
  <2> QED
    BY <2>1, <2>2, <2>3 DEF EIGHT_STEPS
<1>2. CASE s \notin OnLine
  <2>1. \A k : ~AtStep(s, k)
    BY <1>2 DEF AtStep, STATE_TO_STEP
  <2>2. \E t \in BOOLEAN : <<s, t>> \in EXCEPTION_STATES
    BY <1>2 DEF CaseState, EXCEPTION_STATES
  <2> QED
    BY <2>1, <2>2
<1> QED
  BY <1>1, <1>2

\* The page says "final" of exactly the states that the executor's index and
\* openCase() count as final: three lists kept apart.
THEOREM TerminalIsShown ==
  \A s \in CaseState : ShownTerminal(s) <=> s \in TERMINAL_CASE_STATES
BY DEF CaseState, ShownTerminal, EXCEPTION_STATES, TERMINAL_CASE_STATES

\* A legal move along the line goes on to the next step at most, and back only
\* by a rejected offer, to the step of the offer letter.
THEOREM LineAdvancesByStep ==
  \A s, t \in CaseState, k, l \in EIGHT_STEPS :
    LegalMove(s, t) /\ AtStep(s, k) /\ AtStep(t, l) =>
      l \in {k, k + 1} \/ (t = "OFFER_REJECTED" /\ k = 4 /\ l = 3)
BY DEF LegalMove, TRANSITIONS, NormalRows, RestartRows, WaiverRows, Row, PreApproval,
       AtStep, STATE_TO_STEP, EIGHT_STEPS

-----------------------------------------------------------------------------

\* Every step from the second on that the page draws as done has been taken: the
\* case has been in a state of that step.  (A sweep opens cases at the second.)
DoneStepsHappened ==
  \A c \in Case : Exists(c) =>
    \A k \in 2..8 : StepDone(state[c], k) => \E s \in Entered(c) : AtStep(s, k)

\* What must come before a state gives every step drawn as done by then.
LEMMA ClosureGivesSteps ==
  ASSUME NEW E, NEW s \in E, \A m \in MUST_FOLLOW : m[1] \in E => m[2] \in E,
         NEW k \in 2..8, StepDone(s, k)
  PROVE  \E t \in E : AtStep(t, k)
BY DEF MUST_FOLLOW, StepDone, ShownTerminal, EXCEPTION_STATES, AtStep, STATE_TO_STEP, EIGHT_STEPS

\* However calls overlap, the student's home page claims no step that was not
\* taken.
THEOREM ProgressLineIsTrue == Spec => []DoneStepsHappened
<1>1. IInv => DoneStepsHappened
  <2> SUFFICES ASSUME IInv, NEW c \in Case, Exists(c), NEW k \in 2..8, StepDone(state[c], k)
               PROVE  \E s \in Entered(c) : AtStep(s, k)
    BY DEF DoneStepsHappened
  <2>1. state[c] \in Entered(c)
    BY DEF Entered
  <2>2. \A m \in MUST_FOLLOW : m[1] \in Entered(c) => m[2] \in Entered(c)
    BY DEF IInv, NoStageSkipped
  <2> QED
    BY <2>1, <2>2, ClosureGivesSteps
<1> QED
  BY <1>1, Invariance, PTL
================================================================================
