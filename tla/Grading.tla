-------------------------------- MODULE Grading --------------------------------
(***************************************************************************)
(* The end of the normal path, src/server/grading/service.ts: the Focal    *)
(* Person recommends, the HoD awards and the case closes, the Dean may add  *)
(* a reversal.  recommendGrade() writes the recommendation before the       *)
(* transition, awardGrade() the Grade row after it, each on its own.        *)
(***************************************************************************)
EXTENDS CaseExecutor

ASSUME GradingLabelsOK == {"recommend:decide", "award:decide", "award:grade"} \subseteq Label

VARIABLES
  recommendation,   \* cases.recommended_grade_value and recommended_by
  grades,           \* grades by case_id, which is unique
  reversals         \* grade_reversals: <<case, dean>>

gradingVars == <<recommendation, grades, reversals>>

GradeValue == {"P", "I"}

NoRecommendation == [by |-> System]
Recommendation == [value : GradeValue, by : User]

NoGrade == [awardedBy |-> System]
Grade == [value : GradeValue, recommendedBy : User, awardedBy : User]

TargetState(value) == IF value = "P" THEN "CLOSED_PASS" ELSE "CLOSED_INCOMPLETE"

RecommendGrade(r, c, u, value) ==
  /\ Accepts(r, c)
  /\ Holds(u, "FOCAL")
  /\ recommendation' = [recommendation EXCEPT ![c] = [value |-> value, by |-> u]]
  /\ Await(r, "recommend:decide", [kase |-> c, user |-> u])
  /\ UNCHANGED <<state, history, grades, reversals>>

RecommendDecide(r) ==
  /\ At(r, "recommend:decide")
  /\ TransitionOrFail(r, frame[r].kase, "GRADE_RECOMMENDED", frame[r].user, TRUE, {}, "idle")
  /\ UNCHANGED gradingVars

\* awardGrade() takes recommended_by as it is now; the HoD's value need not be
\* the recommended one.
AwardGrade(r, c, u, value) ==
  /\ Accepts(r, c)
  /\ Holds(u, "HOD")
  /\ recommendation[c] # NoRecommendation
  /\ Await(r, "award:decide", [kase |-> c, user |-> u, value |-> value,
                               recommendedBy |-> recommendation[c].by])
  /\ UNCHANGED <<state, history, gradingVars>>

AwardDecideUnguarded(r) ==
  LET f == frame[r] IN
  /\ At(r, "award:decide")
  /\ TransitionOrFail(r, f.kase, TargetState(f.value), f.user, TRUE,
                      {"recommenderNotAwarder"}, "award:grade")
  /\ UNCHANGED gradingVars
\* With a reason: without one a pass goes the same way and the rest is denied.
AwardDecide(r) ==
  LET f == frame[r] IN
  /\ At(r, "award:decide")
  /\ TransitionOrFail(r, f.kase, TargetState(f.value), f.user, TRUE,
                      IF f.user # f.recommendedBy THEN {"recommenderNotAwarder"} ELSE {},
                      "award:grade")
  /\ UNCHANGED gradingVars

\* grades_case_id is unique and grades_recommender_not_awarder a CHECK: the
\* INSERT that violates either fails, and the case stays closed.
AwardCreateGradeUpsert(r) ==
  LET f == frame[r] IN
  /\ At(r, "award:grade")
  /\ grades' = [grades EXCEPT ![f.kase] = [value |-> f.value,
                                           recommendedBy |-> f.recommendedBy,
                                           awardedBy |-> f.user]]
  /\ Respond(r)
  /\ UNCHANGED <<state, history, recommendation, reversals>>
AwardCreateGradeAsRecommended(r) ==
  LET f == frame[r] IN
  /\ At(r, "award:grade")
  /\ grades' = IF grades[f.kase] = NoGrade /\ f.recommendedBy # f.user
               THEN [grades EXCEPT ![f.kase] = [value |-> recommendation[f.kase].value,
                                                recommendedBy |-> f.recommendedBy,
                                                awardedBy |-> f.user]]
               ELSE grades
  /\ Respond(r)
  /\ UNCHANGED <<state, history, recommendation, reversals>>
AwardCreateGrade(r) ==
  LET f == frame[r] IN
  /\ At(r, "award:grade")
  /\ grades' = IF grades[f.kase] = NoGrade /\ f.recommendedBy # f.user
               THEN [grades EXCEPT ![f.kase] = [value |-> f.value,
                                                recommendedBy |-> f.recommendedBy,
                                                awardedBy |-> f.user]]
               ELSE grades
  /\ Respond(r)
  /\ UNCHANGED <<state, history, recommendation, reversals>>

\* reverseGrade(): one INSERT, nothing else.
ReverseGrade(r, c, u) ==
  /\ pc[r] = "idle"
  /\ Holds(u, "DEAN")
  /\ grades[c] # NoGrade
  /\ reversals' = reversals \cup {<<c, u>>}
  /\ UNCHANGED <<coreVars, recommendation, grades>>

-----------------------------------------------------------------------------

\* What people start; nobody has to.
GradingRequest(r) ==
  \E c \in Case, u \in User :
    \/ \E value \in GradeValue : RecommendGrade(r, c, u, value) \/ AwardGrade(r, c, u, value)
    \/ ReverseGrade(r, c, u)

\* What the server does next in a request it has accepted.
GradingStep(r) == RecommendDecide(r) \/ AwardDecide(r) \/ AwardCreateGrade(r)

GradingInit == /\ recommendation = [c \in Case |-> NoRecommendation]
               /\ grades = [c \in Case |-> NoGrade]
               /\ reversals = {}

gradingPathVars == <<coreVars, gradingVars>>

GradingServer(r) ==
  \/ GradingStep(r)
  \/ ExecutorStep(r) /\ UNCHANGED gradingVars

GradingNext == \E r \in Request : GradingRequest(r) \/ GradingServer(r)

\* Node keeps running the continuations of a request it has accepted.
GradingFairness == \A r \in Request : WF_gradingPathVars(GradingServer(r))

-----------------------------------------------------------------------------
(* Properties.                                                             *)

\* Every table keeps its type.
GradingTypeOK ==
  /\ TypeOK
  /\ recommendation \in [Case -> Recommendation \cup {NoRecommendation}]
  /\ grades \in [Case -> Grade \cup {NoGrade}]
  /\ reversals \subseteq Case \X User

\* awardGrade(), "runs *before* the Grade row is created, deliberately": a grade
\* is never orphaned.  Its case was closed with that value by its awarder, whom
\* the table admits, on the recommendation of somebody else who had made one.
GradeBacksClosure ==
  \A c \in Case : grades[c] # NoGrade =>
    /\ \E i \in DOMAIN history[c] :
         /\ history[c][i].to = TargetState(grades[c].value)
         /\ history[c][i].actor = grades[c].awardedBy
    /\ "FOCAL" \in RolesOf[grades[c].recommendedBy]
    /\ grades[c].recommendedBy # grades[c].awardedBy

\* BR-14: once written a grade is never written again, whoever else is awarding
\* one or has found the case closed differently; and a reversal is of a grade.
GradesAreImmutable ==
  [][/\ \A c \in Case : grades[c] # NoGrade => grades'[c] = grades[c]
     /\ \A v \in reversals' : grades[v[1]] # NoGrade]_<<grades, reversals>>

\* Request r has closed c and is about to write its grade.
GradeIsComing(r, c) ==
  /\ frame[r].kase = c
  /\ At(r, "award:grade") \/ (pc[r] = "committed" /\ tx[r].next = "award:grade")

\* awardGrade()'s INSERT is never lost: while no process dies, a case that was
\* ever closed has its grade, or a request that is about to write it, whatever
\* the table's CHECK and other awards of the same case refuse.
ClosuresAreBeingGraded ==
  \A c \in Case :
    Entered(c) \cap {"CLOSED_PASS", "CLOSED_INCOMPLETE"} # {} =>
      grades[c] # NoGrade \/ \E r \in Request : GradeIsComing(r, c)

\* A case that closes gets its grade, while no process dies between the two.
ClosureGetsGrade ==
  \A c \in Case : Entered(c) \cap {"CLOSED_PASS", "CLOSED_INCOMPLETE"} # {} ~> grades[c] # NoGrade

\* A grade that contradicts its case is never silent: of a case whose events
\* chain, and which is closed, the grade is the one it was closed with, although
\* the row is written after the closure, by a request that may be overtaken by
\* another award or by another recommendation.
DisagreementShowsInEvents ==
  \A c \in Case :
    /\ EventsChain(c) /\ grades[c] # NoGrade
    /\ state[c] \in {"CLOSED_PASS", "CLOSED_INCOMPLETE"}
    => state[c] = TargetState(grades[c].value)

\* M09: the state a case is closed in is the one its grade stands for.
GradeAgreesWithState ==
  \A c \in Case :
    grades[c] # NoGrade /\ state[c] \in {"CLOSED_PASS", "CLOSED_INCOMPLETE"}
      => state[c] = TargetState(grades[c].value)

\* BR-15: a passed case stays passed.
ClosedPassIsFinal ==
  [][\A c \in Case : state[c] = "CLOSED_PASS" => state'[c] = "CLOSED_PASS"]_state

\* BR-12: no account both recommends and awards on one case, by its events.
RecommenderIsNotAwarder ==
  \A c \in Case : \A i, j \in DOMAIN history[c] :
    /\ history[c][i].to = "GRADE_RECOMMENDED"
    /\ history[c][j].to \in {"CLOSED_PASS", "CLOSED_INCOMPLETE"}
    => history[c][i].actor # history[c][j].actor
================================================================================
