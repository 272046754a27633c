-------------------------- MODULE OrderedEventsProofs --------------------------
(***************************************************************************)
(* What the case_events of a case give away.  The executor writes the state *)
(* without asking whether it is still the one the call has read, so a pass   *)
(* may be reopened, a grade contradict its case, and a completed internship  *)
(* begin again.  None of this is silent: behind it is an event that does not *)
(* start where the one before it ended, or that leads back.  A case whose    *)
(* events show no such thing has what BR-15, M09 and BR-10 promise, however  *)
(* requests overlap and wherever they die.                                 *)
(*                                                                         *)
(* The argument.  If the events still chain after a commit, the call had     *)
(* read the state the case was in (ChainedCommit); the table has no way back *)
(* from a closed case to a recommended one, so the case closes once          *)
(* (ClosedInOrder), and a grade, whose closure is among the events, is a     *)
(* grade of that one.                                                      *)
(***************************************************************************)
EXTENDS AnyCallerProofs, NormalPathProofs

\* Where the table leads from a closed case.
AfterClosure ==
  ClosedStates \cup {"RESTART_REQUESTED", "RESTART_AUTHORIZED", "RESTART_DENIED"}

\* A case that was ever closed was closed in one way, and is past its grading.
ClosedOnce(c) ==
  /\ Entered(c) \cap ClosedStates # {} => state[c] \in AfterClosure
  /\ ~(ClosedStates \subseteq Entered(c))

\* So it is with every case whose events chain.
ClosedInOrder == \A c \in Case : EventsChain(c) => ClosedOnce(c)

\* A case that leaves CLOSED_PASS shows it.
ReopeningShows ==
  \A c \in Case : state[c] = "CLOSED_PASS" /\ state'[c] # "CLOSED_PASS" => ~EventsChain(c)'

-----------------------------------------------------------------------------
(* Lemmas about the table.                                                 *)

\* A closed case has left grading for good, and no row leaves a pass.
LEMMA NoWayBack ==
  ASSUME NEW s, NEW t, LegalMove(s, t)
  PROVE  /\ s \in AfterClosure => t \in AfterClosure \ ClosedStates
         /\ t \in ClosedStates => s = "GRADE_RECOMMENDED"
         /\ s # "CLOSED_PASS"
BY DEF LegalMove, TRANSITIONS, NormalRows, RestartRows, WaiverRows, Row, PreApproval,
       AfterClosure, ClosedStates

-----------------------------------------------------------------------------
(* The steps.  No table changes, or a row is inserted, or a call commits.   *)

LEMMA QuietInOrder ==
  ASSUME IInv, ClosedInOrder, UNCHANGED <<state, history>>
  PROVE  ClosedInOrder' /\ ReopeningShows
<1>1. \A c \in Case : Entered(c)' = Entered(c)
  BY TablesKeepInv
<1>2. \A c \in Case : EventsChain(c)' <=> EventsChain(c)
  BY DEF EventsChain
<1> QED
  BY <1>1, <1>2 DEF ClosedInOrder, ClosedOnce, ReopeningShows

\* The row that is inserted is not closed.
LEMMA InsertInOrder ==
  ASSUME IInv, ClosedInOrder, NEW c \in Case, NEW s \in GENESIS_STATES,
         InsertCase(c, s), UNCHANGED history
  PROVE  ClosedInOrder' /\ ReopeningShows
<1>1. /\ ~Exists(c)
      /\ state'[c] = s /\ \A d \in Case \ {c} : state'[d] = state[d]
      /\ Entered(c)' = {s} /\ \A d \in Case \ {c} : Entered(d)' = Entered(d)
  BY InsertEnters
<1>2. \A d \in Case : EventsChain(d)' <=> EventsChain(d)
  BY DEF EventsChain
<1>3. {s} \cap ClosedStates = {} /\ ~(ClosedStates \subseteq {s})
  BY DEF GENESIS_STATES, ClosedStates
<1>4. ClosedInOrder'
  BY <1>1, <1>2, <1>3 DEF ClosedInOrder, ClosedOnce
<1>5. ReopeningShows
  BY <1>1, ConstantsOK DEF ReopeningShows, Exists, CaseState
<1> QED
  BY <1>4, <1>5

\* If the events of its case chain after a commit, they did before, and the call
\* had read the state the case was in.
LEMMA ChainedCommit ==
  ASSUME IInv, NEW r \in Request, CommitTransition(r),
         NEW k \in Case, tx[r].kase = k, EventsChain(k)'
  PROVE  EventsChain(k) /\ LegalMove(state[k], tx[r].to)
<1>1. PICK t : t = tx[r] /\ t.kase = k
  OBVIOUS
<1>2. PICK n : n = Len(history[k])
  OBVIOUS
<1>3. /\ t \in InFlight /\ Exists(k)
      /\ n \in Nat
      /\ DOMAIN history[k] = 1..n
      /\ DOMAIN history'[k] = 1..(n + 1)
      /\ history'[k][n + 1] = EventOf(t)
      /\ \A i \in 1..n : history'[k][i] = history[k][i]
  BY <1>1, <1>2, CommitWrites DEF IInv, InFlight
<1>4. \A i \in 1..(n + 1) : i > 1 => history'[k][i].from = history'[k][i - 1].to
  BY <1>1, <1>3 DEF EventsChain
<1>5. EventsChain(k)
  <2> SUFFICES ASSUME NEW i \in 1..n, i > 1
               PROVE  history[k][i].from = history[k][i - 1].to
    BY <1>3 DEF EventsChain
  <2>1. i \in 1..(n + 1) /\ i - 1 \in 1..n
    BY <1>3
  <2> QED
    BY <1>3, <1>4, <2>1
<1>6. t.from = state[k]
  <2>1. t.from \in Entered(k)
    BY <1>1 DEF CommitTransition, IInv, CallsInFlight
  <2>2. CASE n = 0
    <3>1. history[k] = <<>>
      <4>1. history[k] \in Seq(Event) /\ Len(history[k]) = 0
        BY <1>2, <2>2 DEF IInv, TypeOK
      <4> QED
        BY <4>1
    <3> QED
      BY <1>3, <2>1, <2>2, <3>1 DEF Entered, Origin
  <2>3. CASE n # 0
    <3>1. n + 1 \in 1..(n + 1) /\ n + 1 > 1 /\ (n + 1) - 1 = n /\ n \in 1..n
      BY <1>3, <2>3
    <3>2. EventOf(t).from = history[k][n].to
      BY <1>3, <1>4, <3>1
    <3>3. history[k] # <<>>
      BY <1>2, <2>3
    <3>4. state[k] = history[k][n].to
      BY <1>2, <1>3, <3>3 DEF IInv, HistoryExplainsState
    <3> QED
      BY <3>2, <3>4 DEF EventOf
  <2> QED
    BY <2>2, <2>3
<1>7. LegalMove(state[k], t.to)
  <2>1. Permitted(EventOf(t))
    BY <1>1 DEF CommitTransition, IInv, CallsInFlight
  <2> QED
    BY <1>6, <2>1 DEF Permitted, EventOf, LegalMove
<1> QED
  BY <1>1, <1>5, <1>7

LEMMA CommitInOrder ==
  ASSUME IInv, ClosedInOrder, NEW r \in Request, CommitTransition(r)
  PROVE  ClosedInOrder' /\ ReopeningShows
<1>1. PICK t, k : t = tx[r] /\ k = t.kase
  OBVIOUS
<1>2. /\ k \in Case
      /\ state'[k] = t.to
      /\ \A d \in Case \ {k} : state'[d] = state[d] /\ history'[d] = history[d]
  BY <1>1, CommitWrites DEF IInv, InFlight
<1>3. \A d \in Case : Entered(d)' = IF d = k THEN Entered(d) \cup {t.to} ELSE Entered(d)
  BY <1>1, CommitEnters, CoreFollows DEF CoreInv
<1>4. \A d \in Case \ {k} : EventsChain(d)' <=> EventsChain(d)
  BY <1>2 DEF EventsChain
<1>5. ASSUME EventsChain(k)'
      PROVE  /\ ClosedOnce(k)
             /\ state[k] \in AfterClosure => t.to \in AfterClosure \ ClosedStates
             /\ t.to \in ClosedStates => state[k] = "GRADE_RECOMMENDED"
             /\ state[k] # "CLOSED_PASS"
  <2>1. EventsChain(k) /\ LegalMove(state[k], t.to)
    BY <1>1, <1>2, <1>5, ChainedCommit
  <2> QED
    BY <1>2, <2>1, NoWayBack DEF ClosedInOrder
<1>6. ASSUME EventsChain(k)'
      PROVE  ClosedOnce(k)'
  <2>1. CASE t.to \in ClosedStates
    <3>1. Entered(k) \cap ClosedStates = {}
      BY <1>5, <1>6, <2>1 DEF ClosedOnce, AfterClosure, ClosedStates
    <3>2. Entered(k)' \cap ClosedStates = {t.to} /\ state'[k] \in AfterClosure
      BY <1>2, <1>3, <2>1, <3>1 DEF AfterClosure
    <3>3. ~(ClosedStates \subseteq Entered(k)')
      BY <3>2 DEF ClosedStates
    <3> QED
      BY <3>2, <3>3 DEF ClosedOnce
  <2>2. CASE t.to \notin ClosedStates
    <3>1. Entered(k)' \cap ClosedStates = Entered(k) \cap ClosedStates
      BY <1>2, <1>3, <2>2
    <3>2. ~(ClosedStates \subseteq Entered(k)')
      BY <1>5, <1>6, <3>1 DEF ClosedOnce
    <3>3. Entered(k)' \cap ClosedStates # {} => state'[k] \in AfterClosure
      BY <1>2, <1>5, <1>6, <3>1 DEF ClosedOnce
    <3> QED
      BY <3>2, <3>3 DEF ClosedOnce
  <2> QED
    BY <2>1, <2>2
<1>7. ClosedInOrder'
  BY <1>2, <1>3, <1>4, <1>6 DEF ClosedInOrder, ClosedOnce
<1>8. ReopeningShows
  BY <1>2, <1>5 DEF ReopeningShows
<1> QED
  BY <1>7, <1>8

\* The executor's own steps, and the death of a request.
LEMMA ExecutorInOrder ==
  ASSUME IInv, ClosedInOrder, NEW r \in Request, ExecutorStep(r) \/ Crash(r)
  PROVE  ClosedInOrder' /\ ReopeningShows
<1>1. CASE AbortTransition(r) \/ ReturnFromTransition(r) \/ Crash(r)
  <2>1. UNCHANGED <<state, history>>
    BY <1>1 DEF AbortTransition, ReturnFromTransition, Crash
  <2> QED
    BY <2>1, QuietInOrder
<1> QED
  BY <1>1, CommitInOrder DEF ExecutorStep

-----------------------------------------------------------------------------
(* Every step of the executor's callers.                                   *)

\* Anybody's.
LEMMA AnyStepInOrder ==
  ASSUME IInv, ClosedInOrder, [Next]_coreVars
  PROVE  ClosedInOrder' /\ ReopeningShows
<1>1. ASSUME NEW c \in Case, Create(c)
      PROVE  ClosedInOrder' /\ ReopeningShows
  BY <1>1, InsertInOrder DEF Create
<1>2. ASSUME NEW r \in Request, Call(r)
      PROVE  ClosedInOrder' /\ ReopeningShows
  BY <1>2, QuietInOrder DEF Call, BeginTransition
<1>3. CASE \E r \in Request : ExecutorStep(r) \/ Crash(r)
  BY <1>3, ExecutorInOrder
<1>4. CASE UNCHANGED coreVars
  BY <1>4, QuietInOrder DEF coreVars
<1> QED
  BY <1>1, <1>2, <1>3, <1>4 DEF Next

\* The services'.
LEMMA NormalPathStepInOrder ==
  ASSUME IInv, ClosedInOrder, [NormalPathNext]_normalPathVars
  PROVE  ClosedInOrder'
<1>1. ASSUME NEW r \in Request, OpenCreate(r)
      PROVE  ClosedInOrder'
  <2>1. "ELIGIBILITY_PENDING" \in GENESIS_STATES
    BY DEF GENESIS_STATES
  <2>2. \/ \E c \in Case : InsertCase(c, "ELIGIBILITY_PENDING")
        \/ UNCHANGED state
    BY <1>1 DEF OpenCreate
  <2>3. UNCHANGED history
    BY <1>1 DEF OpenCreate
  <2> QED
    BY <2>1, <2>2, <2>3, InsertInOrder, QuietInOrder
<1>2. ASSUME NEW r \in Request, OfferRequest(r) \/ (OfferStep(r) /\ ~OpenCreate(r))
      PROVE  UNCHANGED <<state, history>>
  BY <1>2 DEF OfferRequest, OfferStep, OpenCase, WithdrawCase, SubmitOffer, ApproveOffer,
         RejectOffer, OpenConfirm, OfferStore, OfferDetails, OfferSubmit, OfferQueue,
         ApproveDecide, ApproveStart, BeginTransition, TransitionOrFail
<1>3. ASSUME NEW r \in Request, DeliverableRequest(r) \/ DeliverableStep(r)
      PROVE  UNCHANGED <<state, history>>
  BY <1>3 DEF DeliverableRequest, DeliverableStep, CompleteInternship, UploadCertificate,
         IssueToken, SubmitEvaluation, VerifyDocument, MarkVerified, CompleteDecide,
         CertificateScan, CertificateStore, TokenRevoke, TokenCreate, EvaluationStore,
         AdvanceFacts, AdvanceMove, VerifyCreate, MarkRead, MarkDecide,
         BeginTransition, TransitionOrFail
<1>4. ASSUME NEW r \in Request, GradingRequest(r) \/ GradingStep(r)
      PROVE  UNCHANGED <<state, history>>
  BY <1>4 DEF GradingRequest, GradingStep, RecommendGrade, AwardGrade, ReverseGrade,
         RecommendDecide, AwardDecide, AwardCreateGrade, BeginTransition, TransitionOrFail,
         coreVars
<1>5. ASSUME NEW r \in Request, RequestOf(r) \/ ServerOf(r)
      PROVE  ClosedInOrder'
  BY <1>1, <1>2, <1>3, <1>4, <1>5, QuietInOrder, ExecutorInOrder
     DEF RequestOf, ServerOf, StepOf
<1>6. CASE UNCHANGED normalPathVars
  BY <1>6, QuietInOrder DEF normalPathVars, coreVars
<1> QED
  BY <1>5, <1>6 DEF NormalPathNext

-----------------------------------------------------------------------------
(* The theorems.                                                           *)

\* Nothing is closed before the first request.
LEMMA NothingClosed == CoreInit => ClosedInOrder
BY DEF CoreInit, ClosedInOrder, ClosedOnce, ClosedStates, Entered, Exists

\* BR-15, for anybody's calls, which overlap as they like and die anywhere: a
\* case that was closed both ways, or closed and graded again, has events that do
\* not chain, and so has a passed case from the commit that reopens it.
THEOREM ReopeningsAreOnRecord ==
  Spec => []ClosedInOrder /\ [][ReopeningShows]_state
<1>1. IInv /\ ClosedInOrder /\ [Next]_coreVars => ClosedInOrder' /\ [ReopeningShows]_state
  BY AnyStepInOrder
<1> QED
  BY <1>1, NothingClosed, Invariance, PTL DEF Spec

\* The invariant of the normal path grows by how a case is closed.
THEOREM NormalPathClosesInOrder == NormalPathSpec => []ClosedInOrder
<1>1. NormalPathInit => ClosedInOrder
  BY NothingClosed DEF NormalPathInit
<1>2. NormalPathInv /\ ClosedInOrder /\ [NormalPathNext]_normalPathVars => ClosedInOrder'
  BY NormalPathStepInOrder DEF NormalPathInv
<1> QED
  BY <1>1, <1>2, NormalPathIsSafe, PTL DEF NormalPathSpec

\* M09, as far as the code goes: whichever awards overlap, a grade contradicts the
\* state its case is closed in only if the events of that case do not chain.
THEOREM GradeDisagreementsAreOnRecord == NormalPathSpec => []DisagreementShowsInEvents
<1>1. NormalPathInv /\ ClosedInOrder => DisagreementShowsInEvents
  <2> SUFFICES ASSUME NormalPathInv, ClosedInOrder, NEW c \in Case, EventsChain(c),
                      grades[c] # NoGrade, state[c] \in ClosedStates
               PROVE  state[c] = TargetState(grades[c].value)
    BY DEF DisagreementShowsInEvents, ClosedStates
  <2>1. PICK i \in DOMAIN history[c] : history[c][i].to = TargetState(grades[c].value)
    BY DEF NormalPathInv, TablesOK, GradeBacksClosure
  <2>2. Exists(c)
    BY ConstantsOK DEF Exists, ClosedStates, CaseState
  <2>3. TargetState(grades[c].value) \in Entered(c) /\ state[c] \in Entered(c)
    BY <2>1, <2>2 DEF Entered
  <2>4. TargetState(grades[c].value) \in ClosedStates
    BY DEF TargetState, ClosedStates
  <2> QED
    BY <2>3, <2>4 DEF ClosedInOrder, ClosedOnce, ClosedStates
<1> QED
  BY <1>1, NormalPathIsSafe, NormalPathClosesInOrder, PTL


-----------------------------------------------------------------------------
(* While no process dies: complete evidence is in somebody's hands.  A       *)
(* second approval that overlaps the first and is suspended long enough      *)
(* commits APPROVED -> IN_PROGRESS once more when the last evidence arrives:  *)
(* the advance is denied, the student completes the internship again, and    *)
(* nothing is left to wake the case up.  Its events show that it was set     *)
(* back; every other completed internship is waited for, those included that *)
(* were completed twice by requests that overlap.                           *)

\* Where the table leads from a completed internship.
AfterCompletion ==
  AfterClosure \cup {"DOCS_PENDING", "PENDING_VERIFICATION", "VERIFIED", "GRADE_RECOMMENDED"}

\* No event leads c back to before its internship was completed.
NotSetBack(c) ==
  \A i, j \in DOMAIN history[c] :
    i < j /\ history[c][i].to = "DOCS_PENDING" => history[c][j].to \in AfterCompletion

\* The evidence of c is complete, and c has yet to go on with it.
Waits(c) ==
  /\ NotSetBack(c)
  /\ state[c] = "DOCS_PENDING" /\ DeliverablesPresent(c) /\ "PENDING_VERIFICATION" \notin Entered(c)

WaitingCasesAreHeld == \A c \in Case : NotSetBack(c) => EvidenceIsHeld(c)

\* A case that was not set back is where the table leads from completion.
LEMMA StaysCompleted ==
  ASSUME IInv, NEW c \in Case, NotSetBack(c), WasCompleted(c)
  PROVE  state[c] \in AfterCompletion
<1>1. Exists(c)
  BY DEF WasCompleted, Entered
<1>2. CASE history[c] = <<>>
  <2>1. Entered(c) = {state[c]}
    BY <1>1, <1>2 DEF Entered, Origin
  <2> QED
    BY <2>1 DEF WasCompleted, AfterCompletion
<1>3. CASE history[c] # <<>>
  <2>1. PICK n : n = Len(history[c])
    OBVIOUS
  <2>2. n \in Nat /\ n > 0 /\ DOMAIN history[c] = 1..n /\ state[c] = history[c][n].to
    BY <1>3, <2>1 DEF IInv, TypeOK, HistoryExplainsState
  <2>3. Origin(c) # "DOCS_PENDING"
    BY <1>1 DEF IInv, HistoryExplainsState, GENESIS_STATES
  <2>4. CASE state[c] = "DOCS_PENDING"
    BY <2>4 DEF AfterCompletion
  <2>5. CASE state[c] # "DOCS_PENDING"
    <3>1. PICK i \in 1..n : history[c][i].to = "DOCS_PENDING"
      BY <1>1, <2>2, <2>3, <2>5 DEF WasCompleted, Entered
    <3>2. i < n /\ n \in 1..n
      BY <2>2, <2>5, <3>1
    <3> QED
      BY <2>2, <3>1, <3>2 DEF NotSetBack
  <2> QED
    BY <2>4, <2>5
<1> QED
  BY <1>2, <1>3

\* Having been set back is for good.
LEMMA SetBackForGood ==
  ASSUME Grows, NEW c \in Case, NotSetBack(c)'
  PROVE  NotSetBack(c)
<1> SUFFICES ASSUME NEW i \in DOMAIN history[c], NEW j \in DOMAIN history[c],
                    i < j, history[c][i].to = "DOCS_PENDING"
             PROVE  history[c][j].to \in AfterCompletion
  BY DEF NotSetBack
<1>1. /\ i \in DOMAIN history'[c] /\ history'[c][i] = history[c][i]
      /\ j \in DOMAIN history'[c] /\ history'[c][j] = history[c][j]
  BY DEF Grows
<1> QED
  BY <1>1 DEF NotSetBack, AfterCompletion

\* After r's step, a case whose evidence is complete is in r's hands, or was
\* complete and not in them before.
LeavesNothing(r) ==
  \A c \in Case : Waits(c)' =>
    \/ IsAdvancing(r, c)'
    \/ state[c] = "DOCS_PENDING" /\ DeliverablesPresent(c) /\ ~IsAdvancing(r, c)

\* Then it is in the hands of somebody.
LEMMA OthersKeepAdvancing ==
  ASSUME Grows, WaitingCasesAreHeld, NEW r \in Request, OnlyRuns(r), LeavesNothing(r)
  PROVE  WaitingCasesAreHeld'
<1> SUFFICES ASSUME NEW c \in Case, Waits(c)'
             PROVE  \E q \in Request : IsAdvancing(q, c)'
  BY DEF WaitingCasesAreHeld, EvidenceIsHeld, Waits
<1>1. CASE IsAdvancing(r, c)'
  BY <1>1
<1>2. CASE state[c] = "DOCS_PENDING" /\ DeliverablesPresent(c) /\ ~IsAdvancing(r, c)
  <2>1. "PENDING_VERIFICATION" \notin Entered(c) /\ NotSetBack(c)
    BY SetBackForGood DEF Grows, Waits
  <2>2. PICK q \in Request : IsAdvancing(q, c)
    BY <1>2, <2>1 DEF WaitingCasesAreHeld, EvidenceIsHeld
  <2>3. q # r
    BY <1>2, <2>2
  <2>4. IsAdvancing(q, c)'
    BY <2>2, <2>3 DEF IsAdvancing, OnlyRuns, At
  <2> QED
    BY <2>4
<1> QED
  BY <1>1, <1>2 DEF LeavesNothing


AdvanceLabel == {"advance:facts", "advance:move", "commit"}

\* A request that has no case to advance leaves nothing, if it brings no piece
\* of evidence and moves no case to where evidence is waited for.
LEMMA QuietLeaves ==
  ASSUME NEW r \in Request, pc[r] \notin AdvanceLabel,
         \A c \in Case : state'[c] = "DOCS_PENDING" => state[c] = "DOCS_PENDING",
         UNCHANGED <<documents, tokens>>
  PROVE  LeavesNothing(r)
<1>1. \A c : DeliverablesPresent(c)' <=> DeliverablesPresent(c)
  BY DEF DeliverablesPresent, HasActive, ActiveDocuments, Evaluated
<1>2. \A c : ~IsAdvancing(r, c)
  BY DEF IsAdvancing, At, AdvanceLabel
<1> QED
  BY <1>1, <1>2 DEF LeavesNothing, Waits

\* A request that calls the executor runs alone, and no case moves yet.
LEMMA CallRuns ==
  ASSUME TypeOK, DOMAIN frame = Request, NEW r \in Request,
         NEW c, NEW to, NEW actor, NEW reason, NEW ctx, NEW next,
         TransitionOrFail(r, c, to, actor, reason, ctx, next)
  PROVE  OnlyRuns(r) /\ UNCHANGED <<state, history>>
<1>1. CASE BeginTransition(r, c, to, actor, reason, ctx, next) /\ UNCHANGED frame
  BY <1>1, BeginRuns DEF BeginTransition
<1>2. CASE Respond(r) /\ UNCHANGED <<state, history>>
  BY <1>2, RespondRuns
<1> QED
  BY <1>1, <1>2 DEF TransitionOrFail

\* The offer services: a letter that is stored for a completed internship
\* replaces one.
LEMMA OfferLeaves ==
  ASSUME NormalPathInv, NEW r \in Request, OfferRequest(r) \/ OfferStep(r),
         UNCHANGED <<deliverableVars, gradingVars>>
  PROVE  OnlyRuns(r) /\ LeavesNothing(r)
<1>1. IInv /\ TypeOK /\ DOMAIN frame = Request
  BY DEF NormalPathInv, IInv, RequestsOK
<1>2. UNCHANGED <<tokens, grades>>
  BY DEF deliverableVars, gradingVars
<1>3. CASE OfferRequest(r) \/ OfferDetails(r) \/ OfferSubmit(r) \/ ApproveDecide(r)
  <2>1. EmptyHanded(r)
    BY <1>1, <1>2, <1>3, OfferEmptyHanded
  <2>2. pc[r] \notin AdvanceLabel /\ UNCHANGED documents
    BY <1>3 DEF OfferRequest, OpenCase, WithdrawCase, SubmitOffer, ApproveOffer, RejectOffer,
           Accepts, OfferDetails, OfferSubmit, ApproveDecide, At, AdvanceLabel
  <2> QED
    BY <1>2, <2>1, <2>2, QuietLeaves DEF EmptyHanded
<1>4. CASE OpenConfirm(r) \/ OfferQueue(r) \/ ApproveStart(r)
  <2>1. OnlyRuns(r) /\ UNCHANGED state
    BY <1>1, <1>4, CallRuns DEF OpenConfirm, OfferQueue, ApproveStart
  <2>2. pc[r] \notin AdvanceLabel /\ UNCHANGED documents
    BY <1>4 DEF OpenConfirm, OfferQueue, ApproveStart, At, AdvanceLabel
  <2> QED
    BY <1>2, <2>1, <2>2, QuietLeaves
<1>5. CASE OpenCreate(r)
  <2>1. pc[r] \notin AdvanceLabel /\ UNCHANGED <<documents, history>>
    BY <1>5 DEF OpenCreate, At, AdvanceLabel
  <2>2. OnlyRuns(r)
    <3>1. \A f : Await(r, "open:confirm", f) => OnlyRuns(r)
      BY <1>1, AwaitRuns
    <3> QED
      BY <1>1, <1>5, <3>1, RespondRuns DEF OpenCreate
  <2>3. ASSUME NEW c \in Case, state'[c] = "DOCS_PENDING"
        PROVE  state[c] = "DOCS_PENDING"
    BY <1>1, <1>5, <2>3 DEF OpenCreate, InsertCase, TypeOK
  <2> QED
    BY <1>2, <2>1, <2>2, <2>3, QuietLeaves
<1>6. CASE OfferStore(r)
  <2>1. PICK f : f = frame[r]
    OBVIOUS
  <2>2. /\ pc[r] = "offer:store" /\ OnlyRuns(r) /\ UNCHANGED state
        /\ CommitStore(f.kase, "OFFER_LETTER", f.replaced)
    <3>1. \A g : Await(r, "offer:details", g) => OnlyRuns(r)
      BY <1>1, AwaitRuns
    <3> QED
      BY <1>6, <2>1, <3>1 DEF OfferStore, At
  <2>3. f.kase \in Case /\ OwnRows(f.replaced, f.kase, "OFFER_LETTER")
    BY <2>1, <2>2, FrameOf DEF FrameOK, CaseLabel
  <2>4. \A d, other : HasActive(d, other)' =>
          HasActive(d, other) \/ (d = f.kase /\ other = "OFFER_LETTER")
    BY <2>2, <2>3, StoreFacts DEF NormalPathInv, TablesOK, OfferTypeOK, DocumentType
  <2>5. \A d : Evaluated(d)' <=> Evaluated(d)
    BY <1>2 DEF Evaluated
  <2>6. ASSUME NEW c \in Case, state[c] = "DOCS_PENDING"
        PROVE  HasActive(c, "OFFER_LETTER")
    <3>1. Exists(c)
      BY <2>6, ConstantsOK DEF Exists, CaseState
    <3>2. "DOCS_PENDING" \in Entered(c)
      BY <2>6, <3>1 DEF Entered
    <3>3. {"IN_PROGRESS", "APPROVED", "OFFER_UNDER_REVIEW", "OFFER_SUBMITTED"} \subseteq Entered(c)
      BY <1>1, <3>2 DEF IInv, NoStageSkipped, MUST_FOLLOW
    <3> QED
      BY <3>3 DEF NormalPathInv, TablesOK, StatesAreEarned, Earned
  <2>7. \A c : ~IsAdvancing(r, c)
    BY <2>2 DEF IsAdvancing, At
  <2> QED
    BY <2>2, <2>4, <2>5, <2>6, <2>7 DEF LeavesNothing, Waits, DeliverablesPresent
<1> QED
  BY <1>3, <1>4, <1>5, <1>6 DEF OfferStep

\* The services of the deliverables before they look at the case.
LEMMA EvidenceLeaves ==
  ASSUME NormalPathInv, NEW r \in Request,
         \/ DeliverableRequest(r) \/ CompleteDecide(r) \/ CertificateScan(r) \/ CertificateStore(r)
         \/ TokenRevoke(r) \/ TokenCreate(r) \/ EvaluationStore(r)
         \/ VerifyCreate(r) \/ MarkRead(r) \/ MarkDecide(r),
         UNCHANGED <<offerVars, gradingVars>>
  PROVE  OnlyRuns(r) /\ LeavesNothing(r)
<1>1. IInv /\ TypeOK /\ DOMAIN frame = Request
  BY DEF NormalPathInv, IInv, RequestsOK
<1>2. OnlyRuns(r) /\ UNCHANGED state
  <2>1. DeliverableRequest(r) \/ DeliverableStep(r)
    BY Zenon DEF DeliverableStep
  <2> QED
    BY <1>1, <2>1, DeliverableEmptyHanded DEF EmptyHanded, gradingVars
<1>3. \A c : ~IsAdvancing(r, c)
  <2>1. pc[r] \in {"idle", "complete:decide", "cert:scan", "cert:store", "token:revoke",
                   "token:create", "eval:store", "verify:create", "mark:read", "mark:decide"}
    BY Zenon DEF DeliverableRequest, CompleteInternship, UploadCertificate, IssueToken, MarkVerified,
           SubmitEvaluation, VerifyDocument, Accepts, CompleteDecide, CertificateScan,
           CertificateStore, TokenRevoke, TokenCreate, EvaluationStore, VerifyCreate, MarkRead,
           MarkDecide, At
  <2> QED
    BY <2>1 DEF IsAdvancing, At
<1>4. PICK f : f = frame[r]
  OBVIOUS
<1>5. CASE CertificateStore(r)
  <2>1. /\ pc[r] = "cert:store" /\ UNCHANGED tokens
        /\ CommitStore(f.kase, "COMPLETION_CERTIFICATE", f.replaced)
    BY <1>4, <1>5 DEF CertificateStore, At, deliverableVars
  <2>2. f.kase \in Case /\ OwnRows(f.replaced, f.kase, "COMPLETION_CERTIFICATE")
    BY <1>4, <2>1, FrameOf DEF FrameOK, CaseLabel
  <2>3. \A d, other : HasActive(d, other)' =>
          HasActive(d, other) \/ (d = f.kase /\ other = "COMPLETION_CERTIFICATE")
    BY <2>1, <2>2, StoreFacts DEF NormalPathInv, TablesOK, OfferTypeOK, DocumentType
  <2>4. \A d : Evaluated(d)' <=> Evaluated(d)
    BY <2>1 DEF Evaluated
  <2>5. IsAdvancing(r, f.kase)'
    <3>1. PICK g : g = [kase |-> f.kase]
      OBVIOUS
    <3>2. pc'[r] = "advance:facts" /\ frame'[r] = g
      BY <1>1, <1>4, <1>5, <3>1, AwaitRuns DEF CertificateStore
    <3> QED
      BY <3>1, <3>2 DEF IsAdvancing, At
  <2> QED
    BY <1>2, <1>3, <2>3, <2>4, <2>5 DEF LeavesNothing, Waits, DeliverablesPresent
<1>6. CASE TokenCreate(r)
  <2>1. \A d : Evaluated(d)' <=> Evaluated(d)
    BY <1>6, IssueFacts
  <2>2. \A d, other : HasActive(d, other)' <=> HasActive(d, other)
    BY <1>6 DEF TokenCreate, HasActive, ActiveDocuments
  <2> QED
    BY <1>2, <1>3, <2>1, <2>2 DEF LeavesNothing, Waits, DeliverablesPresent
<1>7. CASE EvaluationStore(r)
  <2>1. /\ f.token \in DOMAIN tokens /\ tokens[f.token].kase = f.kase
        /\ UNCHANGED documents
    BY <1>4, <1>7, FrameOf DEF EvaluationStore, At, FrameOK
  <2>2. \A d, other : HasActive(d, other)' <=> HasActive(d, other)
    BY <2>1 DEF HasActive, ActiveDocuments
  <2>3. PICK g : g = [kase |-> f.kase]
    OBVIOUS
  <2>4. ASSUME tokens' = [tokens EXCEPT ![f.token].used = TRUE], Await(r, "advance:facts", g)
        PROVE  LeavesNothing(r)
    <3>1. \A d : Evaluated(d)' => Evaluated(d) \/ d = f.kase
      BY <2>1, <2>4, EvaluateFacts
    <3>2. IsAdvancing(r, f.kase)'
      <4>1. pc'[r] = "advance:facts" /\ frame'[r] = g
        BY <1>1, <2>4, AwaitRuns
      <4> QED
        BY <2>3, <4>1 DEF IsAdvancing, At
    <3> QED
      BY <1>2, <1>3, <2>2, <3>1, <3>2 DEF LeavesNothing, Waits, DeliverablesPresent
  <2>5. ASSUME UNCHANGED tokens
        PROVE  LeavesNothing(r)
    <3>1. \A d : Evaluated(d)' <=> Evaluated(d)
      BY <2>5 DEF Evaluated
    <3> QED
      BY <1>2, <1>3, <2>2, <3>1 DEF LeavesNothing, Waits, DeliverablesPresent
  <2> QED
    BY <1>2, <1>4, <1>7, <2>3, <2>4, <2>5 DEF EvaluationStore
<1>8. CASE ~(CertificateStore(r) \/ TokenCreate(r) \/ EvaluationStore(r))
  <2>1. UNCHANGED <<documents, tokens>>
    BY <1>8, Zenon DEF DeliverableRequest, CompleteInternship, UploadCertificate, IssueToken,
           MarkVerified, SubmitEvaluation, VerifyDocument, CompleteDecide, CertificateScan,
           TokenRevoke, VerifyCreate, MarkRead, MarkDecide, deliverableVars
  <2>2. \A c : DeliverablesPresent(c)' <=> DeliverablesPresent(c)
    BY <2>1 DEF DeliverablesPresent, HasActive, ActiveDocuments, Evaluated
  <2> QED
    BY <1>2, <1>3, <2>2 DEF LeavesNothing, Waits
<1> QED
  BY <1>2, <1>5, <1>6, <1>7, <1>8


\* The executor takes on a case that waits for documents.
LEMMA AdvanceIsAdmitted ==
  ASSUME NEW c \in Case, state[c] = "DOCS_PENDING"
  PROVE  ~Denied(c, "PENDING_VERIFICATION", System, FALSE, {"deliverablesPresent"})
<1> DEFINE row == Row("DOCS_PENDING", "PENDING_VERIFICATION", "SYSTEM", {"deliverablesPresent"}, FALSE)
<1>1. row \in TRANSITIONS
  BY DEF TRANSITIONS, NormalRows
<1>2. /\ row.from = state[c] /\ row.to = "PENDING_VERIFICATION" /\ row.actorRole = "SYSTEM"
      /\ row.guards \subseteq {"deliverablesPresent"} /\ ~row.requiresReason
  BY DEF Row
<1> HIDE DEF row
<1>3. "SYSTEM" \in Authority(System)
  BY DEF Authority
<1>4. Exists(c)
  BY ConstantsOK DEF Exists, CaseState
<1> QED
  BY <1>1, <1>2, <1>3, <1>4 DEF Denied, Admits

\* advanceToVerificationIfReady() keeps the case from its facts to the commit.
LEMMA AdvanceLeaves ==
  ASSUME NormalPathInv, NEW r \in Request, AdvanceFacts(r) \/ AdvanceMove(r)
  PROVE  OnlyRuns(r) /\ LeavesNothing(r)
<1>1. IInv /\ TypeOK /\ DOMAIN frame = Request
  BY DEF NormalPathInv, IInv, RequestsOK
<1>2. PICK f : f = frame[r]
  OBVIOUS
<1>3. \A c : DeliverablesPresent(c)' <=> DeliverablesPresent(c)
  BY DEF AdvanceFacts, AdvanceMove, deliverableVars, DeliverablesPresent, HasActive,
         ActiveDocuments, Evaluated
<1>4. \A c : IsAdvancing(r, c) => c = f.kase
  BY <1>2 DEF AdvanceFacts, AdvanceMove, At, IsAdvancing
<1>5. CASE AdvanceFacts(r)
  <2>1. UNCHANGED state
    BY <1>5 DEF AdvanceFacts
  <2>2. CASE DeliverablesPresent(f.kase) /\ Await(r, "advance:move", f)
    <3>1. OnlyRuns(r) /\ pc'[r] = "advance:move" /\ frame'[r] = f
      BY <1>1, <2>2, AwaitRuns
    <3>2. IsAdvancing(r, f.kase)'
      BY <3>1 DEF IsAdvancing, At
    <3> QED
      BY <1>3, <1>4, <2>1, <3>1, <3>2 DEF LeavesNothing, Waits
  <2>3. CASE ~DeliverablesPresent(f.kase) /\ Respond(r)
    BY <1>1, <1>3, <1>4, <2>1, <2>3, RespondRuns DEF LeavesNothing, Waits
  <2> QED
    BY <1>2, <1>5, <2>2, <2>3 DEF AdvanceFacts
<1>6. CASE AdvanceMove(r)
  <2>1. PICK to, ctx : to = "PENDING_VERIFICATION" /\ ctx = {"deliverablesPresent"}
    OBVIOUS
  <2>2. TransitionOrFail(r, f.kase, to, System, FALSE, ctx, "idle")
    BY <1>2, <1>6, <2>1 DEF AdvanceMove
  <2>3. OnlyRuns(r) /\ UNCHANGED state
    BY <1>1, <2>2, CallRuns
  <2>4. ASSUME NEW c \in Case, c = f.kase, state[c] = "DOCS_PENDING"
        PROVE  IsAdvancing(r, c)'
    <3>1. ~Denied(c, to, System, FALSE, ctx)
      BY <2>1, <2>4, AdvanceIsAdmitted
    <3>2. BeginTransition(r, c, to, System, FALSE, ctx, "idle") /\ UNCHANGED frame
      BY <2>2, <2>4, <3>1 DEF TransitionOrFail
    <3>3. /\ OnlyRuns(r)
          /\ pc'[r] = "commit" /\ frame'[r] = frame[r]
          /\ tx'[r].kase = c /\ tx'[r].to = to /\ tx'[r].next = "idle"
      BY <1>1, <3>2, BeginRuns
    <3> QED
      BY <2>1, <3>3 DEF IsAdvancing, At
  <2> QED
    BY <1>3, <1>4, <2>3, <2>4 DEF LeavesNothing, Waits
<1> QED
  BY <1>5, <1>6

\* The services of the grades bring no evidence.
LEMMA GradingLeaves ==
  ASSUME NormalPathInv, CallersKnow, NEW r \in Request, GradingRequest(r) \/ GradingStep(r),
         UNCHANGED <<documents, deliverableVars>>
  PROVE  OnlyRuns(r) /\ LeavesNothing(r)
<1>1. IInv /\ TypeOK /\ DOMAIN frame = Request
  BY DEF NormalPathInv, IInv, RequestsOK
<1>2. pc[r] \notin AdvanceLabel
  BY DEF GradingRequest, RecommendGrade, AwardGrade, ReverseGrade, GradingStep, RecommendDecide,
         AwardDecide, AwardCreateGrade, Accepts, At, AdvanceLabel
<1>3. OnlyRuns(r) /\ UNCHANGED state
  <2>1. CASE GradingRequest(r) \/ RecommendDecide(r) \/ AwardDecide(r)
    BY <1>1, <2>1, GradingEmptyHanded DEF EmptyHanded
  <2>2. CASE AwardCreateGrade(r)
    BY <1>1, <2>2, RespondRuns DEF AwardCreateGrade
  <2> QED
    BY <2>1, <2>2 DEF GradingStep
<1> QED
  BY <1>2, <1>3, QuietLeaves DEF deliverableVars

\* Whatever follows completion in the table follows PENDING_VERIFICATION.
LEMMA PastVerification ==
  ASSUME NEW E, \A m \in MUST_FOLLOW : m[1] \in E => m[2] \in E, "PENDING_VERIFICATION" \notin E
  PROVE  E \cap (AfterCompletion \ {"DOCS_PENDING"}) = {}
BY DEF MUST_FOLLOW, AfterCompletion, AfterClosure, ClosedStates

\* A commit that takes a case to where documents are waited for takes it from an
\* internship that nobody has evaluated, or finds it there, or has set it back.
LEMMA CommitLeaves ==
  ASSUME NormalPathInv, Grows, NEW r \in Request, CommitTransition(r),
         UNCHANGED <<documents, deliverableVars>>
  PROVE  OnlyRuns(r) /\ LeavesNothing(r)
<1>1. IInv /\ TypeOK
  BY DEF NormalPathInv, IInv
<1>2. PICK t, k : t = tx[r] /\ k = t.kase
  OBVIOUS
<1>3. /\ pc[r] = "commit" /\ k \in Case
      /\ state'[k] = t.to /\ \A d \in Case \ {k} : state'[d] = state[d]
  BY <1>1, <1>2, CommitWrites DEF CommitTransition, InFlight
<1>4. OnlyRuns(r)
  BY <1>1 DEF CommitTransition, OnlyRuns, TypeOK
<1>5. \A c : DeliverablesPresent(c)' <=> DeliverablesPresent(c)
  BY DEF deliverableVars, DeliverablesPresent, HasActive, ActiveDocuments, Evaluated
<1>6. ASSUME t.to = "DOCS_PENDING", Waits(k)'
      PROVE  state[k] = "DOCS_PENDING" /\ ~IsAdvancing(r, k)
  <2>1. NotSetBack(k) /\ "PENDING_VERIFICATION" \notin Entered(k)
    BY <1>3, <1>6, SetBackForGood DEF Grows, Waits
  <2>2. WasCompleted(k)
    BY <1>3, <1>5, <1>6
       DEF Waits, DeliverablesPresent, Evaluated, NormalPathInv, TablesOK, LinksFollowCompletion
  <2>3. state[k] \in AfterCompletion
    BY <1>1, <1>3, <2>1, <2>2, StaysCompleted
  <2>4. state[k] \in Entered(k)
    BY <2>2 DEF WasCompleted, Entered
  <2>5. state[k] = "DOCS_PENDING"
    <3>1. \A m \in MUST_FOLLOW : m[1] \in Entered(k) => m[2] \in Entered(k)
      BY <1>1, <1>3 DEF IInv, NoStageSkipped
    <3>2. Entered(k) \cap (AfterCompletion \ {"DOCS_PENDING"}) = {}
      BY <2>1, <3>1, PastVerification
    <3> QED
      BY <2>3, <2>4, <3>2
  <2>6. ~IsAdvancing(r, k)
    BY <1>2, <1>3, <1>6 DEF IsAdvancing, At
  <2> QED
    BY <2>5, <2>6
<1>7. \A c : IsAdvancing(r, c) => c = k
  BY <1>2, <1>3 DEF IsAdvancing, At
<1> QED
  BY <1>3, <1>4, <1>5, <1>6, <1>7 DEF LeavesNothing, Waits

\* The index refuses no move of such a case, which is the active one of its student.
LEMMA AbortLeaves ==
  ASSUME NormalPathInv, NEW r \in Request, AbortTransition(r),
         UNCHANGED <<documents, deliverableVars>>
  PROVE  OnlyRuns(r) /\ LeavesNothing(r)
<1>1. IInv /\ TypeOK /\ DOMAIN frame = Request
  BY DEF NormalPathInv, IInv, RequestsOK
<1>2. pc[r] = "commit" /\ ~Writable(tx[r]) /\ UNCHANGED state /\ OnlyRuns(r)
  BY <1>1, RespondRuns DEF AbortTransition
<1>3. \A c : DeliverablesPresent(c)' <=> DeliverablesPresent(c)
  BY DEF deliverableVars, DeliverablesPresent, HasActive, ActiveDocuments, Evaluated
<1>4. ASSUME NEW c \in Case, state[c] = "DOCS_PENDING"
      PROVE  ~IsAdvancing(r, c)
  <2>1. Active(c)
    BY <1>4, ConstantsOK DEF Active, Exists, CaseState, TERMINAL_CASE_STATES
  <2>2. \A s : IndexAccepts(c, s)
    BY <1>1, <2>1 DEF IndexAccepts, IInv, OneActiveCase
  <2> QED
    BY <1>2, <2>1, <2>2 DEF IsAdvancing, At, Writable, Active
<1> QED
  BY <1>2, <1>3, <1>4 DEF LeavesNothing, Waits

LEMMA ReturnLeaves ==
  ASSUME NormalPathInv, NEW r \in Request, ReturnFromTransition(r),
         UNCHANGED <<documents, deliverableVars>>
  PROVE  OnlyRuns(r) /\ LeavesNothing(r)
<1>1. TypeOK /\ DOMAIN frame = Request
  BY DEF NormalPathInv, IInv, RequestsOK
<1>2. OnlyRuns(r) /\ pc[r] \notin AdvanceLabel /\ UNCHANGED state
  BY <1>1 DEF ReturnFromTransition, OnlyRuns, TypeOK, AdvanceLabel
<1> QED
  BY <1>2, QuietLeaves DEF deliverableVars

\* Every step but a death.
LEMMA EvidenceStep ==
  ASSUME NormalPathInv, CallersKnow, WaitingCasesAreHeld, [SteadyNext]_normalPathVars
  PROVE  WaitingCasesAreHeld'
<1>1. Grows
  <2>1. [NormalPathNext]_normalPathVars
    BY DEF SteadyNext, NormalPathNext, ServerOf
  <2> QED
    BY <2>1, NextKeeps DEF Kept
<1>2. ASSUME NEW r \in Request, OnlyRuns(r) /\ LeavesNothing(r)
      PROVE  WaitingCasesAreHeld'
  BY <1>1, <1>2, OthersKeepAdvancing
<1>3. ASSUME NEW r \in Request, RequestOf(r)
      PROVE  WaitingCasesAreHeld'
  BY <1>2, <1>3, OfferLeaves, EvidenceLeaves, GradingLeaves DEF RequestOf
<1>4. ASSUME NEW r \in Request, DeliverableStep(r), UNCHANGED <<offerVars, gradingVars>>
      PROVE  WaitingCasesAreHeld'
  BY <1>2, <1>4, EvidenceLeaves, AdvanceLeaves, Zenon DEF DeliverableStep
<1>5. ASSUME NEW r \in Request, ExecutorStep(r), UNCHANGED <<documents, deliverableVars>>
      PROVE  WaitingCasesAreHeld'
  BY <1>1, <1>2, <1>5, CommitLeaves, AbortLeaves, ReturnLeaves DEF ExecutorStep
<1>6. ASSUME NEW r \in Request, StepOf(r)
      PROVE  WaitingCasesAreHeld'
  BY <1>2, <1>4, <1>5, <1>6, OfferLeaves, GradingLeaves DEF StepOf
<1>7. ASSUME UNCHANGED normalPathVars
      PROVE  WaitingCasesAreHeld'
  <2>1. UNCHANGED <<state, history, pc, tx, frame, documents, tokens>>
    BY <1>7 DEF normalPathVars, coreVars, deliverableVars
  <2>2. \A c \in Case : Entered(c)' = Entered(c)
    BY <2>1, TablesKeepInv DEF NormalPathInv
  <2>3. \A c : DeliverablesPresent(c)' <=> DeliverablesPresent(c)
    BY <2>1 DEF DeliverablesPresent, HasActive, ActiveDocuments, Evaluated
  <2>4. \A q, c : IsAdvancing(q, c)' <=> IsAdvancing(q, c)
    BY <2>1 DEF IsAdvancing, At
  <2>5. \A c \in Case : NotSetBack(c)' => NotSetBack(c)
    BY <1>1, SetBackForGood
  <2>6. ASSUME NEW c \in Case, Waits(c)'
        PROVE  \E q \in Request : IsAdvancing(q, c)'
    <3>1. Waits(c)
      BY <2>1, <2>2, <2>3, <2>5, <2>6 DEF Waits
    <3>2. PICK q \in Request : IsAdvancing(q, c)
      BY <3>1 DEF Waits, WaitingCasesAreHeld, EvidenceIsHeld
    <3> QED
      BY <2>4, <3>2
  <2> QED
    BY <2>6 DEF Waits, WaitingCasesAreHeld, EvidenceIsHeld
<1> QED
  BY <1>3, <1>6, <1>7, Zenon DEF SteadyNext

\* advanceToVerificationIfReady(), "whichever of the two arrives last is the one
\* that actually triggers it": on a day no process dies, a case whose last piece
\* of evidence has arrived is in the hands of a request until it is pending
\* verification, however uploads, evaluations, reissued links, approvals and
\* completions overlap on it, unless its events show that it was set back.
THEOREM CompleteEvidenceIsWaitedFor ==
  SteadySpec => [](\A c \in Case : NotSetBack(c) => EvidenceIsHeld(c))
<1>1. NormalPathInit => WaitingCasesAreHeld
  <2> SUFFICES ASSUME NormalPathInit PROVE WaitingCasesAreHeld
    OBVIOUS
  <2>1. \A c \in Case : state[c] = NoCase
    BY DEF NormalPathInit, CoreInit
  <2> QED
    BY <2>1, ConstantsOK DEF WaitingCasesAreHeld, EvidenceIsHeld, CaseState
<1>2. NormalPathInv /\ SteadyInv /\ WaitingCasesAreHeld /\ [SteadyNext]_normalPathVars
        => WaitingCasesAreHeld'
  BY EvidenceStep DEF SteadyInv
<1>3. WaitingCasesAreHeld => \A c \in Case : NotSetBack(c) => EvidenceIsHeld(c)
  BY DEF WaitingCasesAreHeld
<1> QED
  BY <1>1, <1>2, <1>3, SteadyDayIsSafe, PTL DEF SteadySpec
================================================================================
