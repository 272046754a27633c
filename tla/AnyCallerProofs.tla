---------------------------- MODULE AnyCallerProofs ----------------------------
(***************************************************************************)
(* What the executor guarantees for any number of students, cases, people,  *)
(* overlapping calls and contexts.                                          *)
(***************************************************************************)
EXTENDS AnyCaller, ExecutorProofs

\* Every step keeps the invariant and is a step of the abstract lifecycle, or
\* one the lifecycle does not see.
LEMMA StepKeepsInv ==
  ASSUME IInv, [Next]_coreVars
  PROVE  IInv' /\ [Lifecycle!Next]_(Lifecycle!vars)
<1>1. ASSUME NEW c \in Case, Create(c)
      PROVE  IInv' /\ Lifecycle!Next
  <2>1. PICK s \in GENESIS_STATES : InsertCase(c, s)
    BY <1>1 DEF Create
  <2>2. UNCHANGED <<history, pc, tx>>
    BY <1>1 DEF Create
  <2>3. NoNewCall
    BY <2>2 DEF NoNewCall, IInv, TypeOK
  <2> QED
    BY <2>1, <2>2, <2>3, InsertKeepsInv
<1>2. ASSUME NEW r \in Request, Call(r)
      PROVE  IInv' /\ UNCHANGED Lifecycle!vars
  <2>1. PICK c \in Case, to \in CaseState, actor \in Actor, reason \in BOOLEAN, ctx \in Contexts :
          BeginTransition(r, c, to, actor, reason, ctx, "idle")
    BY <1>2 DEF Call
  <2>2. "idle" \in Continuation
    BY ConstantsOK DEF Continuation
  <2> QED
    BY <2>1, <2>2, BeginKeepsInv
<1>3. CASE \E r \in Request : ExecutorStep(r) \/ Crash(r)
  BY <1>3, ExecutorKeepsInv
<1>4. CASE UNCHANGED coreVars
  <2>1. UNCHANGED <<state, history, pc, tx>>
    BY <1>4 DEF coreVars
  <2>2. NoNewCall
    BY <2>1 DEF NoNewCall, IInv, TypeOK
  <2> QED
    BY <2>1, <2>2, QuietStepKeepsInv
<1> QED
  BY <1>1, <1>2, <1>3, <1>4 DEF Next

-----------------------------------------------------------------------------
(* The theorems.                                                           *)

\* The inductive invariant holds of every reachable state.
THEOREM Invariance == Spec => []IInv
<1>1. CoreInit => IInv
  BY InitIsInv
<1>2. IInv /\ [Next]_coreVars => IInv'
  BY StepKeepsInv
<1> QED
  BY <1>1, <1>2, PTL DEF Spec

\* Every table, and the locals of every call, keep their types.
THEOREM TypeCorrectness == Spec => []TypeOK
<1>1. IInv => TypeOK
  BY DEF IInv
<1> QED
  BY <1>1, Invariance, PTL

\* BR-06: whatever runs at the same time, and whether a case is being inserted
\* or moved, no student has two non-terminal cases.
THEOREM OneActiveCasePerStudent == Spec => []OneActiveCase
<1>1. IInv => OneActiveCase
  BY DEF IInv
<1> QED
  BY <1>1, Invariance, PTL

\* Every recorded event is a row of the table signed by an actor it admits.
THEOREM EventsArePermitted == Spec => []EventsPermitted
<1>1. IInv => EventsPermitted
  BY DEF IInv
<1> QED
  BY <1>1, Invariance, PTL

\* The events of a case lead from the state it was inserted in to the state it
\* shows, although overlapping calls overwrite one another.
THEOREM HistoryIsFaithful == Spec => []HistoryExplainsState
<1>1. IInv => HistoryExplainsState
  BY DEF IInv
<1> QED
  BY <1>1, Invariance, PTL

\* No case reaches a stage without the stages the table puts before it.
THEOREM StagesAreNotSkipped == Spec => []NoStageSkipped
<1>1. IInv => NoStageSkipped
  BY DEF IInv
<1> QED
  BY <1>1, Invariance, PTL

\* A call that waits to commit is still justified when it does.
THEOREM WaitingCallsAreJustified == Spec => []CallsInFlight
<1>1. IInv => CallsInFlight
  BY DEF IInv
<1> QED
  BY <1>1, Invariance, PTL

\* The executor, however its calls overlap, implements the abstract lifecycle.
THEOREM LifecycleIsImplemented == Spec => ImplementsLifecycle
<1>1. CoreInit => Lifecycle!Init
  BY DEF CoreInit, Lifecycle!Init, Entered, Exists
<1>2. IInv /\ [Next]_coreVars => [Lifecycle!Next]_(Lifecycle!vars)
  BY StepKeepsInv
<1> QED
  BY <1>1, <1>2, Invariance, PTL DEF Spec, ImplementsLifecycle, Lifecycle!Spec
================================================================================
