----------------------------- MODULE ExecutorProofs -----------------------------
(***************************************************************************)
(* What every step of the executor keeps, whichever service takes it: the   *)
(* lemmas the proofs about its callers stand on.  A step either inserts a   *)
(* row, admits a call, commits one, or leaves tables and waiting calls be.  *)
(***************************************************************************)
EXTENDS CaseExecutor, SequenceTheorems, TLAPS

-----------------------------------------------------------------------------
(* Lemmas about the table.                                                 *)

\* A set of states that is closed under MUST_FOLLOW stays closed when it grows
\* by a legal move from one of its members.
LEMMA MoveKeepsClosure ==
  ASSUME NEW E, NEW s \in E, NEW t, LegalMove(s, t),
         \A m \in MUST_FOLLOW : m[1] \in E => m[2] \in E
  PROVE  \A m \in MUST_FOLLOW : m[1] \in E \cup {t} => m[2] \in E \cup {t}
BY DEF LegalMove, TRANSITIONS, NormalRows, RestartRows, WaiverRows, Row, PreApproval, MUST_FOLLOW

\* A genesis state alone is closed under MUST_FOLLOW.
LEMMA GenesisIsClosed ==
  ASSUME NEW s \in GENESIS_STATES
  PROVE  \A m \in MUST_FOLLOW : m[1] \in {s} => m[2] \in {s}
BY DEF GENESIS_STATES, MUST_FOLLOW

-----------------------------------------------------------------------------
(* The steps.                                                              *)

\* What a commit writes: the row it moves and one more event, its last.
LEMMA CommitWrites ==
  ASSUME TypeOK, NEW r \in Request, CommitTransition(r)
  PROVE  LET t == tx[r]
             k == tx[r].kase
             n == Len(history[k])
         IN  /\ t \in InFlight
             /\ Exists(k)
             /\ IndexAccepts(k, t.to)
             /\ state'[k] = t.to
             /\ n \in Nat
             /\ DOMAIN history[k] = 1..n
             /\ DOMAIN history'[k] = 1..(n + 1)
             /\ Len(history'[k]) = n + 1
             /\ history'[k][n + 1] = EventOf(t)
             /\ \A i \in 1..n : history'[k][i] = history[k][i]
             /\ \A d \in Case \ {k} : state'[d] = state[d] /\ history'[d] = history[d]
<1> DEFINE t == tx[r]
           k == tx[r].kase
<1>1. t \in InFlight /\ k \in Case
  BY DEF TypeOK, CommitTransition, InFlight
<1>2. EventOf(t) \in Event
  BY <1>1 DEF InFlight, EventOf, Event
<1>3. history[k] \in Seq(Event)
  BY <1>1 DEF TypeOK
<1>4. history'[k] = Append(history[k], EventOf(t))
  BY <1>1 DEF TypeOK, CommitTransition
<1>5. \A d \in Case \ {k} : state'[d] = state[d] /\ history'[d] = history[d]
  BY <1>1 DEF TypeOK, CommitTransition
<1>6. state'[k] = t.to
  BY <1>1 DEF TypeOK, CommitTransition
<1>7. Exists(k) /\ IndexAccepts(k, t.to)
  BY DEF CommitTransition, Writable
<1> QED
  BY <1>1, <1>2, <1>3, <1>4, <1>5, <1>6, <1>7

\* A commit adds the target to the states its case has been in, and nothing to
\* those of any other case; no case changes the state it was inserted in.
LEMMA CommitEnters ==
  ASSUME TypeOK, HistoryExplainsState, CallsJustified,
         NEW r \in Request, CommitTransition(r), NEW c \in Case
  PROVE  /\ Exists(c)' <=> Exists(c)
         /\ Exists(c) => Origin(c)' = Origin(c)
         /\ Entered(c)' = IF c = tx[r].kase THEN Entered(c) \cup {tx[r].to} ELSE Entered(c)
<1> DEFINE t == tx[r]
           k == tx[r].kase
           n == Len(history[k])
<1>1. /\ t \in InFlight
      /\ Exists(k)
      /\ state'[k] = t.to
      /\ n \in Nat
      /\ DOMAIN history[k] = 1..n
      /\ DOMAIN history'[k] = 1..(n + 1)
      /\ Len(history'[k]) = n + 1
      /\ history'[k][n + 1] = EventOf(t)
      /\ \A i \in 1..n : history'[k][i] = history[k][i]
      /\ \A d \in Case \ {k} : state'[d] = state[d] /\ history'[d] = history[d]
  BY CommitWrites
<1>2. CASE c # k
  <2>1. state'[c] = state[c] /\ history'[c] = history[c]
    BY <1>1, <1>2
  <2> QED
    BY <1>2, <2>1 DEF Exists, Origin, Entered
<1>3. CASE c = k
  <2> DEFINE old == {history[c][i].to : i \in 1..n}
             new == {history'[c][i].to : i \in 1..(n + 1)}
  <2>1. /\ t.from \in Entered(c)
        /\ t.to \in CaseState
    BY <1>1, <1>3 DEF CallsJustified, CommitTransition, InFlight
  <2>2. /\ Exists(c)
        /\ state'[c] = t.to
        /\ DOMAIN history[c] = 1..n
        /\ DOMAIN history'[c] = 1..(n + 1)
        /\ history'[c][n + 1].to = t.to
        /\ history'[c][n + 1].from = t.from
        /\ \A i \in 1..n : history'[c][i] = history[c][i]
    BY <1>1, <1>3 DEF EventOf
  <2>3. Exists(c)'
    BY <2>1, <2>2, ConstantsOK DEF Exists
  <2>4. history'[c] # <<>>
    BY <1>1, <2>2
  <2>5. CASE history[c] = <<>>
    <3>1. n = 0
      BY <1>3, <2>5
    <3>2. Entered(c) = {state[c]}
      BY <2>2, <2>5, <3>1 DEF Entered, Origin
    <3>3. Origin(c) = state[c] /\ t.from = state[c]
      BY <2>1, <2>5, <3>2 DEF Origin
    <3>4. Origin(c)' = t.from
      BY <2>2, <2>4, <3>1 DEF Origin
    <3>5. Entered(c)' = {t.to, t.from}
      BY <2>2, <2>3, <3>1, <3>4 DEF Entered
    <3> QED
      BY <1>3, <2>2, <2>3, <3>2, <3>3, <3>4, <3>5
  <2>6. CASE history[c] # <<>>
    <3>1. n >= 1
      BY <1>1, <1>3, <2>2, <2>6 DEF TypeOK
    <3>2. Origin(c)' = Origin(c)
      BY <1>1, <2>2, <2>4, <2>6, <3>1 DEF Origin
    <3>3. state[c] \in old
      BY <1>1, <1>3, <2>2, <2>6, <3>1 DEF HistoryExplainsState
    <3>4. Entered(c) = {Origin(c)} \cup old
      BY <2>2, <3>3 DEF Entered
    <3>5. Entered(c)' = {t.to, Origin(c)} \cup new
      BY <2>2, <2>3, <3>2 DEF Entered
    <3>6. new = old \cup {t.to}
      <4>1. \A i \in 1..(n + 1) : i \in 1..n \/ i = n + 1
        BY <1>1
      <4>2. n + 1 \in 1..(n + 1) /\ \A i \in 1..n : i \in 1..(n + 1)
        BY <1>1
      <4> HIDE DEF t, k, n
      <4> QED
        BY <2>2, <4>1, <4>2
    <3> QED
      BY <1>3, <2>2, <2>3, <3>2, <3>4, <3>5, <3>6
  <2> QED
    BY <2>5, <2>6
<1> QED
  BY <1>2, <1>3

\* A call is admitted: no table changes, and r is ready to commit a permitted
\* step from the state its case is in.
LEMMA BeginAdmits ==
  ASSUME TypeOK, NEW r \in Request, NEW c \in Case, NEW to \in CaseState, NEW actor \in Actor,
         NEW reason, NEW ctx, NEW next \in Continuation,
         BeginTransition(r, c, to, actor, reason, ctx, next)
  PROVE  /\ UNCHANGED <<state, history>>
         /\ \A q \in Request \ {r} : pc'[q] = pc[q] /\ tx'[q] = tx[q]
         /\ pc' \in [Request -> Label] /\ tx' \in [Request -> InFlight \cup {NoTx}]
         /\ pc'[r] = "commit"
         /\ tx'[r] \in InFlight
         /\ tx'[r] = [kase |-> c, from |-> state[c], to |-> to, actor |-> actor, next |-> next]
         /\ Exists(c)
         /\ Permitted(EventOf(tx'[r]))
<1> DEFINE t == [kase |-> c, from |-> state[c], to |-> to, actor |-> actor, next |-> next]
<1>2. /\ Exists(c)
      /\ Admits(c, to, actor, reason, ctx)
      /\ tx' = [tx EXCEPT ![r] = t]
      /\ pc' = [pc EXCEPT ![r] = "commit"]
      /\ UNCHANGED <<state, history>>
  BY DEF BeginTransition
<1>3. t \in InFlight
  <2>1. state[c] \in CaseState
    BY <1>2 DEF TypeOK, Exists
  <2> QED
    BY <2>1 DEF InFlight
<1>4. Permitted(EventOf(t))
  BY <1>2 DEF Admits, Permitted, EventOf
<1> HIDE DEF t
<1>5. tx'[r] = t
  BY <1>2 DEF TypeOK
<1>6. \A q \in Request \ {r} : pc'[q] = pc[q] /\ tx'[q] = tx[q]
  BY <1>2 DEF TypeOK
<1>7. pc' \in [Request -> Label] /\ tx' \in [Request -> InFlight \cup {NoTx}]
  <2>1. pc \in [Request -> Label] /\ tx \in [Request -> InFlight \cup {NoTx}]
    BY DEF TypeOK
  <2>2. "commit" \in Label
    BY ConstantsOK
  <2>4. pc' \in [Request -> Label]
    BY <1>2, <2>1, <2>2
  <2>3. tx' \in [Request -> InFlight \cup {NoTx}]
    BY <1>2, <1>3, <2>1
  <2> QED
    BY <2>3, <2>4
<1>8. pc'[r] = "commit"
  BY <1>2 DEF TypeOK
<1> QED
  BY <1>2, <1>3, <1>4, <1>5, <1>6, <1>7, <1>8 DEF t

\* No request enters the executor, and one that is inside keeps its locals.
NoNewCall ==
  /\ pc' \in [Request -> Label]
  /\ tx' \in [Request -> InFlight \cup {NoTx}]
  /\ \A q \in Request :
       pc'[q] \in {"commit", "committed"} => pc'[q] = pc[q] /\ tx'[q] = tx[q]

\* A service that awaits something else enters no executor.
LEMMA AwaitIsNoCall ==
  ASSUME TypeOK, NEW r \in Request, NEW label \in Continuation, NEW f, Await(r, label, f)
  PROVE  NoNewCall
<1>1. pc \in [Request -> Label] /\ tx \in [Request -> InFlight \cup {NoTx}]
  BY DEF TypeOK
<1>2. pc' = [pc EXCEPT ![r] = label] /\ tx' = tx
  BY DEF Await
<1> QED
  BY <1>1, <1>2 DEF NoNewCall, Continuation

\* Nor does a request that is answered.
LEMMA RespondIsNoCall ==
  ASSUME TypeOK, NEW r \in Request, Respond(r)
  PROVE  NoNewCall
<1>1. pc \in [Request -> Label] /\ tx \in [Request -> InFlight \cup {NoTx}]
  BY DEF TypeOK
<1>2. pc' = [pc EXCEPT ![r] = "idle"] /\ tx' = [tx EXCEPT ![r] = NoTx]
  BY DEF Respond
<1>3. "idle" \in Label
  BY ConstantsOK
<1>4. pc' \in [Request -> Label]
  BY <1>1, <1>2, <1>3
<1>5. tx' \in [Request -> InFlight \cup {NoTx}]
  BY <1>1, <1>2
<1> QED
  BY <1>1, <1>2, <1>4, <1>5 DEF NoNewCall

\* Nor one that leaves the executor, by either way, or dies.
LEMMA LeavingIsNoCall ==
  ASSUME TypeOK, NEW r \in Request,
         AbortTransition(r) \/ ReturnFromTransition(r) \/ Crash(r)
  PROVE  NoNewCall /\ UNCHANGED <<state, history>>
<1>1. CASE AbortTransition(r) \/ Crash(r)
  BY <1>1, RespondIsNoCall DEF AbortTransition, Crash
<1>2. CASE ReturnFromTransition(r)
  <2>1. pc \in [Request -> Label] /\ tx \in [Request -> InFlight \cup {NoTx}]
    BY DEF TypeOK
  <2>2. tx[r].next \in Continuation
    BY <1>2 DEF ReturnFromTransition, TypeOK, InFlight
  <2>3. pc' = [pc EXCEPT ![r] = tx[r].next] /\ tx' = [tx EXCEPT ![r] = NoTx]
    BY <1>2 DEF ReturnFromTransition
  <2>4. pc' \in [Request -> Label]
    BY <2>1, <2>2, <2>3 DEF Continuation
  <2>5. tx' \in [Request -> InFlight \cup {NoTx}]
    BY <2>1, <2>3
  <2>6. \A q \in Request :
          pc'[q] \in {"commit", "committed"} => pc'[q] = pc[q] /\ tx'[q] = tx[q]
    BY <2>1, <2>2, <2>3 DEF Continuation
  <2> QED
    BY <1>2, <2>4, <2>5, <2>6 DEF NoNewCall, ReturnFromTransition
<1> QED
  BY <1>1, <1>2

\* A call that is waiting to commit stays justified while its case has been in
\* more and more states, or is gone for good.
LEMMA CallStaysJustified ==
  ASSUME TypeOK, CallsJustified,
         NEW q \in Request, pc[q] = "commit", tx'[q] = tx[q],
         \A d \in Case : Exists(d)' /\ tx[q].kase = d =>
                          Exists(d) /\ Entered(d) \subseteq Entered(d)'
  PROVE  /\ Permitted(EventOf(tx[q]))'
         /\ (Exists(tx[q].kase) => tx[q].from \in Entered(tx[q].kase))'
<1>1. PICK k \in Case : k = tx[q].kase
  BY DEF TypeOK, InFlight
<1>2. Exists(k)' => tx[q].from \in Entered(k)'
  BY <1>1 DEF CallsJustified
<1>3. (Exists(tx[q].kase) => tx[q].from \in Entered(tx[q].kase))'
  BY <1>1, <1>2 DEF Entered, Exists, Origin
<1>4. Permitted(EventOf(tx[q]))'
  BY DEF CallsJustified, Permitted, EventOf
<1> QED
  BY <1>3, <1>4

\* The abstract lifecycle reads the same table and the same index.
LEMMA SameTable ==
  /\ Lifecycle!TRANSITIONS = TRANSITIONS
  /\ Lifecycle!GENESIS_STATES = GENESIS_STATES
  /\ OneActiveCase => Lifecycle!OneActivePerStudent
<1>1. Lifecycle!TRANSITIONS = TRANSITIONS
  BY DEF Lifecycle!TRANSITIONS, TRANSITIONS, Lifecycle!NormalRows, NormalRows,
         Lifecycle!RestartRows, RestartRows, Lifecycle!WaiverRows, WaiverRows,
         Lifecycle!Row, Row, Lifecycle!PreApproval, PreApproval
<1>2. Lifecycle!GENESIS_STATES = GENESIS_STATES
  BY DEF Lifecycle!GENESIS_STATES, GENESIS_STATES
<1>3. OneActiveCase => Lifecycle!OneActivePerStudent
  BY DEF OneActiveCase, Lifecycle!OneActivePerStudent, Active, Lifecycle!Active, Exists,
         TERMINAL_CASE_STATES, Lifecycle!TERMINAL_CASE_STATES
<1> QED
  BY <1>1, <1>2, <1>3

-----------------------------------------------------------------------------
(* The inductive invariant.                                                *)

\* Before any row is inserted there is nothing to be wrong.
LEMMA InitIsInv == CoreInit => IInv
<1> SUFFICES ASSUME CoreInit PROVE IInv
  OBVIOUS
<1>1. TypeOK
  <2>1. state \in [Case -> CaseState \cup {NoCase}]
    BY DEF CoreInit
  <2>2. history \in [Case -> Seq(Event)]
    BY DEF CoreInit
  <2>3. pc \in [Request -> Label]
    BY ConstantsOK DEF CoreInit
  <2> QED
    BY <2>1, <2>2, <2>3 DEF CoreInit, TypeOK
<1>2. \A c \in Case : ~Exists(c) /\ history[c] = <<>>
  BY DEF CoreInit, Exists
<1>3. OneActiveCase
  BY <1>2 DEF OneActiveCase, Active
<1>4. EventsPermitted
  BY <1>2 DEF EventsPermitted
<1>5. HistoryExplainsState
  BY <1>2 DEF HistoryExplainsState
<1>6. NoStageSkipped
  BY <1>2 DEF NoStageSkipped, Entered
<1>7. CallsInFlight
  BY DEF CoreInit, CallsInFlight
<1> QED
  BY <1>1, <1>3, <1>4, <1>5, <1>6, <1>7 DEF IInv

\* A step that leaves the tables alone keeps what is said of the tables.
LEMMA TablesKeepCore ==
  ASSUME CoreInv, UNCHANGED <<state, history>>
  PROVE  /\ OneActiveCase'
         /\ EventsPermitted'
         /\ HistoryExplainsState'
         /\ NoStageSkipped'
         /\ UNCHANGED <<state, [c \in Case |-> Entered(c)]>>
         /\ \A d \in Case : (Exists(d)' <=> Exists(d)) /\ Entered(d)' = Entered(d)
<1>1. \A d \in Case :
        /\ Exists(d)' <=> Exists(d)
        /\ Origin(d)' = Origin(d)
        /\ Entered(d)' = Entered(d)
        /\ Active(d)' <=> Active(d)
  BY DEF Exists, Origin, Entered, Active
<1>2. OneActiveCase'
  BY <1>1 DEF CoreInv, OneActiveCase
<1>3. EventsPermitted'
  BY DEF CoreInv, EventsPermitted, Permitted
<1>4. HistoryExplainsState'
  BY <1>1 DEF CoreInv, HistoryExplainsState
<1>5. NoStageSkipped'
  BY <1>1 DEF CoreInv, NoStageSkipped
<1> QED
  BY <1>1, <1>2, <1>3, <1>4, <1>5

\* A new row: a genesis state, no history, and room in the index.
LEMMA InsertKeepsCore ==
  ASSUME CoreInv, NEW c \in Case, NEW s \in GENESIS_STATES, InsertCase(c, s),
         UNCHANGED history, NoNewCall,
         \A q \in Request : pc[q] = "commit" => tx[q].kase # c
  PROVE  CoreInv' /\ Lifecycle!Next
<1>2. /\ ~Exists(c)
      /\ IndexAccepts(c, s)
      /\ state' = [state EXCEPT ![c] = s]
      /\ UNCHANGED history
  BY DEF InsertCase
<1>3. s \in CaseState /\ s # NoCase
  BY ConstantsOK DEF GENESIS_STATES, CaseState
<1>4. state'[c] = s /\ \A d \in Case \ {c} : state'[d] = state[d]
  BY <1>2 DEF CoreInv, TypeOK
<1>5. history[c] = <<>> /\ history'[c] = <<>>
  BY <1>2 DEF CoreInv, HistoryExplainsState
<1>6. Exists(c)' /\ Origin(c)' = s /\ Entered(c) = {} /\ Entered(c)' = {s}
  BY <1>2, <1>3, <1>4, <1>5 DEF Exists, Origin, Entered
<1>7. ASSUME NEW d \in Case \ {c}
      PROVE  /\ Exists(d)' <=> Exists(d)
             /\ Origin(d)' = Origin(d)
             /\ Entered(d)' = Entered(d)
             /\ Active(d)' <=> Active(d)
  BY <1>2, <1>4 DEF Exists, Origin, Entered, Active
<1>8. TypeOK'
  <2>1. state' \in [Case -> CaseState \cup {NoCase}]
    BY <1>2, <1>3 DEF CoreInv, TypeOK
  <2> QED
    BY <1>2, <2>1 DEF CoreInv, TypeOK, NoNewCall
<1>9. OneActiveCase'
  BY <1>2, <1>3, <1>4, <1>7 DEF CoreInv, OneActiveCase, IndexAccepts, Active, Exists
<1>10. EventsPermitted'
  BY <1>2 DEF CoreInv, EventsPermitted, Permitted
<1>11. HistoryExplainsState'
  <2> SUFFICES ASSUME NEW d \in Case
               PROVE  LET h == history'[d] IN
                      /\ ~Exists(d)' => h = <<>>
                      /\ Exists(d)' => Origin(d)' \in GENESIS_STATES
                      /\ h # <<>> => state'[d] = h[Len(h)].to
                      /\ \A i \in DOMAIN h :
                           h[i].from = Origin(d)' \/ \E j \in 1..(i - 1) : h[j].to = h[i].from
    BY DEF HistoryExplainsState
  <2>1. CASE d = c
    BY <1>5, <1>6, <2>1
  <2>2. CASE d # c
    BY <1>2, <1>4, <1>7, <2>2 DEF CoreInv, HistoryExplainsState
  <2> QED
    BY <2>1, <2>2
<1>12. NoStageSkipped'
  BY <1>6, <1>7, GenesisIsClosed DEF CoreInv, NoStageSkipped
<1>13. CallsJustified'
  <2>1. \A d \in Case \ {c} : Exists(d)' => Exists(d) /\ Entered(d) \subseteq Entered(d)'
    BY <1>7
  <2>2. \A q \in Request :
          pc'[q] = "commit" => pc[q] = "commit" /\ tx'[q] = tx[q] /\ tx[q].kase # c
    BY DEF NoNewCall
  <2> QED
    BY <2>1, <2>2, CallStaysJustified DEF CoreInv, CallsJustified
<1>14. Lifecycle!Create(c)
  <2>1. [d \in Case |-> Entered(d)]' = [[d \in Case |-> Entered(d)] EXCEPT ![c] = @ \cup {s}]
    BY <1>6, <1>7
  <2> QED
    BY <1>2, <2>1, SameTable DEF Lifecycle!Create, Lifecycle!Enter, Exists
<1>15. Lifecycle!OneActivePerStudent'
  BY <1>9, SameTable, PTL
<1> QED
  BY <1>8, <1>9, <1>10, <1>11, <1>12, <1>13, <1>14, <1>15 DEF CoreInv, Lifecycle!Next

\* A row that is deleted: no event is about it, and no call can commit to it.
LEMMA DeleteKeepsCore ==
  ASSUME CoreInv, NEW c \in Case, history[c] = <<>>, state' = [state EXCEPT ![c] = NoCase],
         UNCHANGED history, NoNewCall
  PROVE  CoreInv'
<1>1. state'[c] = NoCase /\ \A d \in Case \ {c} : state'[d] = state[d]
  BY DEF CoreInv, TypeOK
<1>2. ~Exists(c)' /\ Entered(c)' = {}
  BY <1>1 DEF Exists, Entered
<1>3. ASSUME NEW d \in Case \ {c}
      PROVE  /\ Exists(d)' <=> Exists(d)
             /\ Origin(d)' = Origin(d)
             /\ Entered(d)' = Entered(d)
             /\ Active(d)' <=> Active(d)
  BY <1>1 DEF Exists, Origin, Entered, Active
<1>4. TypeOK'
  <2>1. state' \in [Case -> CaseState \cup {NoCase}]
    BY DEF CoreInv, TypeOK
  <2> QED
    BY <2>1 DEF CoreInv, TypeOK, NoNewCall
<1>5. OneActiveCase'
  BY <1>2, <1>3 DEF CoreInv, OneActiveCase, Active
<1>6. EventsPermitted'
  BY DEF CoreInv, EventsPermitted, Permitted
<1>7. HistoryExplainsState'
  <2> SUFFICES ASSUME NEW d \in Case
               PROVE  LET h == history'[d] IN
                      /\ ~Exists(d)' => h = <<>>
                      /\ Exists(d)' => Origin(d)' \in GENESIS_STATES
                      /\ h # <<>> => state'[d] = h[Len(h)].to
                      /\ \A i \in DOMAIN h :
                           h[i].from = Origin(d)' \/ \E j \in 1..(i - 1) : h[j].to = h[i].from
    BY DEF HistoryExplainsState
  <2>1. CASE d = c
    BY <1>2, <2>1
  <2>2. CASE d # c
    BY <1>1, <1>3, <2>2 DEF CoreInv, HistoryExplainsState
  <2> QED
    BY <2>1, <2>2
<1>8. NoStageSkipped'
  BY <1>2, <1>3 DEF CoreInv, NoStageSkipped
<1>9. CallsJustified'
  <2>1. \A d \in Case : Exists(d)' => Exists(d) /\ Entered(d) \subseteq Entered(d)'
    BY <1>2, <1>3
  <2>2. \A q \in Request : pc'[q] = "commit" => pc[q] = "commit" /\ tx'[q] = tx[q]
    BY DEF NoNewCall
  <2> QED
    BY <2>1, <2>2, CallStaysJustified DEF CoreInv, CallsJustified
<1> QED
  BY <1>4, <1>5, <1>6, <1>7, <1>8, <1>9 DEF CoreInv

\* A commit: the case may have moved on since the call read it, but it has been
\* where the call starts from, and the index is asked again.
LEMMA CommitKeepsCore ==
  ASSUME CoreInv, NEW r \in Request, CommitTransition(r)
  PROVE  CoreInv' /\ Lifecycle!Next
<1> DEFINE t == tx[r]
<1>1. PICK k \in Case : k = tx[r].kase
  BY DEF CoreInv, TypeOK, CommitTransition, InFlight
<1> DEFINE n == Len(history[k])
<1>2. /\ t \in InFlight
      /\ Exists(k)
      /\ IndexAccepts(k, t.to)
      /\ state'[k] = t.to
      /\ n \in Nat
      /\ DOMAIN history[k] = 1..n
      /\ DOMAIN history'[k] = 1..(n + 1)
      /\ Len(history'[k]) = n + 1
      /\ history'[k][n + 1] = EventOf(t)
      /\ \A i \in 1..n : history'[k][i] = history[k][i]
      /\ \A d \in Case \ {k} : state'[d] = state[d] /\ history'[d] = history[d]
  BY <1>1, CommitWrites DEF CoreInv
<1>3. /\ t.from \in Entered(k)
      /\ Permitted(EventOf(t))
      /\ t.to \in CaseState
  BY <1>1, <1>2 DEF CoreInv, CallsJustified, CommitTransition, InFlight
<1>4. \A d \in Case :
        /\ Exists(d)' <=> Exists(d)
        /\ Exists(d) => Origin(d)' = Origin(d)
        /\ Entered(d)' = IF d = k THEN Entered(d) \cup {t.to} ELSE Entered(d)
  BY <1>1, CommitEnters DEF CoreInv
<1>5. /\ state' = [state EXCEPT ![k] = t.to]
      /\ history' = [history EXCEPT ![k] = Append(@, EventOf(t))]
      /\ pc' = [pc EXCEPT ![r] = "committed"]
      /\ tx' = tx
  BY <1>1 DEF CommitTransition
<1>6. EventOf(t) \in Event
  BY <1>2 DEF InFlight, EventOf, Event
<1>7. LegalMove(t.from, t.to)
  BY <1>3 DEF Permitted, EventOf, LegalMove
<1>8. TypeOK'
  <2>1. state' \in [Case -> CaseState \cup {NoCase}]
    BY <1>3, <1>5 DEF CoreInv, TypeOK
  <2>2. history' \in [Case -> Seq(Event)]
    <3>1. history \in [Case -> Seq(Event)]
      BY DEF CoreInv, TypeOK
    <3>2. Append(history[k], EventOf(t)) \in Seq(Event)
      BY <1>6, <3>1
    <3> HIDE DEF t
    <3> QED
      BY <1>5, <3>1, <3>2
  <2>3. pc' \in [Request -> Label]
    BY <1>5, ConstantsOK DEF CoreInv, TypeOK
  <2>4. tx' \in [Request -> InFlight \cup {NoTx}]
    BY <1>5 DEF CoreInv, TypeOK
  <2>5. \A q \in Request : pc'[q] \in {"commit", "committed"} => tx'[q] \in InFlight
    BY <1>2, <1>5 DEF CoreInv, TypeOK
  <2> QED
    BY <2>1, <2>2, <2>3, <2>4, <2>5 DEF TypeOK
<1>9. OneActiveCase'
  <2>1. \A d \in Case \ {k} : Active(d)' <=> Active(d)
    BY <1>2, <1>4 DEF Active
  <2>2. Active(k)' => \A d \in Case \ {k} : OwnerOf[d] = OwnerOf[k] => ~Active(d)
    BY <1>2 DEF Active, IndexAccepts
  <2> QED
    BY <2>1, <2>2 DEF CoreInv, OneActiveCase
<1>10. EventsPermitted'
  <2> SUFFICES ASSUME NEW d \in Case, NEW i \in DOMAIN history'[d]
               PROVE  Permitted(history'[d][i])
    BY DEF EventsPermitted, Permitted
  <2>1. CASE d = k
    <3>1. i \in 1..n \/ i = n + 1
      BY <1>2, <2>1
    <3> QED
      BY <1>2, <1>3, <2>1, <3>1 DEF CoreInv, EventsPermitted
  <2>2. CASE d # k
    BY <1>2, <2>2 DEF CoreInv, EventsPermitted
  <2> QED
    BY <2>1, <2>2
<1>11. HistoryExplainsState'
  <2> SUFFICES ASSUME NEW d \in Case
               PROVE  LET h == history'[d] IN
                      /\ ~Exists(d)' => h = <<>>
                      /\ Exists(d)' => Origin(d)' \in GENESIS_STATES
                      /\ h # <<>> => state'[d] = h[Len(h)].to
                      /\ \A i \in DOMAIN h :
                           h[i].from = Origin(d)' \/ \E j \in 1..(i - 1) : h[j].to = h[i].from
    BY DEF HistoryExplainsState
  <2>1. CASE d # k
    <3>1. /\ state'[d] = state[d] /\ history'[d] = history[d]
          /\ Exists(d)' <=> Exists(d)
          /\ Origin(d)' = Origin(d)
      BY <1>2, <1>4, <2>1 DEF Origin
    <3> QED
      BY <3>1 DEF CoreInv, HistoryExplainsState
  <2>2. CASE d = k
    <3>1. Exists(k)' /\ Origin(k)' = Origin(k) /\ Origin(k) \in GENESIS_STATES
      BY <1>2, <1>4 DEF CoreInv, HistoryExplainsState
    <3>2. history'[k][n + 1].to = t.to /\ history'[k][n + 1].from = t.from
      BY <1>2 DEF EventOf
    <3>3. \A i \in 1..n : \/ history'[k][i].from = Origin(k)
                         \/ \E j \in 1..(i - 1) : history'[k][j].to = history'[k][i].from
      BY <1>2 DEF CoreInv, HistoryExplainsState
    <3>4. t.from = Origin(k) \/ \E j \in 1..n : history'[k][j].to = t.from
      <4>1. t.from = state[k] \/ t.from = Origin(k) \/ \E j \in 1..n : history[k][j].to = t.from
        BY <1>2, <1>3 DEF Entered
      <4>2. state[k] = Origin(k) \/ \E j \in 1..n : history[k][j].to = state[k]
        <5>1. CASE history[k] = <<>>
          BY <5>1 DEF Origin
        <5>2. CASE history[k] # <<>>
          <6>1. n >= 1
            BY <1>2, <5>2 DEF CoreInv, TypeOK
          <6> QED
            BY <1>2, <5>2, <6>1 DEF CoreInv, HistoryExplainsState
        <5> QED
          BY <5>1, <5>2
      <4> QED
        BY <1>2, <4>1, <4>2
    <3>5. \A i \in 1..(n + 1) : i \in 1..n \/ (i = n + 1 /\ 1..(i - 1) = 1..n)
      BY <1>2
    <3> QED
      BY <1>2, <2>2, <3>1, <3>2, <3>3, <3>4, <3>5
  <2> QED
    BY <2>1, <2>2
<1>12. NoStageSkipped'
  <2> SUFFICES ASSUME NEW d \in Case
               PROVE  \A m \in MUST_FOLLOW : m[1] \in Entered(d)' => m[2] \in Entered(d)'
    BY DEF NoStageSkipped
  <2>1. \A m \in MUST_FOLLOW : m[1] \in Entered(d) => m[2] \in Entered(d)
    BY DEF CoreInv, NoStageSkipped
  <2>2. CASE d # k
    BY <1>4, <2>1, <2>2
  <2>3. CASE d = k
    <3>1. \A m \in MUST_FOLLOW :
            m[1] \in Entered(k) \cup {t.to} => m[2] \in Entered(k) \cup {t.to}
      BY <1>3, <1>7, <2>1, <2>3, MoveKeepsClosure
    <3> QED
      BY <1>4, <2>3, <3>1
  <2> QED
    BY <2>2, <2>3
<1>13. CallsJustified'
  <2>1. \A d \in Case : Exists(d)' => Exists(d) /\ Entered(d) \subseteq Entered(d)'
    BY <1>4
  <2>2. tx' = tx
    BY <1>5
  <2>3. \A q \in Request : /\ pc'[q] = "commit" => pc[q] = "commit"
                           /\ pc'[q] = "committed" => pc[q] \in {"commit", "committed"}
    BY <1>5 DEF CoreInv, TypeOK, CommitTransition
  <2> QED
    BY <2>1, <2>2, <2>3, CallStaysJustified DEF CoreInv, CallsJustified
<1>14. Lifecycle!Move(k)
  <2>1. [d \in Case |-> Entered(d)]' = [[d \in Case |-> Entered(d)] EXCEPT ![k] = @ \cup {t.to}]
    BY <1>4
  <2>2. PICK row \in TRANSITIONS : row.from = t.from /\ row.to = t.to
    BY <1>7 DEF LegalMove
  <2>3. [d \in Case |-> Entered(d)][k] = Entered(k)
    OBVIOUS
  <2> QED
    BY <1>3, <1>5, <2>1, <2>2, <2>3, SameTable DEF Lifecycle!Move, Lifecycle!Enter
<1>15. Lifecycle!OneActivePerStudent'
  BY <1>9, SameTable, PTL
<1> QED
  BY <1>8, <1>9, <1>10, <1>11, <1>12, <1>13, <1>14, <1>15 DEF CoreInv, Lifecycle!Next

\* An admitted call changes no table, and is justified by the state it has just
\* read.
LEMMA BeginKeepsCore ==
  ASSUME CoreInv, NEW r \in Request, NEW c \in Case, NEW to \in CaseState, NEW actor \in Actor,
         NEW reason, NEW ctx, NEW next \in Continuation,
         BeginTransition(r, c, to, actor, reason, ctx, next)
  PROVE  CoreInv' /\ UNCHANGED Lifecycle!vars
<1> DEFINE t == [kase |-> c, from |-> state[c], to |-> to, actor |-> actor, next |-> next]
<1>0. /\ UNCHANGED <<state, history>>
      /\ \A q \in Request \ {r} : pc'[q] = pc[q] /\ tx'[q] = tx[q]
      /\ pc' \in [Request -> Label] /\ tx' \in [Request -> InFlight \cup {NoTx}]
      /\ tx'[r] \in InFlight
      /\ tx'[r] = t
      /\ Exists(c)
      /\ Permitted(EventOf(tx'[r]))
  BY BeginAdmits DEF CoreInv
<1>1. tx'[r].kase = c /\ tx'[r].from = state[c]
  BY <1>0
<1> HIDE DEF t
<1>2. TypeOK'
  BY <1>0 DEF CoreInv, TypeOK
<1>3. CallsJustified'
  <2> SUFFICES ASSUME NEW q \in Request, pc'[q] = "commit"
               PROVE  /\ Permitted(EventOf(tx[q]))'
                      /\ (Exists(tx[q].kase) => tx[q].from \in Entered(tx[q].kase))'
    BY DEF CallsJustified
  <2>1. CASE q = r
    <3>1. Exists(tx[r].kase)' /\ Permitted(EventOf(tx[r]))'
      BY <1>0, <1>1 DEF Exists, Permitted, EventOf
    <3>2. (tx[r].from \in Entered(tx[r].kase))'
      BY <1>0, <1>1, <3>1 DEF Entered
    <3> QED
      BY <2>1, <3>1, <3>2
  <2>2. CASE q # r
    <3>1. pc'[q] = pc[q] /\ tx'[q] = tx[q]
      BY <1>0, <2>2
    <3>2. \A d \in Case : Exists(d)' => Exists(d) /\ Entered(d) \subseteq Entered(d)'
      BY <1>0, TablesKeepCore
    <3> QED
      BY <3>1, <3>2, CallStaysJustified DEF CoreInv, CallsJustified
  <2> QED
    BY <2>1, <2>2
<1> QED
  BY <1>0, <1>2, <1>3, TablesKeepCore DEF CoreInv, Lifecycle!vars

\* A step that leaves the tables and the waiting calls alone.
LEMMA QuietStepKeepsCore ==
  ASSUME CoreInv, UNCHANGED <<state, history>>, NoNewCall
  PROVE  CoreInv' /\ UNCHANGED Lifecycle!vars
<1>1. TypeOK'
  BY DEF CoreInv, TypeOK, NoNewCall
<1>2. CallsJustified'
  <2>1. \A d \in Case : Exists(d)' => Exists(d) /\ Entered(d) \subseteq Entered(d)'
    BY TablesKeepCore
  <2>2. \A q \in Request : pc'[q] = "commit" => pc[q] = "commit" /\ tx'[q] = tx[q]
    BY DEF NoNewCall
  <2> QED
    BY <2>1, <2>2, CallStaysJustified DEF CoreInv, CallsJustified
<1> QED
  BY <1>1, <1>2, TablesKeepCore DEF CoreInv, Lifecycle!vars

\* Whatever the executor answers to a service that does not catch.
LEMMA CallKeepsCore ==
  ASSUME CoreInv, NEW r \in Request, NEW c \in Case, NEW to \in CaseState, NEW actor \in Actor,
         NEW reason, NEW ctx, NEW next \in Continuation,
         TransitionOrFail(r, c, to, actor, reason, ctx, next)
  PROVE  /\ CoreInv' /\ UNCHANGED Lifecycle!vars
         /\ UNCHANGED <<state, history>>
<1>1. CASE BeginTransition(r, c, to, actor, reason, ctx, next)
  BY <1>1, BeginKeepsCore DEF BeginTransition
<1>2. CASE Respond(r) /\ UNCHANGED <<state, history>>
  BY <1>2, RespondIsNoCall, QuietStepKeepsCore DEF CoreInv
<1> QED
  BY <1>1, <1>2 DEF TransitionOrFail

\* The executor's own steps, and the death of a request.
LEMMA ExecutorKeepsCore ==
  ASSUME CoreInv, NEW r \in Request, ExecutorStep(r) \/ Crash(r)
  PROVE  CoreInv' /\ [Lifecycle!Next]_(Lifecycle!vars)
<1>1. CASE CommitTransition(r)
  BY <1>1, CommitKeepsCore
<1>2. CASE AbortTransition(r) \/ ReturnFromTransition(r) \/ Crash(r)
  BY <1>2, LeavingIsNoCall, QuietStepKeepsCore DEF CoreInv
<1> QED
  BY <1>1, <1>2 DEF ExecutorStep

-----------------------------------------------------------------------------
(* The same, when no service deletes a case.                               *)

\* The invariant says more: the case a call waits for is there.
LEMMA CoreFollows == IInv => CoreInv
BY DEF IInv, CoreInv, CallsInFlight, CallsJustified

\* Calls that wait are not stranded by a step that deletes no case.
LEMMA CasesStay ==
  ASSUME IInv, CoreInv', \A d \in Case : Exists(d) => Exists(d)',
         \A q \in Request : pc'[q] = "commit" =>
           (pc[q] = "commit" /\ tx'[q] = tx[q]) \/ Exists(tx[q].kase)'
  PROVE  IInv'
<1>1. ASSUME NEW q \in Request, pc'[q] = "commit"
      PROVE  (Exists(tx[q].kase) /\ tx[q].from \in Entered(tx[q].kase) /\ Permitted(EventOf(tx[q])))'
  <2>1. Exists(tx[q].kase)'
    <3>1. CASE pc[q] = "commit" /\ tx'[q] = tx[q]
      <4>1. PICK k \in Case : k = tx[q].kase
        BY <3>1 DEF IInv, TypeOK, InFlight
      <4>2. Exists(k)
        BY <3>1, <4>1 DEF IInv, CallsInFlight
      <4> QED
        BY <3>1, <4>1, <4>2 DEF Exists
    <3> QED
      BY <1>1, <3>1
  <2> QED
    BY <1>1, <2>1 DEF CoreInv, CallsJustified
<1>2. CallsInFlight'
  BY <1>1 DEF CallsInFlight
<1> QED
  BY <1>2 DEF IInv, CoreInv

\* A step that leaves the tables alone keeps what is said of the tables.
LEMMA TablesKeepInv ==
  ASSUME IInv, UNCHANGED <<state, history>>
  PROVE  /\ OneActiveCase'
         /\ EventsPermitted'
         /\ HistoryExplainsState'
         /\ NoStageSkipped'
         /\ UNCHANGED <<state, [c \in Case |-> Entered(c)]>>
         /\ \A d \in Case : (Exists(d)' <=> Exists(d)) /\ Entered(d)' = Entered(d)
BY CoreFollows, TablesKeepCore

\* A new row, which no call waits for.
LEMMA InsertKeepsInv ==
  ASSUME IInv, NEW c \in Case, NEW s \in GENESIS_STATES, InsertCase(c, s),
         UNCHANGED history, NoNewCall
  PROVE  IInv' /\ Lifecycle!Next
<1>1. \A q \in Request : pc[q] = "commit" => tx[q].kase # c
  BY DEF IInv, CallsInFlight, InsertCase
<1>2. CoreInv' /\ Lifecycle!Next
  BY <1>1, CoreFollows, InsertKeepsCore
<1>3. \A d \in Case : Exists(d) => Exists(d)'
  BY DEF InsertCase, Exists, IInv, TypeOK
<1> QED
  BY <1>2, <1>3, CasesStay DEF NoNewCall

\* A step that leaves the tables and the waiting calls alone.
LEMMA QuietStepKeepsInv ==
  ASSUME IInv, UNCHANGED <<state, history>>, NoNewCall
  PROVE  IInv' /\ UNCHANGED Lifecycle!vars
<1>1. CoreInv' /\ UNCHANGED Lifecycle!vars
  BY CoreFollows, QuietStepKeepsCore
<1> QED
  BY <1>1, TablesKeepInv, CasesStay DEF NoNewCall

\* An admitted call has read a row that is there.
LEMMA BeginKeepsInv ==
  ASSUME IInv, NEW r \in Request, NEW c \in Case, NEW to \in CaseState, NEW actor \in Actor,
         NEW reason, NEW ctx, NEW next \in Continuation,
         BeginTransition(r, c, to, actor, reason, ctx, next)
  PROVE  IInv' /\ UNCHANGED Lifecycle!vars
<1>1. CoreInv' /\ UNCHANGED Lifecycle!vars
  BY CoreFollows, BeginKeepsCore
<1>2. /\ UNCHANGED <<state, history>>
      /\ \A q \in Request \ {r} : pc'[q] = pc[q] /\ tx'[q] = tx[q]
      /\ tx'[r].kase = c
      /\ Exists(c)
  <2>1. tx'[r] = [kase |-> c, from |-> state[c], to |-> to, actor |-> actor, next |-> next]
    BY BeginAdmits DEF IInv
  <2>2. tx'[r].kase = c
    BY <2>1
  <2> QED
    BY <2>2, BeginAdmits DEF IInv
<1>3. Exists(tx[r].kase)'
  BY <1>2 DEF Exists
<1> QED
  BY <1>1, <1>2, <1>3, TablesKeepInv, CasesStay

\* Whatever the executor answers to a service that does not catch.
LEMMA CallKeepsInv ==
  ASSUME IInv, NEW r \in Request, NEW c \in Case, NEW to \in CaseState, NEW actor \in Actor,
         NEW reason, NEW ctx, NEW next \in Continuation,
         TransitionOrFail(r, c, to, actor, reason, ctx, next)
  PROVE  /\ IInv' /\ UNCHANGED Lifecycle!vars
         /\ UNCHANGED <<state, history>>
<1>1. CASE BeginTransition(r, c, to, actor, reason, ctx, next)
  BY <1>1, BeginKeepsInv DEF BeginTransition
<1>2. CASE Respond(r) /\ UNCHANGED <<state, history>>
  BY <1>2, RespondIsNoCall, QuietStepKeepsInv DEF IInv
<1> QED
  BY <1>1, <1>2 DEF TransitionOrFail

\* The executor's own steps, and the death of a request.
LEMMA ExecutorKeepsInv ==
  ASSUME IInv, NEW r \in Request, ExecutorStep(r) \/ Crash(r)
  PROVE  IInv' /\ [Lifecycle!Next]_(Lifecycle!vars)
<1>1. CoreInv' /\ [Lifecycle!Next]_(Lifecycle!vars)
  BY CoreFollows, ExecutorKeepsCore
<1>2. CASE CommitTransition(r)
  <2>1. \A d \in Case : Exists(d) => Exists(d)'
    BY <1>2, CoreFollows, CommitEnters DEF CoreInv
  <2>2. \A q \in Request : pc'[q] = "commit" => pc[q] = "commit" /\ tx'[q] = tx[q]
    BY <1>2 DEF CommitTransition, IInv, TypeOK
  <2> QED
    BY <1>1, <2>1, <2>2, CasesStay
<1>3. CASE AbortTransition(r) \/ ReturnFromTransition(r) \/ Crash(r)
  BY <1>3, LeavingIsNoCall, QuietStepKeepsInv DEF IInv
<1> QED
  BY <1>2, <1>3 DEF ExecutorStep

-----------------------------------------------------------------------------
(* Who runs, and with which locals.                                        *)

\* Only r runs.
OnlyRuns(r) ==
  \A q \in Request \ {r} : pc'[q] = pc[q] /\ tx'[q] = tx[q] /\ frame'[q] = frame[q]

\* A request that awaits something runs alone.
LEMMA AwaitRuns ==
  ASSUME TypeOK, DOMAIN frame = Request, NEW r \in Request, NEW label, NEW f, Await(r, label, f)
  PROVE  OnlyRuns(r) /\ pc'[r] = label /\ tx'[r] = tx[r] /\ frame'[r] = f
BY DEF TypeOK, Await, OnlyRuns

\* So does one that is answered,
LEMMA RespondRuns ==
  ASSUME TypeOK, DOMAIN frame = Request, NEW r \in Request, Respond(r)
  PROVE  OnlyRuns(r) /\ pc'[r] = "idle"
BY DEF TypeOK, Respond, OnlyRuns

\* and one that calls the executor, which takes the arguments of the call.
LEMMA BeginRuns ==
  ASSUME TypeOK, NEW r \in Request, NEW c, NEW to, NEW actor, NEW reason, NEW ctx, NEW next,
         BeginTransition(r, c, to, actor, reason, ctx, next), UNCHANGED frame
  PROVE  /\ OnlyRuns(r)
         /\ pc'[r] = "commit" /\ frame'[r] = frame[r]
         /\ tx'[r].kase = c /\ tx'[r].to = to /\ tx'[r].next = next
<1> DEFINE t == [kase |-> c, from |-> state[c], to |-> to, actor |-> actor, next |-> next]
<1>1. tx' = [tx EXCEPT ![r] = t] /\ pc' = [pc EXCEPT ![r] = "commit"]
  BY DEF BeginTransition
<1>2. t.kase = c /\ t.to = to /\ t.next = next
  OBVIOUS
<1> HIDE DEF t
<1> QED
  BY <1>1, <1>2 DEF TypeOK, OnlyRuns
================================================================================
