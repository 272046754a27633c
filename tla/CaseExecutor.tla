------------------------------ MODULE CaseExecutor ------------------------------
(***************************************************************************)
(* executeTransition() of src/server/state-machine/executor.ts, the only   *)
(* writer of cases.state, run by requests that overlap.                    *)
(*                                                                         *)
(* A call is three steps, cut where it awaits the database:                *)
(*   BeginTransition   reads the row OUTSIDE any transaction, looks the    *)
(*                     pair up in TRANSITIONS, checks actor, reason and    *)
(*                     guards (pure, so one step with the read);           *)
(*   CommitTransition  one transaction: UPDATE cases SET state WHERE id    *)
(*                     (no condition on the state that was read), INSERT   *)
(*                     case_events, INSERT audit_events;                   *)
(*   ReturnFromTransition  the best-effort enqueue after the commit, then  *)
(*                     back to the caller at tx[r].next.                   *)
(* A denied call writes a TRANSITION_DENIED audit row and throws: nothing  *)
(* this module models changes, and callers handle the exception.           *)
(*                                                                         *)
(* The service modules EXTEND this one and call its operators; AnyCaller   *)
(* lets anybody call them with any arguments.                              *)
(***************************************************************************)
EXTENDS TransitionTable, Naturals, Sequences

CONSTANTS
  Request,      \* slots for requests and jobs running at the same time
  Case,         \* ids case rows can take
  OwnerOf,      \* OwnerOf[c]: the account behind cases.student_id, never updated
  User,         \* people
  RolesOf,      \* RolesOf[u]: the roles of the session the request runs with
  System,       \* the actor of a scheduled job or a chained step
  NoCase,       \* no row
  Label,        \* where a request can be suspended: the values of pc
  MaxHistory    \* bound: no request about c is accepted once c has had MaxHistory[c] transitions

ASSUME ConstantsOK ==
  /\ RolesOf \in [User -> SUBSET RoleName]
  /\ System \notin User
  /\ NoCase \notin CaseState
  /\ {"idle", "commit", "committed"} \subseteq Label
  /\ MaxHistory \in [Case -> Nat]

\* cases.student_id is a foreign key.
ASSUME OwnersOK == OwnerOf \in [Case -> User]

VARIABLES
  state,      \* cases.state, NoCase while there is no row
  history,    \* history[c]: the case_events of c, in commit order (append-only)
  pc,         \* where each request is
  tx,         \* the executor's locals in a request that is inside it
  frame       \* the calling service's locals in a request, NoFrame when idle

coreVars == <<state, history, pc, tx, frame>>

NoTx == [kase |-> NoCase]
NoFrame == [kase |-> NoCase]

Actor == User \cup {System}

\* actorMatches(): the roles an actor can act in.
Authority(actor) == IF actor = System THEN {"SYSTEM"} ELSE RolesOf[actor]

Holds(u, role) == role \in RolesOf[u]

StudentOf(c) == OwnerOf[c]

Exists(c) == state[c] # NoCase

Active(c) == Exists(c) /\ state[c] \notin TERMINAL_CASE_STATES

\* cases_one_nonterminal_per_student: would the partial unique index accept
\* row c in state s?  Checked by INSERT and by UPDATE alike.
IndexAcceptsAny(c, s) == TRUE
IndexAccepts(c, s) ==
  \/ s \in TERMINAL_CASE_STATES
  \/ \A d \in Case \ {c} : OwnerOf[d] = OwnerOf[c] => ~Active(d)

-----------------------------------------------------------------------------
(* The executor.  An operator defined just before another and used nowhere *)
(* is that operator with a bug in it: the property named for it in         *)
(* PROJECT.json must fail when the bug is put in.                          *)

\* "No transition defined from ... to ...".
IllegalTransition(c, to) == ~LegalMove(state[c], to)

\* Everything executeTransition() checks before its transaction.
AdmitsAnyActor(c, to, actor, reason, ctx) ==
  \E t \in TRANSITIONS : t.from = state[c] /\ t.to = to
Admits(c, to, actor, reason, ctx) ==
  \E t \in TRANSITIONS :
    /\ t.from = state[c] /\ t.to = to
    /\ t.actorRole \in Authority(actor)
    /\ t.requiresReason => reason
    /\ t.guards \subseteq ctx

\* The call is admitted; next is where the caller continues after it.
BeginTransition(r, c, to, actor, reason, ctx, next) ==
  /\ Exists(c)
  /\ Admits(c, to, actor, reason, ctx)
  /\ tx' = [tx EXCEPT ![r] = [kase |-> c, from |-> state[c], to |-> to,
                              actor |-> actor, next |-> next]]
  /\ pc' = [pc EXCEPT ![r] = "commit"]
  /\ UNCHANGED <<state, history>>

\* The call throws.
Denied(c, to, actor, reason, ctx) ==
  ~Exists(c) \/ ~Admits(c, to, actor, reason, ctx)

\* The request is answered (or its process dies): its locals are gone.
Respond(r) ==
  /\ pc' = [pc EXCEPT ![r] = "idle"]
  /\ tx' = [tx EXCEPT ![r] = NoTx]
  /\ frame' = [frame EXCEPT ![r] = NoFrame]

\* A call made by a service that does not catch: it goes on, or the request
\* fails with whatever the service has written before.
TransitionOrFail(r, c, to, actor, reason, ctx, next) ==
  \/ /\ BeginTransition(r, c, to, actor, reason, ctx, next)
     /\ UNCHANGED frame
  \/ /\ Denied(c, to, actor, reason, ctx)
     /\ Respond(r)
     /\ UNCHANGED <<state, history>>

Writable(t) == Exists(t.kase) /\ IndexAccepts(t.kase, t.to)

EventOf(t) == [from |-> t.from, to |-> t.to, actor |-> t.actor]

CommitWithoutEvent(r) ==
  /\ pc[r] = "commit"
  /\ Writable(tx[r])
  /\ state' = [state EXCEPT ![tx[r].kase] = tx[r].to]
  /\ pc' = [pc EXCEPT ![r] = "committed"]
  /\ UNCHANGED <<history, tx, frame>>
CommitTransition(r) ==
  /\ pc[r] = "commit"
  /\ Writable(tx[r])
  /\ state' = [state EXCEPT ![tx[r].kase] = tx[r].to]
  /\ history' = [history EXCEPT ![tx[r].kase] = Append(@, EventOf(tx[r]))]
  /\ pc' = [pc EXCEPT ![r] = "committed"]
  /\ UNCHANGED <<tx, frame>>

\* The transaction is rolled back: the row is gone, or the index refuses it.
AbortTransition(r) ==
  /\ pc[r] = "commit"
  /\ ~Writable(tx[r])
  /\ Respond(r)
  /\ UNCHANGED <<state, history>>

ReturnWithoutLeaving(r) ==
  /\ pc[r] = "committed"
  /\ tx' = [tx EXCEPT ![r] = NoTx]
  /\ UNCHANGED <<state, history, pc, frame>>
ReturnFromTransition(r) ==
  /\ pc[r] = "committed"
  /\ pc' = [pc EXCEPT ![r] = tx[r].next]
  /\ tx' = [tx EXCEPT ![r] = NoTx]
  /\ frame' = [frame EXCEPT ![r] = IF tx[r].next = "idle" THEN NoFrame ELSE @]
  /\ UNCHANGED <<state, history>>

\* The process running r dies between two awaits; nothing resumes r.
Crash(r) ==
  /\ pc[r] # "idle"
  /\ Respond(r)
  /\ UNCHANGED <<state, history>>

ExecutorStep(r) == CommitTransition(r) \/ AbortTransition(r) \/ ReturnFromTransition(r)

\* INSERT of a case row, by whichever service opens one.
UpsertCase(c, s) ==
  /\ IndexAccepts(c, s)
  /\ state' = [state EXCEPT ![c] = s]
InsertCase(c, s) ==
  /\ ~Exists(c)
  /\ IndexAccepts(c, s)
  /\ state' = [state EXCEPT ![c] = s]

\* A request about case c is accepted: a slot is free, and the bound is not
\* reached.
Accepts(r, c) == pc[r] = "idle" /\ Exists(c) /\ Len(history[c]) < MaxHistory[c]

\* The service awaits: r will continue at label with locals f.
Await(r, label, f) ==
  /\ pc' = [pc EXCEPT ![r] = label]
  /\ frame' = [frame EXCEPT ![r] = f]
  /\ UNCHANGED tx

At(r, label) == pc[r] = label

CoreInit ==
  /\ state = [c \in Case |-> NoCase]
  /\ history = [c \in Case |-> <<>>]
  /\ pc = [r \in Request |-> "idle"]
  /\ tx = [r \in Request |-> NoTx]
  /\ frame = [r \in Request |-> NoFrame]

-----------------------------------------------------------------------------
(* Properties.                                                             *)

Event == [from : CaseState, to : CaseState, actor : Actor]

\* Where a caller goes on after the executor.
Continuation == Label \ {"commit", "committed"}

InFlight == [kase : Case, from : CaseState, to : CaseState, actor : Actor, next : Continuation]

\* Every variable has its type, and a request inside the executor has locals.
TypeOK ==
  /\ state \in [Case -> CaseState \cup {NoCase}]
  /\ history \in [Case -> Seq(Event)]
  /\ pc \in [Request -> Label]
  /\ tx \in [Request -> InFlight \cup {NoTx}]
  /\ \A r \in Request : pc[r] \in {"commit", "committed"} => tx[r] \in InFlight

\* BR-06: no student ever has two non-terminal cases, whichever requests
\* insert and move them at the same time.
OneActiveCase ==
  \A c, d \in Case : c # d /\ OwnerOf[c] = OwnerOf[d] => ~(Active(c) /\ Active(d))

Permitted(e) ==
  \E t \in TRANSITIONS :
    t.from = e.from /\ t.to = e.to /\ t.actorRole \in Authority(e.actor)

\* BR-25/BR-26: every row of case_events is a row of the table, signed by an
\* actor who holds the role that row asks for.
EventsPermitted == \A c \in Case : \A i \in DOMAIN history[c] : Permitted(history[c][i])

\* The state the row was inserted in.
Origin(c) == IF history[c] = <<>> THEN state[c] ELSE history[c][1].from

\* The case_events of a case explain it: they begin at the state it was
\* inserted in, each starts from a state the case had really been in by then
\* (though, when calls overlap, perhaps no longer was in), and the last one is
\* the state the row shows.
HistoryExplainsState ==
  \A c \in Case :
    LET h == history[c] IN
    /\ ~Exists(c) => h = <<>>
    /\ Exists(c) => Origin(c) \in GENESIS_STATES
    /\ h # <<>> => state[c] = h[Len(h)].to
    /\ \A i \in DOMAIN h :
         h[i].from = Origin(c) \/ \E j \in 1..(i - 1) : h[j].to = h[i].from

\* Every event of c starts where the one before it ended.  They do not when a call
\* committed on a state that another call had moved the case out of.
EventsChain(c) ==
  \A i \in DOMAIN history[c] : i > 1 => history[c][i].from = history[c][i - 1].to

\* Every state case c has been in.
Entered(c) ==
  IF Exists(c) THEN {state[c], Origin(c)} \cup {history[c][i].to : i \in DOMAIN history[c]}
               ELSE {}

\* No stage is skipped, even by calls that overlap and overwrite one another:
\* a case that is closed was once recommended, verified, pending, ...; a waiver
\* that is granted was once countersigned; a restart was once requested.
NoStageSkipped ==
  \A c \in Case : \A m \in MUST_FOLLOW : m[1] \in Entered(c) => m[2] \in Entered(c)

\* A call between its check and its commit is still justified when it commits,
\* whatever other calls did meanwhile: its case exists, has been in the state
\* the call read, and the table permits the step to the actor who asked.
CallsInFlight ==
  \A r \in Request :
    pc[r] = "commit" => /\ Exists(tx[r].kase)
                        /\ tx[r].from \in Entered(tx[r].kase)
                        /\ Permitted(EventOf(tx[r]))

\* As long as its case exists, when a service may have deleted it meanwhile.
CallsJustified ==
  \A r \in Request :
    pc[r] = "commit" => /\ Permitted(EventOf(tx[r]))
                        /\ Exists(tx[r].kase) => tx[r].from \in Entered(tx[r].kase)

\* The inductive invariant of the executor, whichever services call it,
CoreInv == /\ TypeOK
           /\ OneActiveCase
           /\ EventsPermitted
           /\ HistoryExplainsState
           /\ NoStageSkipped
           /\ CallsJustified

\* and when none of them deletes a case.
IInv == /\ TypeOK
        /\ OneActiveCase
        /\ EventsPermitted
        /\ HistoryExplainsState
        /\ NoStageSkipped
        /\ CallsInFlight

Lifecycle == INSTANCE CaseLifecycle
  WITH status <- state, entered <- [c \in Case |-> Entered(c)]

\* The executor under overlapping calls implements the lifecycle: moves follow
\* table rows from states the case has been in.
ImplementsLifecycle == Lifecycle!Spec
================================================================================
