----------------------------- MODULE Notifications -----------------------------
(***************************************************************************)
(* The notifications table and who is told what                            *)
(* (src/server/notifications/{service,templates}.ts).  The cases move as    *)
(* CaseLifecycle lets them, which CaseExecutor implements.  Each move may   *)
(* enqueue one case-notifications job: the enqueue is best effort, and the  *)
(* jobs of moves that overlap can be enqueued in any order.                *)
(*                                                                         *)
(* A row is compared in time only with rows of its own template and case,  *)
(* so rows are kept by both, in order of creation.  A row's status (SENT,   *)
(* FAILED) is left out: deliver() catches a failed mail and nothing reads   *)
(* the status back.                                                        *)
(***************************************************************************)
EXTENDS CaseLifecycle, JobQueues, Sequences, FiniteSets

CONSTANTS
  User, RolesOf,
  AssignedTo,     \* AssignedTo[s]: the staff assigned to the department of student s
  Supervisor,     \* the workplace supervisor of a case: an address, not an account
  MaxTime,         \* bound on the clock
  MaxEvents       \* bound on the case_events of a case

ASSUME NotificationsOK ==
  /\ RolesOf \in [User -> SUBSET RoleName] /\ AssignedTo \in [User -> SUBSET User]
  /\ Supervisor \notin User /\ MaxTime \in Nat /\ MaxEvents \in Nat

\* A template of a transition is named by the state that is entered.
SweepTemplate == {"focal-sla-escalation", "supervisor-first-reminder",
                  "supervisor-second-reminder", "supervisor-unresponsive", "deadline-missed"}
Template == CaseState \cup SweepTemplate

VARIABLES
  events,         \* events[c]: case_events of c, as [to, time, seen]; seen: the SLA
                  \* escalations about c that are older than the event
  notifications,  \* notifications[t][c]: the rows of template t about case c
  mail            \* the jobs waiting in case-notifications

noticeVars == <<events, notifications, mail>>

\* A row: to is the recipient; about says which event or token of the case it
\* was sent for, which the real row does not record.
Told(t, c) == {notifications[t][c][i] : i \in DOMAIN notifications[t][c]}

-----------------------------------------------------------------------------
(* Who is told.                                                            *)

\* TEMPLATES[t].recipients: at most one rule each.
Audience(t) ==
  CASE t \in {"OFFER_UNDER_REVIEW", "PENDING_VERIFICATION", "WITHDRAWN",
              "supervisor-unresponsive", "deadline-missed"} -> "FOCAL"
    [] t \in {"GRADE_RECOMMENDED", "RESTART_REQUESTED", "WAIVER_REQUESTED",
              "focal-sla-escalation"} -> "HOD"
    [] t = "WAIVER_COUNTERSIGNED" -> "DEAN"
    [] t = "VERIFIED" -> "nobody"
    [] t \in {"supervisor-first-reminder", "supervisor-second-reminder"} -> "supervisor"
    [] OTHER -> "STUDENT"

usersWithRole(role) == {u \in User : role \in RolesOf[u]}

\* Focal Persons and HoDs are narrowed to the student's department; a student
\* without one has nobody.
resolveRecipients(t, c) ==
  CASE Audience(t) \in {"FOCAL", "HOD"} -> usersWithRole(Audience(t)) \cap AssignedTo[OwnerOf[c]]
    [] Audience(t) = "DEAN" -> usersWithRole("DEAN")
    [] Audience(t) = "STUDENT" -> {OwnerOf[c]}
    [] Audience(t) = "supervisor" -> {Supervisor}
    [] OTHER -> {}

-----------------------------------------------------------------------------
(* sendNotification() and deliver(), inside a job.                         *)

\* What to send is known and its recipients are resolved.
Send(q, item, t, c, about) ==
  IF resolveRecipients(t, c) = {} THEN Skip(q, item) ELSE
  job' = [job EXCEPT ![q] = [at |-> "deliver", todo |-> @.todo \ {item}, now |-> @.now,
                             template |-> t, kase |-> c, about |-> about,
                             unsent |-> resolveRecipients(t, c)]]

IsReminder(t) == Audience(t) = "supervisor"

\* One recipient gets a row and a mail.  After the last one the job goes on;
\* a reminder has yet to be counted.
Deliver(q) ==
  /\ At(q, "deliver")
  /\ \E u \in job[q].unsent :
       LET j == job[q]  left == j.unsent \ {u} IN
       /\ notifications' = [notifications EXCEPT ![j.template][j.kase] =
                              Append(@, [to |-> u, about |-> j.about])]
       /\ job' = [job EXCEPT ![q] =
                    CASE left # {} -> [j EXCEPT !.unsent = left]
                      [] left = {} /\ IsReminder(j.template) -> [j EXCEPT !.at = "record"]
                      [] OTHER -> [at |-> "next", todo |-> j.todo, now |-> j.now]]
  /\ UNCHANGED <<registered, bounds, clock, crashes, events, mail>>

-----------------------------------------------------------------------------
(* A case moves, and the move is announced.                                *)

\* executeTransition() and enqueueTransitionNotification().
CaseMoves(c) ==
  /\ Len(events[c]) < MaxEvents
  /\ Move(c) /\ OneActivePerStudent'
  /\ events' = [events EXCEPT ![c] =
                  Append(@, [to |-> status'[c], time |-> clock,
                             seen |-> Len(notifications["focal-sla-escalation"][c])])]
  /\ \/ /\ "case-notifications" \in registered
        /\ mail' = mail \cup {[kase |-> c, to |-> status'[c], about |-> Len(events'[c])]}
     \/ UNCHANGED mail
  /\ UNCHANGED notifications

\* dispatchTransitionNotification().  Attempts: 1, so a job leaves the queue
\* when the Worker takes it.
DispatchTransition ==
  LET q == "case-notifications" IN
  /\ At(q, "idle")
  /\ \E m \in mail :
       LET whom == resolveRecipients(m.to, m.kase) IN
       /\ mail' = mail \ {m}
       /\ job' = IF whom = {} THEN job ELSE
                 [job EXCEPT ![q] = [at |-> "deliver", todo |-> {}, now |-> clock,
                                     template |-> m.to, kase |-> m.kase, about |-> m.about,
                                     unsent |-> whom]]
  /\ UNCHANGED <<registered, bounds, clock, crashes, events, notifications>>

\* A job whose Worker died is stalled; BullMQ runs it again, or gives it up.
Stalled(q) ==
  IF At(q, "deliver")
  THEN {[kase |-> job[q].kase, to |-> job[q].template, about |-> job[q].about]} ELSE {}

WorkerDiesAndRestarts ==
  /\ WorkerDies
  /\ mail' \in {mail, mail \cup Stalled("case-notifications")}
  /\ UNCHANGED <<events, notifications>>

-----------------------------------------------------------------------------
(* Properties.                                                             *)

CaseEvent == [to : CaseState, time : 0..MaxTime, seen : Nat]
Notice == [to : User \cup {Supervisor}, about : Nat]
Mail == [kase : Case, to : CaseState, about : Nat]

\* The tables keep their types, and what is sent about a case was sent for an
\* event it has had, to people its department knows.
NoticesTypeOK ==
  /\ events \in [Case -> Seq(CaseEvent)]
  /\ notifications \in [Template -> [Case -> Seq(Notice)]]
  /\ mail \subseteq Mail
  /\ \A t \in Template, c \in Case : \A n \in Told(t, c) : n.to \in resolveRecipients(t, c)
================================================================================
