---------------------------- MODULE BackgroundWork ----------------------------
(***************************************************************************)
(* The worker with its five queues, the cases and tokens its sweeps read    *)
(* while people move them, and the semesters an Admin opens and closes.     *)
(***************************************************************************)
EXTENDS SlaSweeps, Roster

\* Where a behaviour begins, [registered, status, entered, events, semesters], and
\* its bounds: until, how far the clock runs; stages[c], the states c moves to;
\* admin, the requests Admins make.
CONSTANT Starts

\* Nothing was sent yet, so no event of a beginning is younger than an escalation.
ASSUME BackgroundOK ==
  /\ NoCase \notin CaseState /\ OwnerOf \in [Case -> User]
  /\ \A b \in Starts :
       /\ b.registered \subseteq QueueName /\ b.until \in 0..MaxTime
       /\ b.status \in [Case -> CaseState \cup {NoCase}]
       /\ b.events \in [Case -> Seq([to : CaseState, time : 0..MaxTime, seen : {0}])]
       /\ b.semesters \in [Semester -> SemesterRow \cup {NoSemester}]
       /\ \A m, n \in Semester :
            b.semesters[m].status = "OPEN" /\ b.semesters[n].status = "OPEN" => m = n

backgroundVars == <<vars, jobVars, noticeVars, tokens, semesters>>

BackgroundInit ==
  /\ JobsInit
  /\ \E b \in Starts :
       /\ bounds = [until |-> b.until, stages |-> b.stages, admin |-> b.admin]
       /\ registered = b.registered /\ status = b.status
       /\ entered = b.entered /\ events = b.events /\ semesters = b.semesters
  /\ notifications = [t \in Template |-> [c \in Case |-> <<>>]]
  /\ mail = {}
  /\ tokens = <<>>

\* People: nobody has to do anything.
CasesMove ==
  \/ \E c \in Case : /\ CaseMoves(c) /\ status'[c] \in bounds.stages[c]
                     /\ UNCHANGED <<jobVars, tokens, semesters>>
  \/ \E c \in Case : /\ Create(c) /\ status'[c] \in bounds.stages[c] /\ OneActivePerStudent'
                     /\ UNCHANGED <<jobVars, noticeVars, tokens, semesters>>

TokensChange ==
  /\ (\E c \in Case : IssueToken(c)) \/ (\E i \in DOMAIN tokens : UseToken(i))
  /\ UNCHANGED <<vars, jobVars, noticeVars, semesters>>

PostSemester ==
  /\ "semester" \in bounds.admin
  /\ \E n \in Semester : NextSequenceNumber(n) /\ CreateSemester(n, NoDeadline)
  /\ UNCHANGED <<vars, jobVars, noticeVars, tokens>>

PostClose ==
  /\ "semester" \in bounds.admin
  /\ \E n \in Semester : CloseSemester(n)
  /\ UNCHANGED <<vars, jobVars, noticeVars, tokens>>

PostDeadline ==
  /\ "deadline" \in bounds.admin
  /\ \E n \in Semester, d \in 0..bounds.until \cup {NoDeadline} : SetSemesterDeadline(n, d)
  /\ UNCHANGED <<vars, jobVars, noticeVars, tokens>>

AdminRequests ==
  /\ "semester" \in bounds.admin
  /\ \E w \in WebTask : (\E n \in Semester : OpenSemester(w, n)) \/ StartAutoEnrollment(w)
  /\ UNCHANGED <<vars, noticeVars, tokens, semesters>>

\* What the process does next for task q.
AdminStep(w) ==
  \/ OpenCommit(w) /\ UNCHANGED <<vars, noticeVars, tokens>>
  \/ EnrollStudent(w) /\ UNCHANGED <<noticeVars, tokens, semesters>>
  \/ Finish(w) /\ UNCHANGED <<vars, noticeVars, tokens, semesters>>

EscalationJob ==
  /\ \/ StartFocalSlaSweep /\ UNCHANGED noticeVars
     \/ FocalSlaCheck("sla-escalation-sweep") /\ UNCHANGED noticeVars
     \/ Deliver("sla-escalation-sweep")
     \/ Finish("sla-escalation-sweep") /\ UNCHANGED noticeVars
  /\ UNCHANGED <<vars, tokens, semesters>>

ReminderJob ==
  /\ \/ StartReminderSweep /\ UNCHANGED <<noticeVars, tokens>>
     \/ ReminderCheck("supervisor-reminder-sweep") /\ UNCHANGED <<noticeVars, tokens>>
     \/ Deliver("supervisor-reminder-sweep") /\ UNCHANGED tokens
     \/ RecordReminder("supervisor-reminder-sweep") /\ UNCHANGED noticeVars
     \/ Finish("supervisor-reminder-sweep") /\ UNCHANGED <<noticeVars, tokens>>
  /\ UNCHANGED <<vars, semesters>>

DeadlineJob ==
  /\ \/ StartDeadlineSweep /\ UNCHANGED noticeVars
     \/ DeadlineCheck("deadline-sweep") /\ UNCHANGED noticeVars
     \/ Deliver("deadline-sweep")
     \/ Finish("deadline-sweep") /\ UNCHANGED noticeVars
  /\ UNCHANGED <<vars, tokens, semesters>>

EnrollmentJob ==
  /\ \/ StartAutoEnrollment("roster-sweep") /\ UNCHANGED vars
     \/ EnrollStudent("roster-sweep")
     \/ Finish("roster-sweep") /\ UNCHANGED vars
  /\ UNCHANGED <<noticeVars, tokens, semesters>>

MailJob ==
  /\ \/ DispatchTransition
     \/ Deliver("case-notifications")
     \/ Finish("case-notifications") /\ UNCHANGED noticeVars
  /\ UNCHANGED <<vars, tokens, semesters>>

BackgroundNext ==
  \/ CasesMove \/ TokensChange \/ PostSemester \/ PostClose \/ PostDeadline \/ AdminRequests
  \/ \E w \in WebTask : AdminStep(w)
  \/ EscalationJob \/ ReminderJob \/ DeadlineJob \/ EnrollmentJob \/ MailJob
  \/ clock < bounds.until /\ Tick /\ UNCHANGED <<vars, noticeVars, tokens, semesters>>
  \/ WorkerDiesAndRestarts /\ UNCHANGED <<vars, tokens, semesters>>

\* The queues' schedules repeat and each queue has a worker of its own, restarted
\* when it dies; requests that were accepted go on.
BackgroundSpec ==
  /\ BackgroundInit /\ [][BackgroundNext]_backgroundVars
  /\ WF_backgroundVars(EscalationJob) /\ WF_backgroundVars(ReminderJob)
  /\ WF_backgroundVars(DeadlineJob) /\ WF_backgroundVars(EnrollmentJob)
  /\ WF_backgroundVars(MailJob)
  /\ \A w \in WebTask : WF_backgroundVars(AdminStep(w))

-----------------------------------------------------------------------------
(* Properties.                                                             *)

\* Every table keeps its type.
BackgroundTypeOK ==
  /\ registered \subseteq PeriodicQueue \cup {"case-notifications"}
  /\ clock \in 0..MaxTime /\ crashes \in 0..MaxCrashes
  /\ DOMAIN job = Task
  /\ NoticesTypeOK
  /\ tokens \in Seq(Token)
  /\ semesters \in [Semester -> SemesterRow \cup {NoSemester}]

\* Nobody is told the same thing twice: of one stay in a state, of one
\* supervisor's silence, of one missed deadline, although each check comes well
\* before its row and the worker may die between two recipients; and of a move,
\* unless a worker died while it was mailing.
NobodyToldTwice ==
  \A t \in Template \ {"supervisor-first-reminder", "supervisor-second-reminder"}, c \in Case :
    t \in SweepTemplate \/ crashes = 0
      => Cardinality(Told(t, c)) = Len(notifications[t][c])
================================================================================
