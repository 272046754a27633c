---------------------------- MODULE BackgroundProofs ----------------------------
(***************************************************************************)
(* Theorems about the worker: its tables keep their types, nobody is told   *)
(* twice, escalations are due, and one semester at most is open.  A queue   *)
(* reads what the others write, but it writes jobs and notifications of its *)
(* own; so each queue has an invariant of its own, which the steps of the   *)
(* others leave alone.                                                     *)
(***************************************************************************)
EXTENDS BackgroundWork, SequenceTheorems, FiniteSetTheorems, WellFoundedInduction, TLAPS

Focal == "sla-escalation-sweep"
Reminder == "supervisor-reminder-sweep"
Deadline == "deadline-sweep"
Mailer == "case-notifications"

-----------------------------------------------------------------------------
(* What a job looks like.                                                  *)

TemplatesOf(q) == CASE q = Focal -> {"focal-sla-escalation"}
                    [] q = Reminder -> {"supervisor-first-reminder", "supervisor-second-reminder",
                                        "supervisor-unresponsive"}
                    [] q = Deadline -> {"deadline-missed"}
                    [] q = Mailer -> CaseState
                    [] OTHER -> {}

ItemsOf(q) == CASE q = Focal -> Case \X FOCAL_PENDING_STATES
                [] q = Reminder -> Nat \X Token
                [] q = Deadline -> Case \X (0..MaxTime)
                [] q = Mailer -> {}
                [] OTHER -> Student

Working(q) == [at : {"next"}, todo : SUBSET ItemsOf(q), now : 0..MaxTime]

Sending(q) == [at : {"deliver", "record"}, todo : SUBSET ItemsOf(q), now : 0..MaxTime,
               template : TemplatesOf(q), kase : Case, about : Nat,
               unsent : SUBSET (User \cup {Supervisor})]

Opening == [at : {"open"}, semester : Semester, seen : SUBSET Semester]

\* j is what task q may be running at time d.
JobOK(q, j, d) ==
  /\ j \in {Idle} \cup Working(q) \cup Sending(q) \cup Opening
  /\ q \in QueueName => j \notin Opening
  /\ j.at \in {"next", "deliver", "record"} => j.now <= d
  /\ j.at = "deliver" => j.unsent \subseteq resolveRecipients(j.template, j.kase)
  /\ j.at = "record" => q = Reminder

JobsOK == job = [q \in Task |-> job[q]] /\ \A q \in Task : JobOK(q, job[q], clock)

TypeInv ==
  /\ registered \subseteq QueueName
  /\ bounds.until \in 0..MaxTime /\ clock \in 0..MaxTime /\ crashes \in 0..MaxCrashes
  /\ status \in [Case -> CaseState \cup {NoCase}]
  /\ JobsOK
  /\ NoticesTypeOK
  /\ tokens \in Seq(Token)
  /\ semesters \in [Semester -> SemesterRow \cup {NoSemester}]

-----------------------------------------------------------------------------
(* The invariant of each queue.                                            *)

\* No row of template t about case c tells anyone of us what was sent for a.
Untold(t, c, a, us) == \A n \in Told(t, c) : n.about = a => n.to \notin us

\* The rows of template t about case c differ.
RowsDiffer(t, c) ==
  \A i, j \in DOMAIN notifications[t][c] : notifications[t][c][i] = notifications[t][c][j] => i = j

SendsNews(q) ==
  job[q].at = "deliver" => Untold(job[q].template, job[q].kase, job[q].about, job[q].unsent)

\* Event i of evs has been overdue at some moment up to d; row k is about such an event, and
\* is younger than it.
EscalatedEvent(evs, i, d) == /\ i \in DOMAIN evs
                             /\ evs[i].to \in FOCAL_PENDING_STATES
                             /\ \E t \in 0..d : isFocalSlaBreached(evs[i], t)

RowWasDue(evs, row, k, d) == EscalatedEvent(evs, row.about, d) /\ k > evs[row.about].seen

EscalationInv ==
  /\ \A c \in Case :
       /\ \A k \in DOMAIN notifications["focal-sla-escalation"][c] :
            RowWasDue(events[c], notifications["focal-sla-escalation"][c][k], k, clock)
       /\ \A i \in DOMAIN events[c] :
            events[c][i].seen <= Len(notifications["focal-sla-escalation"][c])
       /\ RowsDiffer("focal-sla-escalation", c)
  /\ job[Focal].at = "deliver" => EscalatedEvent(events[job[Focal].kase], job[Focal].about, clock)
  /\ SendsNews(Focal)

DeadlineInv ==
  /\ \A c \in Case : RowsDiffer("deadline-missed", c)
  /\ SendsNews(Deadline)

\* Reminders are counted after they are mailed; a report comes after two.
ReportDue(k) ==
  /\ tokens[k].reminders = 2
  /\ clock >= tokens[k].time + Days(SUPERVISOR_SLA_DAYS + 2 * REMINDER_INTERVAL_DAYS)

TokenListed(item) == /\ item[1] \in DOMAIN tokens
                     /\ item[2].kase = tokens[item[1]].kase
                     /\ item[2].time = tokens[item[1]].time
                     /\ item[2].reminders = tokens[item[1]].reminders
                     /\ item[2].seen = tokens[item[1]].seen

TokenCounted(k) ==
  LET c == tokens[k].kase IN
  /\ tokens[k].time <= clock
  /\ tokens[k].reminders <= 2
  /\ tokens[k].reminders >= 1 => k \in About("supervisor-first-reminder", c)
  /\ tokens[k].reminders >= 2 => k \in About("supervisor-second-reminder", c)
  /\ tokens[k].seen <= Len(notifications["supervisor-unresponsive"][c])

TokenTurn(j) ==
  LET k == j.about IN
  /\ k \in DOMAIN tokens /\ j.kase = tokens[k].kase
  /\ \A item \in j.todo : item[1] # k
  /\ j.template = "supervisor-first-reminder" => tokens[k].reminders = 0
  /\ j.template = "supervisor-second-reminder" => tokens[k].reminders = 1
  /\ j.template = "supervisor-unresponsive" => ReportDue(k) /\ j.at = "deliver"
  /\ j.at = "record" => k \in About(j.template, j.kase)

\* Row i of the reports about case c is about token k.
ReportOK(c, k, i) ==
  k \in DOMAIN tokens /\ tokens[k].kase = c /\ ReportDue(k) /\ i > tokens[k].seen

ReportsOK ==
  \A c \in Case :
    /\ \A i \in DOMAIN notifications["supervisor-unresponsive"][c] :
         ReportOK(c, notifications["supervisor-unresponsive"][c][i].about, i)
    /\ RowsDiffer("supervisor-unresponsive", c)

ListOK(j) ==
  j.at # "idle" => /\ \A item \in j.todo : TokenListed(item)
                   /\ \A x, y \in j.todo : x[1] = y[1] => x = y

ReminderInv ==
  /\ \A k \in DOMAIN tokens : TokenCounted(k)
  /\ ReportsOK
  /\ ListOK(job[Reminder])
  /\ job[Reminder].at \in {"deliver", "record"} => TokenTurn(job[Reminder])
  /\ job[Reminder].at = "deliver" /\ job[Reminder].template = "supervisor-unresponsive"
       => SendsNews(Reminder)

\* While no worker died: what waits to be mailed was mailed to nobody.
MailInv ==
  /\ \A m \in mail : m.about \in DOMAIN events[m.kase]
  /\ \A t \in CaseState, c \in Case : \A n \in Told(t, c) : n.about \in DOMAIN events[c]
  /\ job[Mailer].at = "deliver" => job[Mailer].about \in DOMAIN events[job[Mailer].kase]
  /\ crashes = 0 =>
       /\ \A t \in CaseState, c \in Case : RowsDiffer(t, c)
       /\ \A m \in mail : \A n \in Told(m.to, m.kase) : n.about # m.about
       /\ SendsNews(Mailer)
       /\ job[Mailer].at = "deliver" =>
            \A m \in mail : ~ (/\ m.kase = job[Mailer].kase /\ m.to = job[Mailer].template
                               /\ m.about = job[Mailer].about)

\* No two semesters are open.
AtMostOneOpen == \A m, n \in Open : m = n

BackgroundInv == /\ TypeInv /\ EscalationInv /\ DeadlineInv /\ ReminderInv /\ MailInv
                 /\ AtMostOneOpen
-----------------------------------------------------------------------------
(* Lemmas about the operators of the model.                                *)

\* A set of naturals has a least element.
LEMMA Smallest ==
  ASSUME NEW T \in SUBSET Nat, T # {}
  PROVE  \E x \in T : \A y \in T : x <= y
<1> DEFINE Below == {p \in Nat \X Nat : p[1] < p[2]}
<1>1. IsWellFoundedOn(Below, Nat)
  BY NatLessThanWellFounded, Zenon DEF OpToRel
<1>2. PICK x \in T : \A y \in T : <<y, x>> \notin Below
  <2> HIDE DEF Below
  <2> QED
    BY <1>1, WFMin, Zenon
<1>3. ASSUME NEW y \in T PROVE x <= y
  <2>1. x \in Nat /\ y \in Nat
    OBVIOUS
  <2>2. ~ y < x
    BY <2>1, <1>2, Zenon
  <2>3. QED
    BY <2>1, <2>2
<1>4. QED
  BY <1>3

\* A bounded one has a greatest.
LEMMA Greatest ==
  ASSUME NEW T \in SUBSET Nat, T # {}, NEW n \in Nat, \A y \in T : y <= n
  PROVE  \E x \in T : \A y \in T : y <= x
<1> DEFINE S == {k \in Nat : k <= n /\ n - k \in T}
<1>1. \A y \in T : n - y \in S
  <2> TAKE y \in T
  <2>1. y \in Nat /\ y <= n
    OBVIOUS
  <2>2. n - y \in Nat /\ n - y <= n /\ n - (n - y) = y
    BY <2>1
  <2>3. QED
    BY <2>2
<1>2. S \in SUBSET Nat /\ S # {}
  BY <1>1
<1>3. PICK z \in S : \A y \in S : z <= y
  BY <1>2, Smallest
<1>4. \A y \in T : y <= n - z
  <2> TAKE y \in T
  <2>1. z <= n - y /\ y \in Nat /\ z \in Nat
    BY <1>1, <1>3
  <2>2. QED
    BY <2>1
<1>5. QED
  BY <1>3, <1>4

\* The most recent entry of a case into a state is one of its entries.
LEMMA MostRecentIsEntry ==
  ASSUME NEW c, NEW s, NEW n \in Nat, DOMAIN events[c] = 1..n, EntriesInto(c, s) # {}
  PROVE  MostRecentEntry(c, s) \in EntriesInto(c, s)
<1>1. EntriesInto(c, s) \in SUBSET Nat /\ \A i \in EntriesInto(c, s) : i <= n
  BY DEF EntriesInto
<1>2. \E i \in EntriesInto(c, s) : \A j \in EntriesInto(c, s) : j <= i
  BY <1>1, Greatest
<1> QED
  BY <1>2 DEF MostRecentEntry

\* A number of days, on the clock.
LEMMA DaysAreNatural ==
  ASSUME NEW n \in Nat
  PROVE  Days(n) \in Nat
BY SlaOK DEF Days

LEMMA LastReminderAge == Days(SUPERVISOR_SLA_DAYS + 2 * REMINDER_INTERVAL_DAYS) \in Nat
<1>1. SUPERVISOR_SLA_DAYS + 2 * REMINDER_INTERVAL_DAYS \in Nat
  BY SlaOK
<1> QED
  BY <1>1, DaysAreNatural

\* Rows that differ are as many as they say.
LEMMA DifferentRowsCount ==
  ASSUME NEW t, NEW c, NEW n \in Nat, DOMAIN notifications[t][c] = 1..n, RowsDiffer(t, c)
  PROVE  Cardinality(Told(t, c)) = n
<1> DEFINE f == [i \in 1..n |-> notifications[t][c][i]]
<1>1. f \in [1..n -> Told(t, c)]
  BY DEF Told
<1>2. \A y \in Told(t, c) : \E i \in 1..n : f[i] = y
  BY DEF Told
<1>3. \A i, j \in 1..n : f[i] = f[j] => i = j
  BY DEF RowsDiffer
<1>4. ExistsBijection(1..n, Told(t, c))
  <2>0. DOMAIN f = 1..n
    OBVIOUS
  <2> HIDE DEF f
  <2>1. f \in Bijection(1..n, Told(t, c))
    BY <1>1, <1>2, <1>3, <2>0 DEF Bijection, Injection, Surjection, IsInjective
  <2> QED
    BY <2>1 DEF ExistsBijection
<1> QED
  BY <1>4, FS_CountingElements, FS_CardinalityType

\* The states of the table are states of a case.
LEMMA TableStates ==
  /\ \A t \in TRANSITIONS : t.to \in CaseState
  /\ GENESIS_STATES \subseteq CaseState
<1>1. \A t \in TRANSITIONS : t.to \in CaseState
  BY DEF TRANSITIONS, NormalRows, RestartRows, WaiverRows, Row, PreApproval, CaseState
<1>2. GENESIS_STATES \subseteq CaseState
  BY DEF GENESIS_STATES, CaseState
<1> QED
  BY <1>1, <1>2
-----------------------------------------------------------------------------
(* Lemmas about jobs.                                                      *)

\* The label of a job tells its shape.
LEMMA JobShapes ==
  ASSUME NEW q, NEW j, NEW d, JobOK(q, j, d)
  PROVE  /\ j.at = "idle" => j = Idle
         /\ j.at = "next" => j \in Working(q)
         /\ j.at \in {"deliver", "record"} => j \in Sending(q)
         /\ j.at = "open" => j \in Opening /\ q \notin QueueName
<1>1. Idle.at = "idle"
  BY DEF Idle
<1>2. \A x \in Working(q) : x.at = "next"
  BY DEF Working
<1>3. \A x \in Sending(q) : x.at \in {"deliver", "record"}
  BY DEF Sending
<1>4. \A x \in Opening : x.at = "open"
  BY DEF Opening
<1> QED
  BY <1>1, <1>2, <1>3, <1>4 DEF JobOK

LEMMA IdleIsOK ==
  ASSUME NEW q, NEW d
  PROVE  JobOK(q, Idle, d)
BY DEF JobOK, Idle, Opening

LEMMA BeginIsOK ==
  ASSUME NEW q, NEW d \in 0..MaxTime, NEW items \in SUBSET ItemsOf(q)
  PROVE  JobOK(q, [at |-> "next", todo |-> items, now |-> d], d)
BY NotificationsOK DEF JobOK, Working, Opening

LEMMA SkipIsOK ==
  ASSUME NEW q, NEW d, NEW j, JobOK(q, j, d), j.at = "next", NEW item
  PROVE  JobOK(q, [j EXCEPT !.todo = @ \ {item}], d)
<1>1. j \in Working(q) /\ j.now <= d
  BY JobShapes DEF JobOK
<1>2. [j EXCEPT !.todo = @ \ {item}] \in Working(q)
  BY <1>1 DEF Working
<1> QED
  BY <1>1, <1>2 DEF JobOK, Working, Opening

LEMMA SendIsOK ==
  ASSUME NEW q, NEW d, NEW j, JobOK(q, j, d), j.at = "next", NEW item,
         NEW t \in TemplatesOf(q), NEW c \in Case, NEW a \in Nat
  PROVE  JobOK(q, [at |-> "deliver", todo |-> j.todo \ {item}, now |-> j.now, template |-> t,
                   kase |-> c, about |-> a, unsent |-> resolveRecipients(t, c)], d)
<1>1. j \in Working(q) /\ j.now <= d
  BY JobShapes DEF JobOK
<1>2. resolveRecipients(t, c) \subseteq User \cup {Supervisor}
  BY BackgroundOK DEF resolveRecipients, usersWithRole
<1>3. j.todo \in SUBSET ItemsOf(q) /\ j.now \in 0..MaxTime
  BY <1>1 DEF Working
<1> QED
  BY <1>1, <1>2, <1>3 DEF JobOK, Sending, Opening

\* One recipient is told: the three forms of the job that is left.
LEMMA DeliverIsOK ==
  ASSUME NEW q, NEW d, NEW j, JobOK(q, j, d), j.at = "deliver", NEW u
  PROVE  /\ JobOK(q, [j EXCEPT !.unsent = j.unsent \ {u}], d)
         /\ q = Reminder => JobOK(q, [j EXCEPT !.at = "record"], d)
         /\ JobOK(q, [at |-> "next", todo |-> j.todo, now |-> j.now], d)
<1>1. j \in Sending(q) /\ j.now <= d /\ j.unsent \subseteq resolveRecipients(j.template, j.kase)
  BY JobShapes DEF JobOK
<1>2. [j EXCEPT !.unsent = j.unsent \ {u}] \in Sending(q)
  BY <1>1 DEF Sending
<1>3. [j EXCEPT !.at = "record"] \in Sending(q)
  BY <1>1 DEF Sending
<1>4. [at |-> "next", todo |-> j.todo, now |-> j.now] \in Working(q)
  BY <1>1 DEF Sending, Working
<1> QED
  BY <1>1, <1>2, <1>3, <1>4 DEF JobOK, Sending, Opening, Working, QueueName

LEMMA RecordedIsOK ==
  ASSUME NEW q, NEW d, NEW j, JobOK(q, j, d), j.at = "record"
  PROVE  JobOK(q, [at |-> "next", todo |-> j.todo, now |-> j.now], d)
<1>1. j \in Sending(q) /\ j.now <= d
  BY JobShapes DEF JobOK
<1>2. [at |-> "next", todo |-> j.todo, now |-> j.now] \in Working(q)
  BY <1>1 DEF Sending, Working
<1> QED
  BY <1>1, <1>2 DEF JobOK, Opening

\* A job that is fine stays so while time passes.
LEMMA JobsAge ==
  ASSUME NEW q, NEW j, NEW d \in Nat, NEW e \in Nat, d <= e, JobOK(q, j, d)
  PROVE  JobOK(q, j, e)
<1>1. j.at = "next" => j \in Working(q)
  BY JobShapes
<1>2. j.at \in {"deliver", "record"} => j \in Sending(q)
  BY JobShapes
<1>3. j.at \in {"next", "deliver", "record"} => j.now \in Nat
  BY <1>1, <1>2, NotificationsOK DEF Working, Sending
<1> QED
  BY <1>3 DEF JobOK

\* One job changes.
LEMMA OneJobChanges ==
  ASSUME JobsOK, NEW q \in Task, NEW j, JobOK(q, j, clock), UNCHANGED clock,
         job' = [job EXCEPT ![q] = j]
  PROVE  JobsOK' /\ job'[q] = j /\ \A p \in Task \ {q} : job'[p] = job[p]
<1>1. job'[q] = j /\ \A p \in Task \ {q} : job'[p] = job[p]
  BY DEF JobsOK
<1>2. job' = [p \in Task |-> job'[p]]
  BY DEF JobsOK
<1>3. ASSUME NEW p \in Task PROVE JobOK(p, job'[p], clock')
  BY <1>1 DEF JobsOK
<1> QED
  BY <1>1, <1>2, <1>3 DEF JobsOK

-----------------------------------------------------------------------------
(* What the steps of a job do.                                             *)

\* Job q becomes j; the others go on as they were.
JobBecomes(q, j) == JobsOK' /\ job'[q] = j /\ \A p \in Task \ {q} : job'[p] = job[p]

LEMMA BeginDoes ==
  ASSUME TypeInv, NEW q \in Task, NEW items \in SUBSET ItemsOf(q), Begin(q, items)
  PROVE  JobBecomes(q, [at |-> "next", todo |-> items, now |-> clock])
<1>1. JobOK(q, [at |-> "next", todo |-> items, now |-> clock], clock)
  BY BeginIsOK DEF TypeInv
<1> QED
  BY <1>1, OneJobChanges DEF TypeInv, Begin, JobBecomes

LEMMA SkipDoes ==
  ASSUME TypeInv, NEW q \in Task, At(q, "next"), NEW item, Skip(q, item), UNCHANGED clock
  PROVE  JobBecomes(q, [at |-> "next", todo |-> job[q].todo \ {item}, now |-> job[q].now])
<1> DEFINE j == [job[q] EXCEPT !.todo = @ \ {item}]
<1>1. JobOK(q, job[q], clock) /\ job[q].at = "next"
  BY DEF TypeInv, JobsOK, At
<1>2. JobOK(q, j, clock)
  BY <1>1, SkipIsOK
<1>3. job' = [job EXCEPT ![q] = j]
  BY DEF Skip, TypeInv, JobsOK
<1>4. PICK items, d : job[q] = [at |-> "next", todo |-> items, now |-> d]
  <2>1. job[q] \in Working(q)
    BY <1>1, JobShapes
  <2>2. job[q] = [at |-> "next", todo |-> job[q].todo, now |-> job[q].now]
    BY <2>1 DEF Working
  <2> QED
    BY <2>2
<1>5. job[q].todo = items /\ job[q].now = d
  BY <1>4
<1>6. [[at |-> "next", todo |-> items, now |-> d] EXCEPT !.todo = @ \ {item}]
      = [at |-> "next", todo |-> items \ {item}, now |-> d]
  OBVIOUS
<1>7. j = [at |-> "next", todo |-> job[q].todo \ {item}, now |-> job[q].now]
  BY <1>4, <1>5, <1>6
<1> HIDE DEF j
<1> QED
  BY <1>2, <1>3, <1>7, OneJobChanges DEF TypeInv, JobBecomes

LEMMA SendDoes ==
  ASSUME TypeInv, NEW q \in Task, At(q, "next"), NEW item, UNCHANGED clock,
         NEW t \in TemplatesOf(q), NEW c \in Case, NEW a \in Nat, Send(q, item, t, c, a)
  PROVE  \/ JobBecomes(q, [at |-> "next", todo |-> job[q].todo \ {item}, now |-> job[q].now])
         \/ JobBecomes(q, [at |-> "deliver", todo |-> job[q].todo \ {item}, now |-> job[q].now,
                           template |-> t, kase |-> c, about |-> a,
                           unsent |-> resolveRecipients(t, c)])
<1>1. CASE Skip(q, item)
  BY <1>1, SkipDoes
<1>2. CASE ~Skip(q, item)
  <2> DEFINE j == [at |-> "deliver", todo |-> job[q].todo \ {item}, now |-> job[q].now,
                   template |-> t, kase |-> c, about |-> a, unsent |-> resolveRecipients(t, c)]
  <2>1. JobOK(q, j, clock)
    BY SendIsOK DEF TypeInv, JobsOK, At
  <2>2. job' = [job EXCEPT ![q] = j]
    BY <1>2 DEF Send, TypeInv, JobsOK
  <2> HIDE DEF j
  <2>3. JobBecomes(q, j)
    BY <2>1, <2>2, OneJobChanges DEF TypeInv, JobBecomes
  <2> QED
    BY <2>3 DEF j
<1> QED
  BY <1>1, <1>2

LEMMA EndDoes ==
  ASSUME TypeInv, NEW q \in Task, End(q), UNCHANGED clock
  PROVE  JobBecomes(q, Idle)
BY IdleIsOK, OneJobChanges DEF TypeInv, End, JobBecomes

\* A row is added at the end of the rows of its template and case, which were n.
RowAdded(t, c, row, n) ==
  /\ DOMAIN notifications[t][c] = 1..n /\ DOMAIN notifications'[t][c] = 1..(n + 1)
  /\ Len(notifications[t][c]) = n /\ Len(notifications'[t][c]) = n + 1
  /\ notifications'[t][c][n + 1] = row
  /\ \A i \in 1..n : notifications'[t][c][i] = notifications[t][c][i]
  /\ \A s \in Template, d \in Case :
       s # t \/ d # c => notifications'[s][d] = notifications[s][d]

LEMMA RowAddedTold ==
  ASSUME NEW t, NEW c, NEW row, NEW n \in Nat, RowAdded(t, c, row, n)
  PROVE  /\ Told(t, c)' = Told(t, c) \cup {row}
         /\ \A s \in Template, d \in Case : s # t \/ d # c => Told(s, d)' = Told(s, d)
         /\ RowsDiffer(t, c) /\ row \notin Told(t, c) => RowsDiffer(t, c)'
         /\ \A s \in Template, d \in Case :
              (s # t \/ d # c) /\ RowsDiffer(s, d) => RowsDiffer(s, d)'
<1>1. 1..(n + 1) = (1..n) \cup {n + 1} /\ n + 1 \notin 1..n
  OBVIOUS
<1>2. Told(t, c)' = Told(t, c) \cup {row}
  <2>1. Told(t, c)' = {notifications'[t][c][i] : i \in 1..(n + 1)}
    BY DEF RowAdded, Told
  <2>2. Told(t, c) = {notifications[t][c][i] : i \in 1..n}
    BY DEF RowAdded, Told
  <2>3. \A i \in 1..n : notifications'[t][c][i] = notifications[t][c][i]
    BY DEF RowAdded
  <2>4. notifications'[t][c][n + 1] = row
    BY DEF RowAdded
  <2> QED
    BY <1>1, <2>1, <2>2, <2>3, <2>4
<1>3. \A s \in Template, d \in Case : s # t \/ d # c => Told(s, d)' = Told(s, d)
  BY DEF RowAdded, Told
<1>4. RowsDiffer(t, c) /\ row \notin Told(t, c) => RowsDiffer(t, c)'
  BY <1>1 DEF RowAdded, Told, RowsDiffer
<1>5. \A s \in Template, d \in Case :
              (s # t \/ d # c) /\ RowsDiffer(s, d) => RowsDiffer(s, d)'
  BY DEF RowAdded, RowsDiffer
<1> QED
  BY <1>2, <1>3, <1>4, <1>5

\* What a delivery leaves of job j when u has been told.
AfterDelivery(q, j, u) ==
  \/ JobBecomes(q, [j EXCEPT !.unsent = j.unsent \ {u}])
  \/ IsReminder(j.template) /\ JobBecomes(q, [j EXCEPT !.at = "record"])
  \/ ~IsReminder(j.template)
     /\ JobBecomes(q, [at |-> "next", todo |-> j.todo, now |-> j.now])

LEMMA DeliverDoes ==
  ASSUME TypeInv, NEW q \in Task, Deliver(q)
  PROVE  /\ job[q].at = "deliver" /\ job[q] \in Sending(q)
         /\ \E u \in job[q].unsent : \E n \in Nat :
              /\ RowAdded(job[q].template, job[q].kase, [to |-> u, about |-> job[q].about], n)
              /\ AfterDelivery(q, job[q], u)
         /\ NoticesTypeOK'
<1>1. JobOK(q, job[q], clock) /\ job[q].at = "deliver"
  BY DEF TypeInv, JobsOK, At, Deliver
<1>2. job[q] \in Sending(q) /\ job[q].unsent \subseteq resolveRecipients(job[q].template, job[q].kase)
  BY <1>1, JobShapes DEF JobOK
<1>3. PICK j : j = job[q]
  OBVIOUS
<1>4. /\ j.template \in TemplatesOf(q) /\ j.kase \in Case /\ j.about \in Nat
      /\ j.unsent \in SUBSET (User \cup {Supervisor})
  BY <1>2, <1>3 DEF Sending
<1>5. PICK u \in j.unsent :
        LET left == j.unsent \ {u} IN
        /\ notifications' = [notifications EXCEPT ![j.template][j.kase] =
                               Append(@, [to |-> u, about |-> j.about])]
        /\ job' = [job EXCEPT ![q] =
                     CASE left # {} -> [j EXCEPT !.unsent = left]
                       [] left = {} /\ IsReminder(j.template) -> [j EXCEPT !.at = "record"]
                       [] OTHER -> [at |-> "next", todo |-> j.todo, now |-> j.now]]
  BY <1>3 DEF Deliver
<1>6. j.template \in Template /\ (IsReminder(j.template) => q = Reminder)
  BY <1>4 DEF TemplatesOf, Template, SweepTemplate, CaseState, IsReminder, Audience,
              Focal, Reminder, Deadline, Mailer
<1> DEFINE t == j.template
           c == j.kase
           rows == notifications[t][c]
           row == [to |-> u, about |-> j.about]
<1>7. rows \in Seq(Notice) /\ row \in Notice
  BY <1>4, <1>6 DEF TypeInv, NoticesTypeOK, Notice
<1>8. PICK n \in Nat : n = Len(rows)
  BY <1>7, LenProperties
<1>9. /\ Append(rows, row) \in Seq(Notice) /\ Len(Append(rows, row)) = n + 1
      /\ Append(rows, row)[n + 1] = row
      /\ \A i \in 1..n : Append(rows, row)[i] = rows[i]
      /\ DOMAIN rows = 1..n /\ DOMAIN Append(rows, row) = 1..(n + 1)
  BY <1>7, <1>8, AppendProperties, LenProperties
<1>10. /\ notifications' \in [Template -> [Case -> Seq(Notice)]]
       /\ notifications'[t][c] = Append(rows, row)
       /\ \A s \in Template, d \in Case :
            s # t \/ d # c => notifications'[s][d] = notifications[s][d]
  BY <1>4, <1>5, <1>6, <1>9 DEF TypeInv, NoticesTypeOK
<1>11. RowAdded(t, c, row, n)
  BY <1>8, <1>9, <1>10 DEF RowAdded
<1>12. AfterDelivery(q, j, u)
  <2>0. UNCHANGED clock
    BY DEF Deliver
  <2>1. CASE j.unsent \ {u} # {}
    <3>1. JobOK(q, [j EXCEPT !.unsent = j.unsent \ {u}], clock)
      BY <1>1, <1>3, DeliverIsOK
    <3>2. job' = [job EXCEPT ![q] = [j EXCEPT !.unsent = j.unsent \ {u}]]
      BY <1>5, <2>1
    <3> QED
      BY <2>0, <3>1, <3>2, OneJobChanges DEF TypeInv, AfterDelivery, JobBecomes
  <2>2. CASE j.unsent \ {u} = {} /\ IsReminder(j.template)
    <3>1. JobOK(q, [j EXCEPT !.at = "record"], clock)
      BY <1>1, <1>3, <1>6, <2>2, DeliverIsOK
    <3>2. job' = [job EXCEPT ![q] = [j EXCEPT !.at = "record"]]
      BY <1>5, <2>2
    <3> QED
      BY <2>0, <2>2, <3>1, <3>2, OneJobChanges DEF TypeInv, AfterDelivery, JobBecomes
  <2>3. CASE j.unsent \ {u} = {} /\ ~IsReminder(j.template)
    <3>1. JobOK(q, [at |-> "next", todo |-> j.todo, now |-> j.now], clock)
      BY <1>1, <1>3, DeliverIsOK
    <3>2. job' = [job EXCEPT ![q] = [at |-> "next", todo |-> j.todo, now |-> j.now]]
      BY <1>5, <2>3
    <3> QED
      BY <2>0, <2>3, <3>1, <3>2, OneJobChanges DEF TypeInv, AfterDelivery, JobBecomes
  <2> QED
    BY <2>1, <2>2, <2>3
<1>13. NoticesTypeOK'
  <2>1. events' \in [Case -> Seq(CaseEvent)] /\ mail' \subseteq Mail
    BY DEF Deliver, TypeInv, NoticesTypeOK
  <2>2. ASSUME NEW s \in Template, NEW d \in Case, NEW m \in Told(s, d)'
        PROVE  m.to \in resolveRecipients(s, d)
    <3>1. CASE s = t /\ d = c
      <4>1. m \in Told(t, c) \/ m = row
        BY <1>11, <2>2, <3>1, RowAddedTold
      <4> QED
        BY <1>2, <1>3, <4>1, <3>1 DEF TypeInv, NoticesTypeOK
    <3>2. CASE s # t \/ d # c
      <4>1. m \in Told(s, d)
        BY <1>11, <2>2, <3>2, RowAddedTold
      <4> QED
        BY <4>1 DEF TypeInv, NoticesTypeOK
    <3> QED
      BY <3>1, <3>2
  <2> QED
    BY <1>10, <2>1, <2>2 DEF NoticesTypeOK
<1> QED
  BY <1>1, <1>2, <1>3, <1>11, <1>12, <1>13

-----------------------------------------------------------------------------
(* The five queues and the Admin's requests.                               *)

GoingOn(items, d) == [at |-> "next", todo |-> items, now |-> d]

Deliverable(items, d, t, c, a) ==
  [at |-> "deliver", todo |-> items, now |-> d, template |-> t, kase |-> c, about |-> a,
   unsent |-> resolveRecipients(t, c)]

\* The job goes on with other items, or is over.
WorksOn(q) == JobBecomes(q, Idle) \/ \E items, d : JobBecomes(q, GoingOn(items, d))

\* The sequences of a table are indexed from 1.
LEMMA EventsAreSequences ==
  ASSUME NoticesTypeOK, NEW c \in Case
  PROVE  /\ Len(events[c]) \in Nat /\ DOMAIN events[c] = 1..Len(events[c])
         /\ \A i \in 1..Len(events[c]) : events[c][i] \in CaseEvent
<1>1. events[c] \in Seq(CaseEvent)
  BY DEF NoticesTypeOK
<1> QED
  BY <1>1, LenProperties, ElementOfSeq

LEMMA RowsAreSequences ==
  ASSUME NoticesTypeOK, NEW t \in Template, NEW c \in Case
  PROVE  /\ Len(notifications[t][c]) \in Nat
         /\ DOMAIN notifications[t][c] = 1..Len(notifications[t][c])
         /\ \A i \in 1..Len(notifications[t][c]) : notifications[t][c][i] \in Notice
<1>1. notifications[t][c] \in Seq(Notice)
  BY DEF NoticesTypeOK
<1> QED
  BY <1>1, LenProperties, ElementOfSeq

LEMMA TokensAreASequence ==
  ASSUME tokens \in Seq(Token)
  PROVE  /\ Len(tokens) \in Nat /\ DOMAIN tokens = 1..Len(tokens)
         /\ \A i \in 1..Len(tokens) : tokens[i] \in Token
BY LenProperties, ElementOfSeq

\* The queues are different, and so are their templates.
LEMMA Queues ==
  /\ {Focal, Reminder, Deadline, Mailer, "roster-sweep"} = QueueName
  /\ QueueName \subseteq Task /\ WebTask \subseteq Task /\ WebTask \cap QueueName = {}
  /\ TemplatesOf(Focal) = {"focal-sla-escalation"}
  /\ TemplatesOf(Reminder) = {"supervisor-first-reminder", "supervisor-second-reminder",
                              "supervisor-unresponsive"}
  /\ TemplatesOf(Deadline) = {"deadline-missed"}
  /\ TemplatesOf(Mailer) = CaseState
  /\ \A q \in WebTask \cup {"roster-sweep"} : TemplatesOf(q) = {} /\ ItemsOf(q) = Student
  /\ ItemsOf(Focal) = Case \X FOCAL_PENDING_STATES
  /\ ItemsOf(Reminder) = Nat \X Token
  /\ ItemsOf(Deadline) = Case \X (0..MaxTime)
  /\ ItemsOf(Mailer) = {}
<1>1. /\ {Focal, Reminder, Deadline, Mailer, "roster-sweep"} = QueueName
      /\ QueueName \subseteq Task /\ WebTask \subseteq Task /\ WebTask \cap QueueName = {}
  BY QueuesOK DEF Focal, Reminder, Deadline, Mailer, QueueName, PeriodicQueue, Task
<1>2. Focal # Reminder /\ Focal # Deadline /\ Focal # Mailer
  BY DEF Focal, Reminder, Deadline, Mailer
<1>3. Reminder # Deadline /\ Reminder # Mailer /\ Deadline # Mailer
  BY DEF Focal, Reminder, Deadline, Mailer
<1>4. \A q \in WebTask \cup {"roster-sweep"} :
        q # Focal /\ q # Reminder /\ q # Deadline /\ q # Mailer
  BY <1>1 DEF Focal, Reminder, Deadline, Mailer
<1>5. /\ TemplatesOf(Focal) = {"focal-sla-escalation"}
      /\ TemplatesOf(Reminder) = {"supervisor-first-reminder", "supervisor-second-reminder",
                                  "supervisor-unresponsive"}
      /\ TemplatesOf(Deadline) = {"deadline-missed"}
      /\ TemplatesOf(Mailer) = CaseState
      /\ \A q \in WebTask \cup {"roster-sweep"} : TemplatesOf(q) = {}
  BY <1>2, <1>3, <1>4 DEF TemplatesOf
<1>6. /\ ItemsOf(Focal) = Case \X FOCAL_PENDING_STATES
      /\ ItemsOf(Reminder) = Nat \X Token
      /\ ItemsOf(Deadline) = Case \X (0..MaxTime)
      /\ ItemsOf(Mailer) = {}
      /\ \A q \in WebTask \cup {"roster-sweep"} : ItemsOf(q) = Student
  BY <1>2, <1>3, <1>4 DEF ItemsOf
<1> QED
  BY <1>1, <1>5, <1>6

LEMMA EscalationJobDoes ==
  ASSUME TypeInv, EscalationJob
  PROVE  \/ WorksOn(Focal) /\ UNCHANGED notifications
         \/ /\ \E items, d : \E c \in Case, i \in Nat :
                 /\ JobBecomes(Focal, Deliverable(items, d, "focal-sla-escalation", c, i))
                 /\ EscalatedEvent(events[c], i, clock)
                 /\ Len(notifications["focal-sla-escalation"][c]) <= events[c][i].seen
            /\ UNCHANGED notifications
         \/ Deliver(Focal)
<1>0. Focal \in Task /\ Focal \in QueueName /\ "focal-sla-escalation" \in TemplatesOf(Focal)
      /\ ItemsOf(Focal) = Case \X FOCAL_PENDING_STATES
  BY Queues
<1>1. CASE StartFocalSlaSweep /\ UNCHANGED noticeVars
  <2> DEFINE items == {<<c, status[c]>> : c \in {d \in Case : status[d] \in FOCAL_PENDING_STATES}}
  <2>1. items \in SUBSET ItemsOf(Focal) /\ Begin(Focal, items)
    BY <1>0, <1>1 DEF StartFocalSlaSweep, Focal
  <2> HIDE DEF items
  <2>2. JobBecomes(Focal, [at |-> "next", todo |-> items, now |-> clock])
    BY <1>0, <2>1, BeginDoes
  <2> QED
    BY <1>1, <2>2 DEF WorksOn, GoingOn, noticeVars
<1>2. CASE FocalSlaCheck(Focal) /\ UNCHANGED noticeVars
  <2>1. PICK item \in job[Focal].todo :
          LET c == item[1]  i == MostRecentEntry(c, item[2]) IN
          IF Breaches(c, item[2], job[Focal].now) /\ ~alreadyEscalated(c, i)
          THEN Send(Focal, item, "focal-sla-escalation", c, i)
          ELSE Skip(Focal, item)
    BY <1>2 DEF FocalSlaCheck
  <2>2. At(Focal, "next") /\ UNCHANGED <<clock, notifications>>
    BY <1>2 DEF FocalSlaCheck, noticeVars
  <2>3. PICK c, s, i : c = item[1] /\ s = item[2] /\ i = MostRecentEntry(c, s)
    OBVIOUS
  <2>4. job[Focal] \in Working(Focal) /\ job[Focal].now <= clock
    BY <1>0, <2>2, JobShapes DEF TypeInv, JobsOK, At, JobOK
  <2>5. c \in Case /\ s \in FOCAL_PENDING_STATES
    BY <1>0, <2>3, <2>4 DEF Working
  <2>6. CASE Skip(Focal, item)
    <3>1. JobBecomes(Focal, [at |-> "next", todo |-> job[Focal].todo \ {item},
                             now |-> job[Focal].now])
      BY <1>0, <2>2, <2>6, SkipDoes
    <3> QED
      BY <2>2, <3>1 DEF WorksOn, GoingOn
  <2>7. CASE /\ Breaches(c, s, job[Focal].now) /\ ~alreadyEscalated(c, i)
             /\ Send(Focal, item, "focal-sla-escalation", c, i)
    <3>1. /\ Len(events[c]) \in Nat /\ DOMAIN events[c] = 1..Len(events[c])
          /\ \A k \in 1..Len(events[c]) : events[c][k] \in CaseEvent
      BY <2>5, EventsAreSequences DEF TypeInv
    <3>2. i \in EntriesInto(c, s)
      BY <2>3, <2>7, <3>1, MostRecentIsEntry DEF Breaches
    <3>3. i \in DOMAIN events[c] /\ i \in Nat /\ events[c][i].to = s /\ events[c][i].time \in Nat
          /\ events[c][i].seen \in Nat
      BY <3>1, <3>2, NotificationsOK DEF EntriesInto, CaseEvent
    <3>4. isFocalSlaBreached(events[c][i], job[Focal].now)
      BY <2>3, <2>7 DEF Breaches
    <3>5. clock \in Nat /\ job[Focal].now \in Nat
      BY <2>4, NotificationsOK DEF TypeInv, Working
    <3>6. EscalatedEvent(events[c], i, clock)
      <4>1. job[Focal].now \in 0..clock
        BY <2>4, <3>5
      <4> QED
        BY <2>5, <3>3, <3>4, <4>1 DEF EscalatedEvent
    <3>7. Len(notifications["focal-sla-escalation"][c]) <= events[c][i].seen
      <4>1. Len(notifications["focal-sla-escalation"][c]) \in Nat
        BY <2>5, RowsAreSequences DEF TypeInv, Template, SweepTemplate
      <4> QED
        BY <2>7, <3>3, <4>1 DEF alreadyEscalated
    <3>8. \/ JobBecomes(Focal, GoingOn(job[Focal].todo \ {item}, job[Focal].now))
          \/ JobBecomes(Focal, Deliverable(job[Focal].todo \ {item}, job[Focal].now,
                                           "focal-sla-escalation", c, i))
      BY <1>0, <2>2, <2>5, <2>7, <3>3, SendDoes DEF GoingOn, Deliverable
    <3> QED
      BY <2>2, <2>5, <3>3, <3>6, <3>7, <3>8 DEF WorksOn
  <2> QED
    BY <2>1, <2>3, <2>6, <2>7
<1>3. CASE Finish(Focal) /\ UNCHANGED noticeVars
  <2>1. JobBecomes(Focal, Idle)
    BY <1>0, <1>3, EndDoes DEF Finish
  <2> QED
    BY <1>3, <2>1 DEF WorksOn, noticeVars
<1> QED
  BY <1>1, <1>2, <1>3 DEF EscalationJob, Focal

LEMMA DeadlineJobDoes ==
  ASSUME TypeInv, DeadlineJob
  PROVE  \/ WorksOn(Deadline) /\ UNCHANGED notifications
         \/ /\ \E items, d : \E c \in Case, a \in Nat :
                 /\ JobBecomes(Deadline, Deliverable(items, d, "deadline-missed", c, a))
                 /\ Told("deadline-missed", c) = {}
            /\ UNCHANGED notifications
         \/ Deliver(Deadline)
<1>0. Deadline \in Task /\ Deadline \in QueueName /\ "deadline-missed" \in TemplatesOf(Deadline)
      /\ ItemsOf(Deadline) = Case \X (0..MaxTime)
  BY Queues
<1>1. CASE StartDeadlineSweep /\ UNCHANGED noticeVars
  <2>1. findDeadlineMissedCases(clock) \in SUBSET ItemsOf(Deadline)
        /\ Begin(Deadline, findDeadlineMissedCases(clock))
    <3>1. ASSUME NEW n \in Semester, isPastDocumentDeadline(semesters[n].deadline, clock),
                 n \in Open
          PROVE  semesters[n].deadline \in 0..MaxTime
      <4>1. semesters[n] \in SemesterRow
        BY <3>1 DEF Open, TypeInv, NoSemester
      <4> QED
        BY <3>1, <4>1 DEF SemesterRow, isPastDocumentDeadline
    <3>2. findDeadlineMissedCases(clock) \in SUBSET ItemsOf(Deadline)
      BY <1>0, <3>1 DEF findDeadlineMissedCases, Open
    <3> QED
      BY <1>1, <3>2 DEF StartDeadlineSweep, Deadline
  <2>2. JobBecomes(Deadline, GoingOn(findDeadlineMissedCases(clock), clock))
    BY <1>0, <2>1, BeginDoes DEF GoingOn
  <2> QED
    BY <1>1, <2>2 DEF WorksOn, noticeVars
<1>2. CASE DeadlineCheck(Deadline) /\ UNCHANGED noticeVars
  <2>1. PICK item \in job[Deadline].todo :
          LET c == item[1] IN
          IF Told("deadline-missed", c) # {} THEN Skip(Deadline, item)
          ELSE Send(Deadline, item, "deadline-missed", c, item[2])
    BY <1>2 DEF DeadlineCheck
  <2>2. At(Deadline, "next") /\ UNCHANGED <<clock, notifications>>
    BY <1>2 DEF DeadlineCheck, noticeVars
  <2>3. PICK c \in Case, a \in Nat : c = item[1] /\ a = item[2]
    <3>1. item \in Case \X (0..MaxTime)
      BY <1>0, <2>2, JobShapes DEF TypeInv, JobsOK, At, Working
    <3> QED
      BY <3>1, NotificationsOK
  <2>4. CASE Skip(Deadline, item)
    <3>1. JobBecomes(Deadline, GoingOn(job[Deadline].todo \ {item}, job[Deadline].now))
      BY <1>0, <2>2, <2>4, SkipDoes DEF GoingOn
    <3> QED
      BY <2>2, <3>1 DEF WorksOn
  <2>5. CASE Told("deadline-missed", c) = {} /\ Send(Deadline, item, "deadline-missed", c, a)
    <3>1. \/ JobBecomes(Deadline, GoingOn(job[Deadline].todo \ {item}, job[Deadline].now))
          \/ JobBecomes(Deadline, Deliverable(job[Deadline].todo \ {item}, job[Deadline].now,
                                              "deadline-missed", c, a))
      BY <1>0, <2>2, <2>3, <2>5, SendDoes DEF GoingOn, Deliverable
    <3> QED
      BY <2>2, <2>3, <2>5, <3>1 DEF WorksOn
  <2> QED
    BY <2>1, <2>3, <2>4, <2>5
<1>3. CASE Finish(Deadline) /\ UNCHANGED noticeVars
  <2>1. JobBecomes(Deadline, Idle)
    BY <1>0, <1>3, EndDoes DEF Finish
  <2> QED
    BY <1>3, <2>1 DEF WorksOn, noticeVars
<1> QED
  BY <1>1, <1>2, <1>3 DEF DeadlineJob, Deadline

\* Which mail a token calls for.
MailDue(k, t, d) ==
  \/ t = "supervisor-first-reminder" /\ tokens[k].reminders = 0
  \/ t = "supervisor-second-reminder" /\ tokens[k].reminders = 1
  \/ /\ t = "supervisor-unresponsive" /\ tokens[k].reminders >= 2
     /\ d >= tokens[k].time + Days(SUPERVISOR_SLA_DAYS + 2 * REMINDER_INTERVAL_DAYS)
     /\ Len(notifications["supervisor-unresponsive"][tokens[k].kase]) <= tokens[k].seen

LEMMA ReminderCheckDoes ==
  ASSUME TypeInv, ReminderCheck(Reminder), UNCHANGED notifications,
         \A item \in job[Reminder].todo : TokenListed(item)
  PROVE  \E item \in job[Reminder].todo, d \in Nat : LET left == job[Reminder].todo \ {item} IN
           /\ d <= clock
           /\ \/ JobBecomes(Reminder, GoingOn(left, d))
              \/ \E t \in TemplatesOf(Reminder) :
                   /\ JobBecomes(Reminder, Deliverable(left, d, t, tokens[item[1]].kase, item[1]))
                   /\ MailDue(item[1], t, d)
<1>0. Reminder \in Task /\ Reminder \in QueueName /\ ItemsOf(Reminder) = Nat \X Token
  BY Queues
<1>1. PICK item \in job[Reminder].todo :
        LET token == item[2]  t == classifyTokenForReminder(token, job[Reminder].now) IN
        IF t = "none" \/ (t = "supervisor-unresponsive" /\ Reported(token))
        THEN Skip(Reminder, item)
        ELSE Send(Reminder, item, t, token.kase, item[1])
  BY DEF ReminderCheck
<1>2. At(Reminder, "next") /\ UNCHANGED clock
  BY DEF ReminderCheck
<1>3. job[Reminder] \in Working(Reminder) /\ job[Reminder].now <= clock
  BY <1>0, <1>2, JobShapes DEF TypeInv, JobsOK, At, JobOK
<1>4. PICK k, token, d : k = item[1] /\ token = item[2] /\ d = job[Reminder].now
  OBVIOUS
<1>5. k \in Nat /\ token \in Token /\ d \in Nat /\ d <= clock
  BY <1>0, <1>3, <1>4, NotificationsOK DEF Working
<1>6. /\ token.kase = tokens[k].kase /\ token.time = tokens[k].time
      /\ token.reminders = tokens[k].reminders /\ token.seen = tokens[k].seen
  BY <1>4 DEF TokenListed
<1> DEFINE left == job[Reminder].todo \ {item}
           t == classifyTokenForReminder(token, d)
<1>7. CASE Skip(Reminder, item)
  <2>1. JobBecomes(Reminder, GoingOn(left, d))
    BY <1>0, <1>2, <1>4, <1>7, SkipDoes DEF GoingOn
  <2> QED
    BY <1>4, <1>5, <2>1
<1>8. CASE /\ t # "none" /\ ~(t = "supervisor-unresponsive" /\ Reported(token))
           /\ Send(Reminder, item, t, token.kase, k)
  <2>1. token.time \in Nat /\ token.reminders \in Nat /\ token.kase \in Case /\ token.seen \in Nat
    BY <1>5, NotificationsOK DEF Token
  <2>2. \/ t = "supervisor-first-reminder" /\ token.reminders = 0
        \/ t = "supervisor-second-reminder" /\ token.reminders = 1
        \/ /\ t = "supervisor-unresponsive" /\ token.reminders >= 2
           /\ d >= token.time + Days(SUPERVISOR_SLA_DAYS + 2 * REMINDER_INTERVAL_DAYS)
    BY <1>5, <1>8, <2>1, LastReminderAge DEF classifyTokenForReminder
  <2>3. t = "supervisor-unresponsive" =>
          Len(notifications["supervisor-unresponsive"][token.kase]) <= token.seen
    <3>1. Len(notifications["supervisor-unresponsive"][token.kase]) \in Nat
      BY <2>1, RowsAreSequences DEF TypeInv, Template, SweepTemplate
    <3> QED
      BY <1>8, <2>1, <3>1 DEF Reported
  <2>4. MailDue(k, t, d)
    BY <1>6, <2>2, <2>3 DEF MailDue
  <2>5. t \in TemplatesOf(Reminder)
    BY <2>2, Queues
  <2> HIDE DEF t
  <2>6. \/ JobBecomes(Reminder, GoingOn(left, d))
        \/ JobBecomes(Reminder, Deliverable(left, d, t, token.kase, k))
    BY <1>0, <1>2, <1>4, <1>5, <1>8, <2>1, <2>5, SendDoes DEF GoingOn, Deliverable
  <2> QED
    BY <1>4, <1>5, <1>6, <2>4, <2>5, <2>6
<1> QED
  BY <1>1, <1>4, <1>7, <1>8

\* A reminder is counted: only the row of its token changes.
LEMMA CountedIsToken ==
  ASSUME NEW token \in Token, NEW n \in Nat
  PROVE  /\ Counted(token, n) \in Token
         /\ Counted(token, n).reminders = token.reminders + 1 /\ Counted(token, n).seen = n
         /\ Counted(token, n).kase = token.kase /\ Counted(token, n).time = token.time
<1>1. [token EXCEPT !.reminders = @ + 1] \in Token
  BY DEF Token
<1>2. [[token EXCEPT !.reminders = @ + 1] EXCEPT !.seen = n] \in Token
  BY <1>1 DEF Token
<1> QED
  BY <1>2 DEF Counted, Token

LEMMA RecordReminderDoes ==
  ASSUME TypeInv, RecordReminder(Reminder), job[Reminder].about \in DOMAIN tokens
  PROVE  /\ job[Reminder] \in Sending(Reminder) /\ job[Reminder].at = "record"
         /\ JobBecomes(Reminder, GoingOn(job[Reminder].todo, job[Reminder].now))
         /\ tokens' \in Seq(Token) /\ DOMAIN tokens' = DOMAIN tokens
         /\ tokens'[job[Reminder].about]
              = Counted(tokens[job[Reminder].about],
                        Len(notifications["supervisor-unresponsive"][job[Reminder].kase]))
         /\ \A i \in DOMAIN tokens \ {job[Reminder].about} : tokens'[i] = tokens[i]
<1>0. Reminder \in Task
  BY Queues
<1>1. /\ JobOK(Reminder, job[Reminder], clock) /\ job[Reminder].at = "record"
      /\ UNCHANGED clock
  BY <1>0 DEF RecordReminder, At, TypeInv, JobsOK
<1>2. job[Reminder] \in Sending(Reminder)
  BY <1>1, JobShapes
<1>3. JobBecomes(Reminder, GoingOn(job[Reminder].todo, job[Reminder].now))
  <2>1. JobOK(Reminder, GoingOn(job[Reminder].todo, job[Reminder].now), clock)
    BY <1>1, RecordedIsOK DEF GoingOn
  <2>2. job' = [job EXCEPT ![Reminder] = GoingOn(job[Reminder].todo, job[Reminder].now)]
    BY DEF RecordReminder, GoingOn
  <2> QED
    BY <1>0, <1>1, <2>1, <2>2, OneJobChanges DEF TypeInv, JobBecomes
<1>4. PICK k, n : k = job[Reminder].about /\ n = Len(notifications["supervisor-unresponsive"]
                                                                  [job[Reminder].kase])
  OBVIOUS
<1>5. n \in Nat
  BY <1>2, <1>4, RowsAreSequences DEF Sending, TypeInv, Template, SweepTemplate
<1>6. tokens \in Seq(Token) /\ k \in 1..Len(tokens) /\ tokens[k] \in Token
  BY <1>4, TokensAreASequence DEF TypeInv
<1>7. Counted(tokens[k], n) \in Token
  BY <1>5, <1>6, CountedIsToken
<1>8. tokens' = [tokens EXCEPT ![k] = Counted(tokens[k], n)]
  BY <1>4 DEF RecordReminder
<1>9. tokens' \in Seq(Token) /\ DOMAIN tokens' = DOMAIN tokens
  BY <1>6, <1>7, <1>8, ExceptSeq, LenProperties
<1>10. tokens'[k] = Counted(tokens[k], n) /\ \A i \in DOMAIN tokens \ {k} : tokens'[i] = tokens[i]
  BY <1>4, <1>8
<1> QED
  BY <1>1, <1>2, <1>3, <1>4, <1>9, <1>10

LEMMA MailJobDoes ==
  ASSUME TypeInv, MailJob
  PROVE  \/ JobBecomes(Mailer, Idle) /\ UNCHANGED noticeVars
         \/ /\ \E m \in mail :
                 /\ mail' = mail \ {m}
                 /\ \/ JobBecomes(Mailer, job[Mailer])
                    \/ JobBecomes(Mailer, Deliverable({}, clock, m.to, m.kase, m.about))
            /\ job[Mailer].at = "idle"
            /\ UNCHANGED <<notifications, events>>
         \/ Deliver(Mailer)
<1>0. Mailer \in Task /\ Mailer \in QueueName
  BY Queues
<1>1. CASE DispatchTransition
  <2>1. /\ At(Mailer, "idle")
        /\ UNCHANGED <<clock, notifications, events>>
        /\ \E m \in mail :
             LET whom == resolveRecipients(m.to, m.kase) IN
             /\ mail' = mail \ {m}
             /\ job' = IF whom = {} THEN job ELSE
                       [job EXCEPT ![Mailer] = [at |-> "deliver", todo |-> {}, now |-> clock,
                                           template |-> m.to, kase |-> m.kase, about |-> m.about,
                                           unsent |-> whom]]
    BY <1>1 DEF DispatchTransition, Mailer
  <2>2. PICK m \in mail :
          /\ mail' = mail \ {m}
          /\ job' = IF resolveRecipients(m.to, m.kase) = {} THEN job ELSE
                    [job EXCEPT ![Mailer] = Deliverable({}, clock, m.to, m.kase, m.about)]
    BY <2>1 DEF Deliverable
  <2>3. m.to \in CaseState /\ m.kase \in Case /\ m.about \in Nat
    BY <2>2 DEF TypeInv, NoticesTypeOK, Mail
  <2>4. JobOK(Mailer, Deliverable({}, clock, m.to, m.kase, m.about), clock)
    <3>1. clock \in 0..MaxTime /\ clock <= clock
      BY NotificationsOK DEF TypeInv
    <3>2. JobOK(Mailer, [at |-> "next", todo |-> {}, now |-> clock], clock)
      BY <3>1, BeginIsOK
    <3>3. m.to \in TemplatesOf(Mailer)
      BY <2>3, Queues
    <3>4. JobOK(Mailer, Deliverable({} \ {m}, clock, m.to, m.kase, m.about), clock)
      BY <2>3, <3>2, <3>3, SendIsOK DEF Deliverable
    <3>5. {} \ {m} = {}
      OBVIOUS
    <3> QED
      BY <3>4, <3>5
  <2>5. CASE job' = job
    <3>1. JobBecomes(Mailer, job[Mailer])
      BY <2>1, <2>5 DEF TypeInv, JobsOK, JobBecomes
    <3> QED
      BY <2>1, <2>2, <3>1 DEF At
  <2>6. CASE job' = [job EXCEPT ![Mailer] = Deliverable({}, clock, m.to, m.kase, m.about)]
    <3>1. JobBecomes(Mailer, Deliverable({}, clock, m.to, m.kase, m.about))
      BY <1>0, <2>1, <2>4, <2>6, OneJobChanges DEF TypeInv, JobBecomes
    <3> QED
      BY <2>1, <2>2, <3>1 DEF At
  <2> QED
    BY <2>2, <2>5, <2>6
<1>2. CASE Finish(Mailer) /\ UNCHANGED noticeVars
  <2>1. JobBecomes(Mailer, Idle)
    BY <1>0, <1>2, EndDoes DEF Finish
  <2> QED
    BY <1>2, <2>1
<1> QED
  BY <1>1, <1>2 DEF MailJob, Mailer

\* A student gets a case, or has one already and the sweep ends.
LEMMA EnrollStudentDoes ==
  ASSUME TypeInv, NEW q \in WebTask \cup {"roster-sweep"}, EnrollStudent(q)
  PROVE  /\ status' \in [Case -> CaseState \cup {NoCase}]
         /\ WorksOn(q)
<1>0. q \in Task
  BY Queues
<1>1. PICK s \in job[q].todo :
       \/ \E c \in Case : Enter(c, "ELIGIBLE") /\ Skip(q, s)
       \/ End(q) /\ UNCHANGED vars
  BY DEF EnrollStudent
<1>2. At(q, "next") /\ UNCHANGED clock
  BY DEF EnrollStudent
<1>3. CASE \E c \in Case : Enter(c, "ELIGIBLE") /\ Skip(q, s)
  <2>1. JobBecomes(q, GoingOn(job[q].todo \ {s}, job[q].now))
    BY <1>0, <1>2, <1>3, SkipDoes DEF GoingOn
  <2>2. "ELIGIBLE" \in CaseState
    BY DEF CaseState
  <2>3. status' \in [Case -> CaseState \cup {NoCase}]
    BY <1>3, <2>2 DEF Enter, TypeInv
  <2> QED
    BY <2>1, <2>3 DEF WorksOn
<1>4. CASE End(q) /\ UNCHANGED vars
  <2>1. JobBecomes(q, Idle)
    BY <1>0, <1>2, <1>4, EndDoes
  <2> QED
    BY <1>4, <2>1 DEF WorksOn, vars, TypeInv
<1> QED
  BY <1>1, <1>3, <1>4

-----------------------------------------------------------------------------
(* Every step keeps the types, and leaves the queues that do not take it be.  *)

\* Queue p is not working: its job goes on or dies, its rows stay as they are.
Rests(p) ==
  /\ job'[p] \in {job[p], Idle}
  /\ \A t \in TemplatesOf(p), c \in Case : notifications'[t][c] = notifications[t][c]

LEMMA TemplatesAreApart ==
  /\ \A q \in Task : TemplatesOf(q) \subseteq Template
  /\ \A p, q \in Task : p # q => TemplatesOf(p) \cap TemplatesOf(q) = {}
<1>1. \A q \in Task : q \in {Focal, Reminder, Deadline, Mailer} \/ TemplatesOf(q) = {}
  BY Queues DEF Task
<1>2. SweepTemplate \cap CaseState = {}
  BY DEF SweepTemplate, CaseState
<1>3. \A q \in Task : TemplatesOf(q) \subseteq Template
  BY <1>1, Queues DEF Template, SweepTemplate
<1>4. ASSUME NEW p \in {Focal, Reminder, Deadline, Mailer},
             NEW q \in {Focal, Reminder, Deadline, Mailer}, p # q
      PROVE  TemplatesOf(p) \cap TemplatesOf(q) = {}
  <2>1. \A s \in {Focal, Reminder, Deadline} : TemplatesOf(s) \subseteq SweepTemplate
    BY Queues DEF SweepTemplate
  <2>2. CASE p = Mailer \/ q = Mailer
    BY <1>2, <1>4, <2>1, <2>2, Queues
  <2>3. CASE p # Mailer /\ q # Mailer
    BY <1>4, <2>3, Queues
  <2> QED
    BY <2>2, <2>3
<1> QED
  BY <1>1, <1>3, <1>4

\* A job that ends, goes on or gets mail to send.
LEMMA OthersRest ==
  ASSUME TypeInv, NEW q \in Task, NEW j, JobBecomes(q, j), UNCHANGED notifications
  PROVE  \A p \in QueueName \ {q} : Rests(p)
BY Queues DEF JobBecomes, Rests

LEMMA OthersRestToo ==
  ASSUME TypeInv, NEW q \in Task, Deliver(q)
  PROVE  /\ \A p \in QueueName \ {q} : Rests(p)
         /\ JobsOK' /\ NoticesTypeOK'
<1>1. /\ job[q] \in Sending(q) /\ NoticesTypeOK'
      /\ \E u \in job[q].unsent : \E n \in Nat :
           /\ RowAdded(job[q].template, job[q].kase, [to |-> u, about |-> job[q].about], n)
           /\ AfterDelivery(q, job[q], u)
  BY DeliverDoes
<1>2. JobsOK' /\ \A p \in Task \ {q} : job'[p] = job[p]
  BY <1>1 DEF AfterDelivery, JobBecomes
<1>3. job[q].template \in TemplatesOf(q)
  BY <1>1 DEF Sending
<1>4. ASSUME NEW p \in QueueName \ {q}, NEW t \in TemplatesOf(p), NEW c \in Case
      PROVE  notifications'[t][c] = notifications[t][c]
  <2>1. t \in Template /\ t # job[q].template
    BY <1>3, Queues, TemplatesAreApart
  <2> QED
    BY <1>1, <2>1 DEF RowAdded
<1> QED
  BY <1>1, <1>2, <1>4, Queues DEF Rests

LEMMA SameNotices ==
  ASSUME NoticesTypeOK, UNCHANGED <<events, notifications>>, mail' \subseteq Mail
  PROVE  NoticesTypeOK'
BY DEF NoticesTypeOK, Told

LEMMA EscalationJobTypes ==
  ASSUME TypeInv, EscalationJob
  PROVE  TypeInv' /\ \A p \in QueueName \ {Focal} : Rests(p)
<1>0. Focal \in Task
  BY Queues
<1>1. UNCHANGED <<registered, bounds, clock, crashes, status, tokens, semesters, events, mail>>
  BY DEF EscalationJob, StartFocalSlaSweep, FocalSlaCheck, Deliver, Finish, Begin, vars, noticeVars
<1>2. \/ (\E j : JobBecomes(Focal, j)) /\ UNCHANGED notifications
      \/ Deliver(Focal)
  BY EscalationJobDoes DEF WorksOn
<1>3. /\ \A p \in QueueName \ {Focal} : Rests(p)
      /\ JobsOK' /\ NoticesTypeOK'
  <2>1. CASE Deliver(Focal)
    BY <1>0, <2>1, OthersRestToo
  <2>2. CASE (\E j : JobBecomes(Focal, j)) /\ UNCHANGED notifications
    BY <1>0, <1>1, <2>2, OthersRest, SameNotices DEF JobBecomes, TypeInv, NoticesTypeOK
  <2> QED
    BY <1>2, <2>1, <2>2
<1> QED
  BY <1>1, <1>3 DEF TypeInv

LEMMA DeadlineJobTypes ==
  ASSUME TypeInv, DeadlineJob
  PROVE  TypeInv' /\ \A p \in QueueName \ {Deadline} : Rests(p)
<1>0. Deadline \in Task
  BY Queues
<1>1. UNCHANGED <<registered, bounds, clock, crashes, status, tokens, semesters, events, mail>>
  BY DEF DeadlineJob, StartDeadlineSweep, DeadlineCheck, Deliver, Finish, Begin, vars, noticeVars
<1>2. \/ (\E j : JobBecomes(Deadline, j)) /\ UNCHANGED notifications
      \/ Deliver(Deadline)
  BY DeadlineJobDoes DEF WorksOn
<1>3. /\ \A p \in QueueName \ {Deadline} : Rests(p)
      /\ JobsOK' /\ NoticesTypeOK'
  <2>1. CASE Deliver(Deadline)
    BY <1>0, <2>1, OthersRestToo
  <2>2. CASE (\E j : JobBecomes(Deadline, j)) /\ UNCHANGED notifications
    BY <1>0, <1>1, <2>2, OthersRest, SameNotices DEF JobBecomes, TypeInv, NoticesTypeOK
  <2> QED
    BY <1>2, <2>1, <2>2
<1> QED
  BY <1>1, <1>3 DEF TypeInv

\* The list of a reminder sweep: the live tokens as they are.
LiveTokens == {<<i, tokens[i]>> : i \in {k \in DOMAIN tokens : tokens[k].live}}

LEMMA ReminderJobDoes ==
  ASSUME TypeInv, ReminderInv, ReminderJob
  PROVE  \/ /\ JobBecomes(Reminder, Idle) \/ JobBecomes(Reminder, GoingOn(LiveTokens, clock))
            /\ UNCHANGED <<notifications, tokens>>
         \/ ReminderCheck(Reminder) /\ job[Reminder].at = "next" /\ UNCHANGED <<notifications, tokens>>
         \/ Deliver(Reminder) /\ UNCHANGED tokens
         \/ RecordReminder(Reminder) /\ job[Reminder].about \in DOMAIN tokens
            /\ UNCHANGED notifications
<1>0. Reminder \in Task
  BY Queues
<1>1. CASE StartReminderSweep /\ UNCHANGED <<noticeVars, tokens>>
  <2>1. LiveTokens \in SUBSET ItemsOf(Reminder)
    BY Queues, TokensAreASequence DEF LiveTokens, TypeInv
  <2>2. Begin(Reminder, LiveTokens)
    BY <1>1 DEF StartReminderSweep, Reminder, LiveTokens
  <2> HIDE DEF LiveTokens
  <2>3. JobBecomes(Reminder, GoingOn(LiveTokens, clock))
    BY <1>0, <2>1, <2>2, BeginDoes DEF GoingOn
  <2> QED
    BY <1>1, <2>3 DEF noticeVars
<1>2. CASE ReminderCheck(Reminder) /\ UNCHANGED <<noticeVars, tokens>>
  BY <1>2 DEF ReminderCheck, At, noticeVars
<1>3. CASE RecordReminder(Reminder) /\ UNCHANGED noticeVars
  BY <1>3 DEF RecordReminder, At, noticeVars, ReminderInv, TokenTurn
<1>4. CASE Finish(Reminder) /\ UNCHANGED <<noticeVars, tokens>>
  <2>1. JobBecomes(Reminder, Idle)
    BY <1>0, <1>4, EndDoes DEF Finish
  <2> QED
    BY <1>4, <2>1 DEF noticeVars
<1> QED
  BY <1>1, <1>2, <1>3, <1>4 DEF ReminderJob, Reminder

LEMMA ReminderJobTypes ==
  ASSUME TypeInv, ReminderInv, ReminderJob
  PROVE  TypeInv' /\ \A p \in QueueName \ {Reminder} : Rests(p)
<1>0. Reminder \in Task
  BY Queues
<1>1. UNCHANGED <<registered, bounds, clock, crashes, status, semesters, events, mail>>
  BY DEF ReminderJob, StartReminderSweep, ReminderCheck, RecordReminder, Deliver, Finish, Begin,
         vars, noticeVars
<1>2. \/ (\E j : JobBecomes(Reminder, j)) /\ UNCHANGED notifications /\ tokens' \in Seq(Token)
      \/ Deliver(Reminder) /\ tokens' \in Seq(Token)
  <2>1. CASE ReminderCheck(Reminder) /\ job[Reminder].at = "next" /\ UNCHANGED <<notifications, tokens>>
    <3>1. \A item \in job[Reminder].todo : TokenListed(item)
      BY <2>1 DEF ReminderInv, ListOK
    <3>2. \E j : JobBecomes(Reminder, j)
      BY <2>1, <3>1, ReminderCheckDoes
    <3> QED
      BY <2>1, <3>2 DEF TypeInv
  <2>2. CASE RecordReminder(Reminder) /\ job[Reminder].about \in DOMAIN tokens
             /\ UNCHANGED notifications
    BY <2>2, RecordReminderDoes
  <2> QED
    BY <2>1, <2>2, ReminderJobDoes DEF TypeInv
<1>3. /\ \A p \in QueueName \ {Reminder} : Rests(p)
      /\ JobsOK' /\ NoticesTypeOK' /\ tokens' \in Seq(Token)
  <2>1. CASE Deliver(Reminder) /\ tokens' \in Seq(Token)
    BY <1>0, <2>1, OthersRestToo
  <2>2. CASE (\E j : JobBecomes(Reminder, j)) /\ UNCHANGED notifications /\ tokens' \in Seq(Token)
    BY <1>0, <1>1, <2>2, OthersRest, SameNotices DEF JobBecomes, TypeInv, NoticesTypeOK
  <2> QED
    BY <1>2, <2>1, <2>2
<1> QED
  BY <1>1, <1>3 DEF TypeInv

LEMMA EnrollmentTypes ==
  ASSUME TypeInv, NEW q \in WebTask \cup {"roster-sweep"},
         UNCHANGED <<noticeVars, tokens, semesters, registered, bounds, clock, crashes>>,
         \/ StartAutoEnrollment(q) /\ UNCHANGED vars
         \/ EnrollStudent(q)
         \/ Finish(q) /\ UNCHANGED vars
  PROVE  TypeInv' /\ \A p \in QueueName \ {q} : Rests(p)
<1>0. q \in Task /\ ItemsOf(q) = Student
  BY Queues
<1>1. WorksOn(q) /\ status' \in [Case -> CaseState \cup {NoCase}]
  <2>1. CASE StartAutoEnrollment(q) /\ UNCHANGED vars
    <3>1. toEnroll \in SUBSET ItemsOf(q) /\ Begin(q, toEnroll)
      BY <1>0, <2>1 DEF StartAutoEnrollment, toEnroll
    <3>2. JobBecomes(q, GoingOn(toEnroll, clock))
      BY <1>0, <3>1, BeginDoes DEF GoingOn
    <3> QED
      BY <2>1, <3>2 DEF WorksOn, vars, TypeInv
  <2>2. CASE EnrollStudent(q)
    BY <2>2, EnrollStudentDoes
  <2>3. CASE Finish(q) /\ UNCHANGED vars
    <3>1. JobBecomes(q, Idle)
      BY <1>0, <2>3, EndDoes DEF Finish
    <3> QED
      BY <2>3, <3>1 DEF WorksOn, vars, TypeInv
  <2> QED
    BY <2>1, <2>2, <2>3
<1>2. PICK j : JobBecomes(q, j)
  BY <1>1 DEF WorksOn
<1>3. \A p \in QueueName \ {q} : Rests(p)
  BY <1>0, <1>2, OthersRest DEF noticeVars
<1>4. NoticesTypeOK'
  BY SameNotices DEF TypeInv, NoticesTypeOK, noticeVars
<1> QED
  BY <1>1, <1>2, <1>3, <1>4 DEF TypeInv, JobBecomes

LEMMA MailJobTypes ==
  ASSUME TypeInv, MailJob
  PROVE  TypeInv' /\ \A p \in QueueName \ {Mailer} : Rests(p)
<1>0. Mailer \in Task
  BY Queues
<1>1. UNCHANGED <<registered, bounds, clock, crashes, status, tokens, semesters, events>>
  BY DEF MailJob, DispatchTransition, Deliver, Finish, vars, noticeVars
<1>2. /\ \A p \in QueueName \ {Mailer} : Rests(p)
      /\ JobsOK' /\ NoticesTypeOK'
  <2>1. CASE Deliver(Mailer)
    BY <1>0, <2>1, OthersRestToo
  <2>2. CASE (\E j : JobBecomes(Mailer, j)) /\ UNCHANGED <<notifications, events>>
             /\ mail' \subseteq mail
    BY <1>0, <1>1, <2>2, OthersRest, SameNotices DEF JobBecomes, TypeInv, NoticesTypeOK
  <2> QED
    BY <2>1, <2>2, MailJobDoes DEF noticeVars
<1> QED
  BY <1>1, <1>2 DEF TypeInv

\* A case moves: its events get one more, which may be announced.
EventAdded(c, e, n) ==
  /\ Len(events[c]) = n /\ DOMAIN events[c] = 1..n
  /\ Len(events'[c]) = n + 1 /\ DOMAIN events'[c] = 1..(n + 1)
  /\ events'[c][n + 1] = e
  /\ \A i \in 1..n : events'[c][i] = events[c][i]
  /\ \A d \in Case \ {c} : events'[d] = events[d]

LEMMA CasesMoveDoes ==
  ASSUME TypeInv, CasesMove
  PROVE  /\ status' \in [Case -> CaseState \cup {NoCase}]
         /\ NoticesTypeOK'
         /\ UNCHANGED <<notifications, jobVars, tokens, semesters>>
         /\ \/ UNCHANGED <<events, mail>>
            \/ \E c \in Case, e \in CaseEvent, n \in Nat :
                 /\ EventAdded(c, e, n)
                 /\ e.seen = Len(notifications["focal-sla-escalation"][c])
                 /\ \/ mail' = mail
                    \/ mail' = mail \cup {[kase |-> c, to |-> e.to, about |-> n + 1]}
<1>1. ASSUME NEW c \in Case, Create(c), UNCHANGED <<jobVars, noticeVars, tokens, semesters>>
      PROVE  /\ status' \in [Case -> CaseState \cup {NoCase}]
             /\ NoticesTypeOK'
  <2>1. status' \in [Case -> CaseState \cup {NoCase}]
    BY <1>1, TableStates DEF Create, Enter, TypeInv
  <2>2. NoticesTypeOK'
    BY <1>1, SameNotices DEF TypeInv, NoticesTypeOK, noticeVars
  <2> QED
    BY <2>1, <2>2
<1>2. ASSUME NEW c \in Case, CaseMoves(c), UNCHANGED <<jobVars, tokens, semesters>>
      PROVE  /\ status' \in [Case -> CaseState \cup {NoCase}]
             /\ NoticesTypeOK' /\ UNCHANGED notifications
             /\ \E e \in CaseEvent, n \in Nat :
                  /\ EventAdded(c, e, n)
                  /\ e.seen = Len(notifications["focal-sla-escalation"][c])
                  /\ \/ mail' = mail
                     \/ mail' = mail \cup {[kase |-> c, to |-> e.to, about |-> n + 1]}
  <2>1. PICK t \in TRANSITIONS : Enter(c, t.to)
    BY <1>2 DEF CaseMoves, Move
  <2>2. t.to \in CaseState
    BY TableStates
  <2>3. status' \in [Case -> CaseState \cup {NoCase}] /\ status'[c] = t.to
    BY <2>1, <2>2 DEF Enter, TypeInv
  <2>4. PICK k : k = Len(notifications["focal-sla-escalation"][c])
    OBVIOUS
  <2>5. k \in Nat
    BY <2>4, RowsAreSequences DEF TypeInv, Template, SweepTemplate
  <2> DEFINE e == [to |-> t.to, time |-> clock, seen |-> k]
  <2>6. e \in CaseEvent /\ e.seen = k /\ e.to = t.to
    BY <2>2, <2>5 DEF CaseEvent, TypeInv
  <2>7. events' = [events EXCEPT ![c] = Append(@, e)] /\ UNCHANGED notifications
    BY <1>2, <2>3, <2>4 DEF CaseMoves
  <2> HIDE DEF e
  <2>8. PICK n \in Nat : n = Len(events[c])
    BY EventsAreSequences DEF TypeInv
  <2>9. events \in [Case -> Seq(CaseEvent)] /\ events[c] \in Seq(CaseEvent)
    BY DEF TypeInv, NoticesTypeOK
  <2>10. /\ Append(events[c], e) \in Seq(CaseEvent) /\ Len(Append(events[c], e)) = n + 1
         /\ Append(events[c], e)[n + 1] = e
         /\ \A i \in 1..n : Append(events[c], e)[i] = events[c][i]
         /\ DOMAIN events[c] = 1..n /\ DOMAIN Append(events[c], e) = 1..(n + 1)
    BY <2>6, <2>8, <2>9, AppendProperties, LenProperties
  <2>11. /\ events' \in [Case -> Seq(CaseEvent)] /\ events'[c] = Append(events[c], e)
         /\ \A d \in Case \ {c} : events'[d] = events[d]
    BY <2>7, <2>9, <2>10
  <2>12. EventAdded(c, e, n)
    BY <2>8, <2>10, <2>11 DEF EventAdded
  <2>13. \/ mail' = mail
         \/ mail' = mail \cup {[kase |-> c, to |-> e.to, about |-> n + 1]}
    <3>1. Len(events'[c]) = n + 1
      BY <2>10, <2>11
    <3> QED
      BY <1>2, <2>3, <2>6, <3>1 DEF CaseMoves
  <2>14. mail' \subseteq Mail
    <3>1. [kase |-> c, to |-> e.to, about |-> n + 1] \in Mail
      BY <2>2, <2>6, <2>8 DEF Mail
    <3> QED
      BY <2>13, <3>1 DEF TypeInv, NoticesTypeOK
  <2>15. NoticesTypeOK'
    BY <2>7, <2>11, <2>14 DEF TypeInv, NoticesTypeOK, Told
  <2> QED
    BY <2>3, <2>4, <2>6, <2>7, <2>8, <2>12, <2>13, <2>15
<1>3. UNCHANGED <<jobVars, tokens, semesters>>
  BY DEF CasesMove
<1>4. CASE \E c \in Case : Create(c) /\ UNCHANGED <<jobVars, noticeVars, tokens, semesters>>
  <2>1. UNCHANGED <<notifications, events, mail>>
    BY <1>4 DEF noticeVars
  <2> QED
    BY <1>1, <1>3, <1>4, <2>1
<1>5. CASE \E c \in Case : CaseMoves(c) /\ UNCHANGED <<jobVars, tokens, semesters>>
  BY <1>2, <1>3, <1>5
<1> QED
  BY <1>4, <1>5 DEF CasesMove

\* Tokens come and go.
LEMMA TokensChangeDoes ==
  ASSUME TypeInv, TokensChange
  PROVE  /\ tokens' \in Seq(Token)
         /\ DOMAIN tokens \subseteq DOMAIN tokens'
         /\ \A k \in DOMAIN tokens :
              /\ tokens'[k].kase = tokens[k].kase /\ tokens'[k].time = tokens[k].time
              /\ tokens'[k].reminders = tokens[k].reminders /\ tokens'[k].seen = tokens[k].seen
         /\ \A k \in DOMAIN tokens' \ DOMAIN tokens :
              /\ tokens'[k].time = clock /\ tokens'[k].reminders = 0
              /\ tokens'[k].seen = Len(notifications["supervisor-unresponsive"][tokens'[k].kase])
<1>1. PICK n \in Nat : DOMAIN tokens = 1..n /\ Len(tokens) = n
                       /\ \A i \in 1..n : tokens[i] \in Token
  BY TokensAreASequence DEF TypeInv
<1>2. tokens \in Seq(Token)
  BY DEF TypeInv
<1>3. ASSUME NEW r \in Token
      PROVE  LET s == [r EXCEPT !.live = FALSE] IN
             /\ s \in Token /\ s.kase = r.kase /\ s.time = r.time /\ s.reminders = r.reminders
             /\ s.seen = r.seen
  BY DEF Token
<1>4. CASE \E c \in Case : IssueToken(c)
  <2>1. PICK c \in Case : IssueToken(c)
    BY <1>4
  <2>2. PICK k : k = Len(notifications["supervisor-unresponsive"][c])
    OBVIOUS
  <2>3. k \in Nat
    BY <2>2, RowsAreSequences DEF TypeInv, Template, SweepTemplate
  <2> DEFINE old == [i \in DOMAIN tokens |-> IF tokens[i].kase = c
                                             THEN [tokens[i] EXCEPT !.live = FALSE] ELSE tokens[i]]
             new == [kase |-> c, time |-> clock, reminders |-> 0, live |-> TRUE, seen |-> k]
  <2>4. new \in Token /\ new.time = clock /\ new.reminders = 0 /\ new.seen = k /\ new.kase = c
    BY <2>3 DEF Token, TypeInv
  <2>5. /\ old \in [1..n -> Token]
        /\ \A i \in 1..n : /\ old[i].kase = tokens[i].kase /\ old[i].time = tokens[i].time
                           /\ old[i].reminders = tokens[i].reminders /\ old[i].seen = tokens[i].seen
    BY <1>1, <1>3
  <2>6. tokens' = Append(old, new)
    BY <2>1, <2>2 DEF IssueToken
  <2> HIDE DEF old, new
  <2>7. old \in Seq(Token) /\ Len(old) = n
    BY <2>5, SeqDef, LenProperties
  <2>8. /\ tokens' \in Seq(Token) /\ DOMAIN tokens' = 1..(n + 1) /\ tokens'[n + 1] = new
        /\ \A i \in 1..n : tokens'[i] = old[i]
    BY <2>4, <2>6, <2>7, AppendProperties, LenProperties
  <2>9. \A i \in DOMAIN tokens' \ DOMAIN tokens : i = n + 1
    BY <1>1, <2>8
  <2>10. DOMAIN tokens \subseteq DOMAIN tokens'
    BY <1>1, <2>8
  <2> QED
    BY <1>1, <2>2, <2>4, <2>5, <2>8, <2>9, <2>10
<1>5. CASE \E i \in DOMAIN tokens : UseToken(i)
  <2>1. PICK i \in DOMAIN tokens : tokens' = [tokens EXCEPT ![i].live = FALSE]
    BY <1>5 DEF UseToken
  <2>2. PICK token : token = [tokens[i] EXCEPT !.live = FALSE]
    OBVIOUS
  <2>3. tokens' = [tokens EXCEPT ![i] = token]
    BY <2>1, <2>2
  <2>4. /\ token \in Token /\ token.kase = tokens[i].kase /\ token.time = tokens[i].time
        /\ token.reminders = tokens[i].reminders /\ token.seen = tokens[i].seen
    BY <1>1, <1>3, <2>1, <2>2
  <2>5. tokens' \in Seq(Token) /\ DOMAIN tokens' = DOMAIN tokens
    <3>1. i \in 1..Len(tokens)
      BY <1>1
    <3> QED
      BY <1>2, <2>3, <2>4, <3>1, ExceptSeq, LenProperties
  <2> QED
    BY <2>3, <2>4, <2>5
<1> QED
  BY <1>4, <1>5 DEF TokensChange

-----------------------------------------------------------------------------
(* The semesters.                                                          *)

LEMMA AtMostOneIsOne ==
  ASSUME AtMostOneOpen
  PROVE  OneOpenSemester
<1>1. CASE Open = {}
  BY <1>1, FS_EmptySet DEF OneOpenSemester
<1>2. CASE Open # {}
  <2>1. PICK m : Open = {m}
    BY <1>2 DEF AtMostOneOpen
  <2>2. Cardinality(Open) = 1
    BY <2>1, FS_Singleton
  <2> QED
    BY <2>2 DEF OneOpenSemester
<1> QED
  BY <1>1, <1>2

\* A row in another state: nothing else is opened.
LEMMA SemesterRowChanges ==
  ASSUME TypeInv, AtMostOneOpen, NEW n \in Semester, NEW row \in SemesterRow,
         row.status = "OPEN" => n \in Open,
         semesters' = [semesters EXCEPT ![n] = row]
  PROVE  semesters' \in [Semester -> SemesterRow \cup {NoSemester}] /\ AtMostOneOpen'
BY DEF TypeInv, AtMostOneOpen, Open

LEMMA CreatedIsRow ==
  ASSUME TypeInv, NEW n \in Semester, Created(n)
  PROVE  semesters[n] \in SemesterRow
BY DEF TypeInv, Created

LEMMA PostSemesterKeeps ==
  ASSUME TypeInv, AtMostOneOpen, PostSemester \/ PostClose \/ PostDeadline
  PROVE  semesters' \in [Semester -> SemesterRow \cup {NoSemester}] /\ AtMostOneOpen'
<1>1. CASE PostSemester
  <2>1. PICK n \in Semester : semesters' = [semesters EXCEPT ![n] =
                                [status |-> "UPCOMING", deadline |-> NoDeadline]]
    BY <1>1 DEF PostSemester, CreateSemester
  <2>2. [status |-> "UPCOMING", deadline |-> NoDeadline] \in SemesterRow
    BY DEF SemesterRow
  <2> QED
    BY <2>1, <2>2, SemesterRowChanges
<1>2. CASE PostClose
  <2>1. PICK n \in Semester : Created(n) /\ semesters' = [semesters EXCEPT ![n].status = "CLOSED"]
    BY <1>2 DEF PostClose, CloseSemester
  <2>2. PICK row : row = [semesters[n] EXCEPT !.status = "CLOSED"]
    OBVIOUS
  <2>3. row \in SemesterRow /\ row.status = "CLOSED"
    BY <2>1, <2>2, CreatedIsRow DEF SemesterRow
  <2>4. semesters' = [semesters EXCEPT ![n] = row]
    BY <2>1, <2>2
  <2> QED
    BY <2>3, <2>4, SemesterRowChanges
<1>3. CASE PostDeadline
  <2>1. PICK n \in Semester, d \in 0..MaxTime \cup {NoDeadline} :
          Created(n) /\ semesters' = [semesters EXCEPT ![n].deadline = d]
    <3>1. 0..bounds.until \subseteq 0..MaxTime
      BY NotificationsOK DEF TypeInv
    <3> QED
      BY <1>3, <3>1 DEF PostDeadline, SetSemesterDeadline
  <2>2. PICK row : row = [semesters[n] EXCEPT !.deadline = d]
    OBVIOUS
  <2>3. row \in SemesterRow /\ row.status = semesters[n].status
    BY <2>1, <2>2, CreatedIsRow DEF SemesterRow
  <2>4. semesters' = [semesters EXCEPT ![n] = row]
    BY <2>1, <2>2
  <2>5. row.status = "OPEN" => n \in Open
    BY <2>3 DEF Open
  <2> QED
    BY <2>3, <2>4, <2>5, SemesterRowChanges
<1> QED
  BY <1>1, <1>2, <1>3

\* The second half of opening a semester: whatever was opened meanwhile, either
\* it is among the rows the first half saw or the index refuses.
LEMMA OpenCommitKeeps ==
  ASSUME TypeInv, AtMostOneOpen, NEW w \in WebTask, OpenCommit(w)
  PROVE  /\ semesters' \in [Semester -> SemesterRow \cup {NoSemester}] /\ AtMostOneOpen'
         /\ JobBecomes(w, Idle)
<1>1. w \in Task /\ job[w].at = "open" /\ JobOK(w, job[w], clock)
  BY Queues DEF OpenCommit, At, TypeInv, JobsOK
<1>2. JobBecomes(w, Idle)
  BY <1>1, EndDoes DEF OpenCommit
<1>3. PICK s, seen : s = job[w].semester /\ seen = job[w].seen
  OBVIOUS
<1>4. s \in Semester
  BY <1>1, <1>3, JobShapes DEF Opening
<1>5. CASE Open \subseteq seen \cup {s}
  <2>1. semesters' = [n \in Semester |->
                        IF n = s THEN [semesters[n] EXCEPT !.status = "OPEN"]
                        ELSE IF n \in seen THEN [semesters[n] EXCEPT !.status = "CLOSED"]
                        ELSE semesters[n]]
    BY <1>3, <1>5 DEF OpenCommit
  <2>2. ASSUME NEW n \in Semester
        PROVE  /\ semesters'[n] \in SemesterRow \cup {NoSemester}
               /\ semesters'[n].status = "OPEN" => n = s
    <3>1. PICK row : row = semesters[n]
      OBVIOUS
    <3>2. row \in SemesterRow \cup {NoSemester} /\ (row.status = "OPEN" => n \in Open)
      BY <3>1 DEF TypeInv, Open
    <3>3. /\ [row EXCEPT !.status = "OPEN"] \in SemesterRow
          /\ [row EXCEPT !.status = "CLOSED"] \in SemesterRow
          /\ [row EXCEPT !.status = "CLOSED"].status = "CLOSED"
      BY <3>2 DEF SemesterRow, NoSemester
    <3>4. semesters'[n] = IF n = s THEN [row EXCEPT !.status = "OPEN"]
                          ELSE IF n \in seen THEN [row EXCEPT !.status = "CLOSED"] ELSE row
      BY <2>1, <3>1
    <3> QED
      BY <1>5, <3>2, <3>3, <3>4
  <2>3. semesters' \in [Semester -> SemesterRow \cup {NoSemester}]
    BY <2>1, <2>2
  <2>4. \A n \in Open' : n = s
    BY <2>2 DEF Open
  <2> QED
    BY <1>2, <2>3, <2>4 DEF AtMostOneOpen
<1>6. CASE semesters' = semesters
  <2>1. semesters' \in [Semester -> SemesterRow \cup {NoSemester}]
    BY <1>6 DEF TypeInv
  <2>2. Open' = Open
    BY <1>6 DEF Open
  <2> QED
    BY <1>2, <2>1, <2>2 DEF AtMostOneOpen
<1> QED
  BY <1>2, <1>3, <1>5, <1>6 DEF OpenCommit

LEMMA OpenSemesterDoes ==
  ASSUME TypeInv, NEW w \in WebTask, NEW n \in Semester, OpenSemester(w, n)
  PROVE  JobBecomes(w, [at |-> "open", semester |-> n, seen |-> Open])
<1>1. w \in Task /\ w \notin QueueName
  BY Queues
<1>2. JobOK(w, [at |-> "open", semester |-> n, seen |-> Open], clock)
  BY <1>1 DEF JobOK, Opening, Open
<1> QED
  BY <1>1, <1>2, OneJobChanges DEF TypeInv, OpenSemester, JobBecomes

-----------------------------------------------------------------------------
(* All steps.                                                              *)

\* The queue whose job takes the step.
Takes(q) == \/ q = Focal /\ EscalationJob
            \/ q = Reminder /\ ReminderJob
            \/ q = Deadline /\ DeadlineJob
            \/ q = Mailer /\ MailJob
            \/ q = "roster-sweep" /\ EnrollmentJob

LEMMA StepKeepsTypes ==
  ASSUME TypeInv, ReminderInv, AtMostOneOpen, [BackgroundNext]_backgroundVars
  PROVE  /\ TypeInv' /\ AtMostOneOpen'
         /\ \A q \in QueueName : Rests(q) \/ Takes(q)
<1>0. QueueName \subseteq Task /\ WebTask \subseteq Task /\ WebTask \cap QueueName = {}
  BY Queues
<1>1. CASE UNCHANGED <<job, notifications, registered, bounds, crashes, semesters>>
           /\ NoticesTypeOK' /\ tokens' \in Seq(Token) /\ UNCHANGED clock
           /\ status' \in [Case -> CaseState \cup {NoCase}]
  BY <1>1, <1>0 DEF TypeInv, JobsOK, Rests, AtMostOneOpen, Open
<1>2. CASE CasesMove
  BY <1>1, <1>2, CasesMoveDoes DEF jobVars, TypeInv
<1>3. CASE TokensChange
  <2>1. UNCHANGED <<vars, jobVars, noticeVars, semesters>>
    BY <1>3 DEF TokensChange
  <2> QED
    BY <1>1, <1>3, <2>1, TokensChangeDoes, SameNotices
    DEF jobVars, TypeInv, vars, noticeVars, NoticesTypeOK
<1>4. CASE PostSemester \/ PostClose \/ PostDeadline
  <2>1. UNCHANGED <<vars, jobVars, noticeVars, tokens>>
    BY <1>4 DEF PostSemester, PostClose, PostDeadline
  <2>2. NoticesTypeOK'
    BY <2>1, SameNotices DEF TypeInv, NoticesTypeOK, noticeVars
  <2> QED
    BY <1>0, <1>4, <2>1, <2>2, PostSemesterKeeps
    DEF jobVars, TypeInv, vars, noticeVars, JobsOK, Rests
<1>5. CASE \E w \in WebTask, n \in Semester :
             OpenSemester(w, n) /\ UNCHANGED <<vars, noticeVars, tokens, semesters>>
  <2>1. PICK w \in WebTask, n \in Semester :
             OpenSemester(w, n) /\ UNCHANGED <<vars, noticeVars, tokens, semesters>>
    BY <1>5
  <2>2. PICK j : JobBecomes(w, j)
    BY <2>1, OpenSemesterDoes
  <2>3. NoticesTypeOK'
    BY <2>1, SameNotices DEF TypeInv, NoticesTypeOK, noticeVars
  <2>4. \A p \in QueueName : Rests(p)
    BY <1>0, <2>1, <2>2, OthersRest DEF noticeVars
  <2> QED
    BY <2>1, <2>2, <2>3, <2>4
    DEF TypeInv, JobBecomes, vars, OpenSemester, AtMostOneOpen, Open
<1>6. CASE \E w \in WebTask : OpenCommit(w) /\ UNCHANGED <<vars, noticeVars, tokens>>
  <2>1. PICK w \in WebTask : OpenCommit(w) /\ UNCHANGED <<vars, noticeVars, tokens>>
    BY <1>6
  <2>2. /\ semesters' \in [Semester -> SemesterRow \cup {NoSemester}] /\ AtMostOneOpen'
        /\ JobBecomes(w, Idle)
    BY <2>1, OpenCommitKeeps
  <2>3. NoticesTypeOK'
    BY <2>1, SameNotices DEF TypeInv, NoticesTypeOK, noticeVars
  <2>4. \A p \in QueueName : Rests(p)
    BY <1>0, <2>1, <2>2, OthersRest DEF noticeVars
  <2> QED
    BY <2>1, <2>2, <2>3, <2>4 DEF TypeInv, JobBecomes, vars, OpenCommit
<1>7. CASE \E q \in WebTask \cup {"roster-sweep"} :
             /\ UNCHANGED <<noticeVars, tokens, semesters, registered, bounds, clock, crashes>>
             /\ \/ StartAutoEnrollment(q) /\ UNCHANGED vars
                \/ EnrollStudent(q)
                \/ Finish(q) /\ UNCHANGED vars
             /\ q \in QueueName => EnrollmentJob
  <2>1. PICK q \in WebTask \cup {"roster-sweep"} :
             /\ UNCHANGED <<noticeVars, tokens, semesters, registered, bounds, clock, crashes>>
             /\ \/ StartAutoEnrollment(q) /\ UNCHANGED vars
                \/ EnrollStudent(q)
                \/ Finish(q) /\ UNCHANGED vars
             /\ q \in QueueName => EnrollmentJob
    BY <1>7
  <2>2. TypeInv' /\ \A p \in QueueName \ {q} : Rests(p)
    BY <2>1, EnrollmentTypes
  <2>3. q \in QueueName => Takes(q)
    BY <1>0, <2>1 DEF Takes
  <2> QED
    BY <2>1, <2>2, <2>3 DEF AtMostOneOpen, Open
<1>8. CASE AdminRequests
  <2>1. \/ \E w \in WebTask, n \in Semester :
              OpenSemester(w, n) /\ UNCHANGED <<vars, noticeVars, tokens, semesters>>
        \/ \E w \in WebTask :
              StartAutoEnrollment(w) /\ UNCHANGED <<vars, noticeVars, tokens, semesters>>
    BY <1>8 DEF AdminRequests
  <2>2. CASE \E w \in WebTask :
              StartAutoEnrollment(w) /\ UNCHANGED <<vars, noticeVars, tokens, semesters>>
    BY <1>0, <1>7, <2>2 DEF StartAutoEnrollment, Begin
  <2> QED
    BY <1>5, <2>1, <2>2
<1>9. CASE \E w \in WebTask : AdminStep(w)
  <2>1. PICK w \in WebTask : AdminStep(w)
    BY <1>9
  <2>2. CASE OpenCommit(w) /\ UNCHANGED <<vars, noticeVars, tokens>>
    BY <1>6, <2>2
  <2>3. CASE EnrollStudent(w) /\ UNCHANGED <<noticeVars, tokens, semesters>>
    BY <1>0, <1>7, <2>3 DEF EnrollStudent
  <2>4. CASE Finish(w) /\ UNCHANGED <<vars, noticeVars, tokens, semesters>>
    BY <1>0, <1>7, <2>4 DEF Finish
  <2> QED
    BY <2>1, <2>2, <2>3, <2>4 DEF AdminStep
<1>10. CASE EnrollmentJob
  BY <1>7, <1>10 DEF EnrollmentJob, StartAutoEnrollment, Begin, EnrollStudent, Finish
<1>11. CASE EscalationJob
  BY <1>11, EscalationJobTypes DEF Takes, EscalationJob, AtMostOneOpen, Open
<1>12. CASE ReminderJob
  BY <1>12, ReminderJobTypes DEF Takes, ReminderJob, AtMostOneOpen, Open
<1>13. CASE DeadlineJob
  BY <1>13, DeadlineJobTypes DEF Takes, DeadlineJob, AtMostOneOpen, Open
<1>14. CASE MailJob
  BY <1>14, MailJobTypes DEF Takes, MailJob, AtMostOneOpen, Open
<1>15. CASE clock < bounds.until /\ Tick /\ UNCHANGED <<vars, noticeVars, tokens, semesters>>
  <2>1. clock \in Nat /\ clock' = clock + 1 /\ clock' \in 0..MaxTime /\ clock <= clock'
    BY <1>15, NotificationsOK DEF TypeInv, Tick
  <2>2. UNCHANGED <<registered, bounds, job, crashes>>
    BY <1>15 DEF Tick
  <2>3. \A q \in Task : JobOK(q, job[q], clock')
    BY <2>1, JobsAge, NotificationsOK DEF TypeInv, JobsOK
  <2>4. NoticesTypeOK'
    BY <1>15, SameNotices DEF TypeInv, NoticesTypeOK, noticeVars
  <2> QED
    BY <1>0, <1>15, <2>1, <2>2, <2>3, <2>4
    DEF TypeInv, vars, noticeVars, JobsOK, Rests, AtMostOneOpen, Open
<1>16. CASE WorkerDiesAndRestarts /\ UNCHANGED <<vars, tokens, semesters>>
  <2>1. /\ crashes' = crashes + 1 /\ crashes < MaxCrashes
        /\ job' = [q \in Task |-> IF q \in QueueName THEN Idle ELSE job[q]]
        /\ UNCHANGED <<registered, bounds, clock, events, notifications>>
        /\ mail' \in {mail, mail \cup Stalled(Mailer)}
    BY <1>16 DEF WorkerDiesAndRestarts, WorkerDies, Mailer
  <2>2. crashes' \in 0..MaxCrashes
    BY <2>1, QueuesOK DEF TypeInv
  <2>3. JobsOK'
    BY <2>1, IdleIsOK DEF TypeInv, JobsOK
  <2>4. mail' \subseteq Mail
    <3>1. ASSUME job[Mailer].at = "deliver"
          PROVE  [kase |-> job[Mailer].kase, to |-> job[Mailer].template,
                  about |-> job[Mailer].about] \in Mail
      <4>1. job[Mailer] \in Sending(Mailer) /\ TemplatesOf(Mailer) = CaseState
        BY <3>1, Queues, JobShapes DEF TypeInv, JobsOK
      <4> QED
        BY <4>1 DEF Sending, Mail
    <3> QED
      BY <2>1, <3>1 DEF Stalled, At, TypeInv, NoticesTypeOK
  <2>5. NoticesTypeOK'
    BY <2>1, <2>4, SameNotices DEF TypeInv
  <2>6. \A p \in QueueName : Rests(p)
    BY <1>0, <2>1 DEF Rests
  <2> QED
    BY <1>16, <2>1, <2>2, <2>3, <2>5, <2>6 DEF TypeInv, vars, AtMostOneOpen, Open
<1>17. CASE UNCHANGED backgroundVars
  <2>1. UNCHANGED <<vars, jobVars, noticeVars, tokens, semesters>>
    BY <1>17 DEF backgroundVars
  <2>2. NoticesTypeOK'
    BY <2>1, SameNotices DEF TypeInv, NoticesTypeOK, noticeVars
  <2> QED
    BY <1>1, <2>1, <2>2 DEF jobVars, TypeInv, vars, noticeVars
<1> QED
  BY <1>2, <1>3, <1>4, <1>8, <1>9, <1>10, <1>11, <1>12, <1>13, <1>14, <1>15, <1>16, <1>17
  DEF BackgroundNext

\* What happened stays on file; an event knows the escalations before it.
EventsGrow ==
  \A c \in Case :
    /\ DOMAIN events[c] \subseteq DOMAIN events'[c]
    /\ \A i \in DOMAIN events[c] : events'[c][i] = events[c][i]
    /\ \A i \in DOMAIN events'[c] \ DOMAIN events[c] :
         events'[c][i].seen = Len(notifications["focal-sla-escalation"][c])

LEMMA StepGrows ==
  ASSUME TypeInv, [BackgroundNext]_backgroundVars
  PROVE  clock \in Nat /\ clock' \in Nat /\ clock <= clock' /\ EventsGrow
<1>0. clock \in Nat
  BY NotificationsOK DEF TypeInv
<1>1. CASE CasesMove
  <2>1. clock' = clock
    BY <1>1, CasesMoveDoes DEF jobVars
  <2>2. EventsGrow
    <3>1. CASE UNCHANGED events
      BY <3>1 DEF EventsGrow
    <3>2. CASE \E c \in Case, e \in CaseEvent, n \in Nat :
                 EventAdded(c, e, n) /\ e.seen = Len(notifications["focal-sla-escalation"][c])
      <4>1. PICK c \in Case, e \in CaseEvent, n \in Nat :
                 EventAdded(c, e, n) /\ e.seen = Len(notifications["focal-sla-escalation"][c])
        BY <3>2
      <4>2. ASSUME NEW d \in Case
            PROVE  /\ DOMAIN events[d] \subseteq DOMAIN events'[d]
                   /\ \A i \in DOMAIN events[d] : events'[d][i] = events[d][i]
                   /\ \A i \in DOMAIN events'[d] \ DOMAIN events[d] :
                        events'[d][i].seen = Len(notifications["focal-sla-escalation"][d])
        <5>1. CASE d = c
          <6>1. (1..(n + 1)) \ (1..n) = {n + 1} /\ 1..n \subseteq 1..(n + 1)
            OBVIOUS
          <6> QED
            BY <4>1, <5>1, <6>1 DEF EventAdded
        <5>2. CASE d # c
          BY <4>1, <5>2 DEF EventAdded
        <5> QED
          BY <5>1, <5>2
      <4> QED
        BY <4>2 DEF EventsGrow
    <3> QED
      BY <1>1, <3>1, <3>2, CasesMoveDoes
  <2> QED
    BY <1>0, <2>1, <2>2
<1>2. CASE UNCHANGED events /\ UNCHANGED clock
  BY <1>0, <1>2 DEF EventsGrow
<1>3. CASE Tick /\ UNCHANGED noticeVars
  BY <1>0, <1>3 DEF Tick, EventsGrow, noticeVars
<1>4. CASE TokensChange \/ PostSemester \/ PostClose \/ PostDeadline \/ AdminRequests
  BY <1>2, <1>4
  DEF TokensChange, PostSemester, PostClose, PostDeadline, AdminRequests, noticeVars, jobVars,
      OpenSemester, StartAutoEnrollment, Begin
<1>5. CASE \E w \in WebTask : AdminStep(w)
  BY <1>2, <1>5 DEF AdminStep, OpenCommit, EnrollStudent, Finish, noticeVars
<1>6. CASE EscalationJob \/ DeadlineJob
  BY <1>2, <1>6 DEF EscalationJob, DeadlineJob, StartFocalSlaSweep, FocalSlaCheck, Deliver, Finish,
                    StartDeadlineSweep, DeadlineCheck, Begin, noticeVars
<1>7. CASE ReminderJob \/ EnrollmentJob \/ MailJob
  BY <1>2, <1>7
  DEF ReminderJob, StartReminderSweep, ReminderCheck, RecordReminder, Deliver, Finish, Begin,
      EnrollmentJob, StartAutoEnrollment, EnrollStudent, MailJob, DispatchTransition, noticeVars
<1>8. CASE WorkerDiesAndRestarts
  BY <1>2, <1>8 DEF WorkerDiesAndRestarts, WorkerDies
<1>9. CASE UNCHANGED backgroundVars
  BY <1>2, <1>9 DEF backgroundVars, jobVars, noticeVars
<1> QED
  BY <1>1, <1>3, <1>4, <1>5, <1>6, <1>7, <1>8, <1>9 DEF BackgroundNext

\* A delivery keeps news news, and the rows different.
LEMMA DeliveryKeepsNews ==
  ASSUME TypeInv, NEW q \in Task, Deliver(q), SendsNews(q), NEW t, t = job[q].template,
         \A c \in Case : RowsDiffer(t, c)
  PROVE  /\ SendsNews(q)'
         /\ \A c \in Case : RowsDiffer(t, c)'
<1>1. PICK j : j = job[q]
  OBVIOUS
<1>2. /\ j.at = "deliver" /\ j \in Sending(q)
      /\ \E u \in j.unsent : \E n \in Nat :
           /\ RowAdded(j.template, j.kase, [to |-> u, about |-> j.about], n)
           /\ AfterDelivery(q, j, u)
  BY <1>1, DeliverDoes
<1>3. PICK u \in j.unsent, n \in Nat :
         /\ RowAdded(j.template, j.kase, [to |-> u, about |-> j.about], n)
         /\ AfterDelivery(q, j, u)
  BY <1>2
<1>4. j.template \in Template /\ j.kase \in Case
  BY <1>2, TemplatesAreApart DEF Sending
<1> DEFINE row == [to |-> u, about |-> j.about]
<1>5. Untold(j.template, j.kase, j.about, j.unsent)
  BY <1>1, <1>2 DEF SendsNews
<1>6. row \notin Told(j.template, j.kase)
  BY <1>5 DEF Untold
<1>7. ASSUME NEW c \in Case PROVE RowsDiffer(t, c)'
  BY <1>1, <1>3, <1>4, <1>6, RowAddedTold
<1>8. SendsNews(q)'
  <2>1. CASE JobBecomes(q, [j EXCEPT !.unsent = j.unsent \ {u}])
    <3>1. /\ job'[q].template = j.template /\ job'[q].kase = j.kase /\ job'[q].about = j.about
          /\ job'[q].unsent = j.unsent \ {u}
      BY <1>2, <2>1 DEF JobBecomes, Sending
    <3>2. Told(j.template, j.kase)' = Told(j.template, j.kase) \cup {row}
      BY <1>3, RowAddedTold
    <3>3. \A m \in Told(j.template, j.kase)' : m.about = j.about => m.to \notin j.unsent \ {u}
      BY <1>5, <3>2 DEF Untold
    <3> QED
      BY <3>1, <3>3 DEF SendsNews, Untold, Told
  <2>2. CASE JobBecomes(q, [j EXCEPT !.at = "record"])
    <3>1. job'[q].at = "record"
      BY <1>2, <2>2 DEF JobBecomes, Sending
    <3> QED
      BY <3>1 DEF SendsNews
  <2>3. CASE JobBecomes(q, [at |-> "next", todo |-> j.todo, now |-> j.now])
    BY <2>3 DEF JobBecomes, SendsNews
  <2> QED
    BY <1>3, <2>1, <2>2, <2>3 DEF AfterDelivery
<1> QED
  BY <1>7, <1>8

\* The escalations: the job's own steps, then everybody else's.
LEMMA EscalatedStays ==
  ASSUME TypeInv, NEW c \in Case, EventsGrow, clock \in Nat, clock' \in Nat, clock <= clock'
  PROVE  /\ \A i : EscalatedEvent(events[c], i, clock) =>
              EscalatedEvent(events'[c], i, clock') /\ events'[c][i] = events[c][i]
         /\ \A row, k : RowWasDue(events[c], row, k, clock) => RowWasDue(events'[c], row, k, clock')
<1>1. ASSUME NEW i, EscalatedEvent(events[c], i, clock)
      PROVE  EscalatedEvent(events'[c], i, clock') /\ events'[c][i] = events[c][i]
  <2>1. i \in DOMAIN events'[c] /\ events'[c][i] = events[c][i]
    BY <1>1 DEF EscalatedEvent, EventsGrow
  <2>2. PICK e : e = events[c][i]
    OBVIOUS
  <2>3. PICK t \in 0..clock : isFocalSlaBreached(e, t) /\ e.to \in FOCAL_PENDING_STATES
    BY <1>1, <2>2 DEF EscalatedEvent
  <2>4. t \in 0..clock' /\ isFocalSlaBreached(e, t)
    BY <2>3
  <2> QED
    BY <2>1, <2>2, <2>3, <2>4 DEF EscalatedEvent
<1> QED
  BY <1>1 DEF RowWasDue

\* What a job that goes on, or gets mail to send, looks like.
LEMMA NewJobs ==
  /\ Idle.at = "idle"
  /\ \A items, d : GoingOn(items, d).at = "next" /\ GoingOn(items, d).todo = items
  /\ \A items, d, t, c, a : LET j == Deliverable(items, d, t, c, a) IN
       /\ j.at = "deliver" /\ j.todo = items /\ j.template = t /\ j.kase = c /\ j.about = a
       /\ j.unsent = resolveRecipients(t, c)
BY DEF Idle, GoingOn, Deliverable

LEMMA EscalationJobKeeps ==
  ASSUME TypeInv, EscalationInv, EscalationJob
  PROVE  EscalationInv'
<1> DEFINE T == "focal-sla-escalation"
<1>0. Focal \in Task /\ T \in Template
  BY Queues DEF Template, SweepTemplate
<1>1. UNCHANGED <<clock, events>>
  BY DEF EscalationJob, StartFocalSlaSweep, FocalSlaCheck, Deliver, Finish, Begin, noticeVars
<1>3. ASSUME UNCHANGED notifications
      PROVE  /\ \A c \in Case :
                  /\ \A k \in DOMAIN notifications'[T][c] :
                       RowWasDue(events'[c], notifications'[T][c][k], k, clock')
                  /\ \A i \in DOMAIN events'[c] : events'[c][i].seen <= Len(notifications'[T][c])
                  /\ RowsDiffer(T, c)'
  BY <1>1, <1>3 DEF EscalationInv, RowsDiffer
<1>4. CASE WorksOn(Focal) /\ UNCHANGED notifications
  <2>1. job'[Focal].at # "deliver"
    BY <1>4, NewJobs DEF WorksOn, JobBecomes
  <2> QED
    BY <1>3, <1>4, <2>1 DEF EscalationInv, SendsNews
<1>5. CASE /\ \E items, d : \E c \in Case, i \in Nat :
                /\ JobBecomes(Focal, Deliverable(items, d, T, c, i))
                /\ EscalatedEvent(events[c], i, clock)
                /\ Len(notifications[T][c]) <= events[c][i].seen
           /\ UNCHANGED notifications
  <2>0. PICK items, d : \E c \in Case, i \in Nat :
                /\ JobBecomes(Focal, Deliverable(items, d, T, c, i))
                /\ EscalatedEvent(events[c], i, clock)
                /\ Len(notifications[T][c]) <= events[c][i].seen
    BY <1>5
  <2>1. PICK c \in Case, i \in Nat :
                /\ JobBecomes(Focal, Deliverable(items, d, T, c, i))
                /\ EscalatedEvent(events[c], i, clock)
                /\ Len(notifications[T][c]) <= events[c][i].seen
    BY <2>0
  <2>2. /\ job'[Focal].template = T /\ job'[Focal].kase = c /\ job'[Focal].about = i
        /\ job'[Focal].unsent = resolveRecipients(T, c)
    <3>1. job'[Focal] = Deliverable(items, d, T, c, i)
      BY <2>1 DEF JobBecomes
    <3> QED
      BY <3>1, NewJobs
  <2>3. \A n \in Told(T, c) : n.about # i
    <3>1. events[c][i].seen \in Nat
      BY <2>1, EventsAreSequences DEF EscalatedEvent, TypeInv, CaseEvent
    <3>2. Len(notifications[T][c]) \in Nat /\ DOMAIN notifications[T][c] = 1..Len(notifications[T][c])
      BY <1>0, RowsAreSequences DEF TypeInv
    <3> QED
      BY <2>1, <3>1, <3>2 DEF Told, EscalationInv, RowWasDue
  <2>4. Told(T, c)' = Told(T, c)
    BY <1>5 DEF Told
  <2>5. SendsNews(Focal)'
    BY <2>2, <2>3, <2>4 DEF SendsNews, Untold
  <2>6. EscalatedEvent(events'[job'[Focal].kase], job'[Focal].about, clock')
    BY <1>1, <2>1, <2>2
  <2> QED
    BY <1>3, <1>5, <2>5, <2>6 DEF EscalationInv
<1>6. CASE Deliver(Focal)
  <2>1. PICK j : j = job[Focal]
    OBVIOUS
  <2>2. /\ j.at = "deliver" /\ j \in Sending(Focal)
        /\ \E u \in j.unsent : \E n \in Nat :
             /\ RowAdded(j.template, j.kase, [to |-> u, about |-> j.about], n)
             /\ AfterDelivery(Focal, j, u)
    BY <1>0, <1>6, <2>1, DeliverDoes
  <2>3. PICK u \in j.unsent, n \in Nat :
             /\ RowAdded(j.template, j.kase, [to |-> u, about |-> j.about], n)
             /\ AfterDelivery(Focal, j, u)
    BY <2>2
  <2>4. j.template = T /\ j.kase \in Case
    BY <2>2, Queues DEF Sending
  <2>5. EscalatedEvent(events[j.kase], j.about, clock)
    BY <2>1, <2>2 DEF EscalationInv
  <2>6. SendsNews(Focal)' /\ \A c \in Case : RowsDiffer(T, c)'
    BY <1>0, <1>6, <2>1, <2>4, DeliveryKeepsNews DEF EscalationInv
  <2>7. ASSUME NEW c \in Case
        PROVE  /\ \A k \in DOMAIN notifications'[T][c] :
                    RowWasDue(events'[c], notifications'[T][c][k], k, clock')
               /\ \A i \in DOMAIN events'[c] : events'[c][i].seen <= Len(notifications'[T][c])
    <3>1. CASE c # j.kase
      <4>1. notifications'[T][c] = notifications[T][c]
        BY <1>0, <2>3, <2>4, <3>1 DEF RowAdded
      <4> QED
        BY <1>1, <4>1 DEF EscalationInv
    <3>2. CASE c = j.kase
      <4>1. /\ DOMAIN notifications[T][c] = 1..n /\ DOMAIN notifications'[T][c] = 1..(n + 1)
            /\ Len(notifications[T][c]) = n /\ Len(notifications'[T][c]) = n + 1
            /\ notifications'[T][c][n + 1].about = j.about
            /\ \A i \in 1..n : notifications'[T][c][i] = notifications[T][c][i]
        BY <2>3, <2>4, <3>2 DEF RowAdded
      <4>2. \A i \in DOMAIN events[c] : events[c][i].seen \in Nat /\ events[c][i].seen <= n
        BY <4>1, EventsAreSequences DEF EscalationInv, TypeInv, CaseEvent
      <4>3. j.about \in DOMAIN events[c] /\ n + 1 > events[c][j.about].seen
        BY <2>5, <3>2, <4>2 DEF EscalatedEvent
      <4>4. ASSUME NEW k \in 1..(n + 1)
            PROVE  RowWasDue(events'[c], notifications'[T][c][k], k, clock')
        <5>1. CASE k = n + 1
          BY <1>1, <2>5, <3>2, <4>1, <4>3, <5>1 DEF RowWasDue
        <5>2. CASE k \in 1..n
          BY <1>1, <4>1, <5>2 DEF EscalationInv
        <5> QED
          BY <5>1, <5>2
      <4> QED
        BY <1>1, <4>1, <4>2, <4>4
    <3> QED
      BY <3>1, <3>2
  <2>8. job'[Focal].at = "deliver" =>
          EscalatedEvent(events'[job'[Focal].kase], job'[Focal].about, clock')
    <3>1. CASE JobBecomes(Focal, [j EXCEPT !.unsent = j.unsent \ {u}])
      <4>1. job'[Focal].kase = j.kase /\ job'[Focal].about = j.about
        BY <2>2, <3>1 DEF JobBecomes, Sending
      <4> QED
        BY <1>1, <2>4, <2>5, <4>1
    <3>2. CASE JobBecomes(Focal, [j EXCEPT !.at = "record"])
      BY <2>2, <3>2 DEF JobBecomes, Sending
    <3>3. CASE JobBecomes(Focal, [at |-> "next", todo |-> j.todo, now |-> j.now])
      BY <3>3 DEF JobBecomes
    <3> QED
      BY <2>3, <3>1, <3>2, <3>3 DEF AfterDelivery
  <2> QED
    BY <2>6, <2>7, <2>8 DEF EscalationInv
<1> QED
  BY <1>4, <1>5, <1>6, EscalationJobDoes

LEMMA EscalationKept ==
  ASSUME TypeInv, EscalationInv, [BackgroundNext]_backgroundVars, Rests(Focal)
  PROVE  EscalationInv'
<1> DEFINE T == "focal-sla-escalation"
<1>1. clock \in Nat /\ clock' \in Nat /\ clock <= clock' /\ EventsGrow
  BY StepGrows
<1>2. \A c \in Case :
        /\ \A i : EscalatedEvent(events[c], i, clock) => EscalatedEvent(events'[c], i, clock')
        /\ \A row, k : RowWasDue(events[c], row, k, clock) => RowWasDue(events'[c], row, k, clock')
  BY <1>1, EscalatedStays
<1>3. \A c \in Case : notifications'[T][c] = notifications[T][c]
  BY Queues DEF Rests
<1>4. \A c \in Case : Told(T, c)' = Told(T, c)
  BY <1>3 DEF Told
<1>5. ASSUME NEW c \in Case
      PROVE  /\ \A k \in DOMAIN notifications'[T][c] :
                  RowWasDue(events'[c], notifications'[T][c][k], k, clock')
             /\ \A i \in DOMAIN events'[c] : events'[c][i].seen <= Len(notifications'[T][c])
             /\ RowsDiffer(T, c)'
  <2>1. \A k \in DOMAIN notifications'[T][c] :
          RowWasDue(events'[c], notifications'[T][c][k], k, clock')
    BY <1>2, <1>3 DEF EscalationInv
  <2>2. ASSUME NEW i \in DOMAIN events'[c] PROVE events'[c][i].seen <= Len(notifications'[T][c])
    <3>1. CASE i \in DOMAIN events[c]
      BY <1>1, <1>3, <3>1 DEF EscalationInv, EventsGrow
    <3>2. CASE i \notin DOMAIN events[c]
      <4>1. Len(notifications[T][c]) \in Nat
        BY RowsAreSequences DEF TypeInv, Template, SweepTemplate
      <4> QED
        BY <1>1, <1>3, <3>2, <4>1 DEF EventsGrow
    <3> QED
      BY <3>1, <3>2
  <2>3. RowsDiffer(T, c)'
    BY <1>3 DEF EscalationInv, RowsDiffer
  <2> QED
    BY <2>1, <2>2, <2>3
<1>6. CASE job'[Focal] = Idle
  BY <1>5, <1>6 DEF EscalationInv, SendsNews, Idle
<1>7. CASE job'[Focal] = job[Focal] /\ job[Focal].at # "deliver"
  BY <1>5, <1>7 DEF EscalationInv, SendsNews
<1>8. CASE job'[Focal] = job[Focal] /\ job[Focal].at = "deliver"
  <2>1. PICK j : j = job[Focal]
    OBVIOUS
  <2>2. j \in Sending(Focal)
    BY <1>8, <2>1, Queues, JobShapes DEF TypeInv, JobsOK
  <2>3. j.template = T /\ j.kase \in Case
    BY <2>2, Queues DEF Sending
  <2>4. EscalatedEvent(events'[j.kase], j.about, clock')
    BY <1>2, <1>8, <2>1, <2>3 DEF EscalationInv
  <2>5. SendsNews(Focal)'
    BY <1>4, <1>8, <2>1, <2>3 DEF EscalationInv, SendsNews, Untold
  <2> QED
    BY <1>5, <1>8, <2>1, <2>4, <2>5 DEF EscalationInv
<1> QED
  BY <1>6, <1>7, <1>8 DEF Rests

\* The missed deadlines.
LEMMA DeadlineJobKeeps ==
  ASSUME TypeInv, DeadlineInv, DeadlineJob
  PROVE  DeadlineInv'
<1> DEFINE T == "deadline-missed"
<1>0. Deadline \in Task
  BY Queues
<1>1. CASE WorksOn(Deadline) /\ UNCHANGED notifications
  <2>1. job'[Deadline].at # "deliver"
    BY <1>1, NewJobs DEF WorksOn, JobBecomes
  <2> QED
    BY <1>1, <2>1 DEF DeadlineInv, SendsNews, RowsDiffer
<1>2. CASE /\ \E items, d : \E c \in Case, a \in Nat :
                /\ JobBecomes(Deadline, Deliverable(items, d, T, c, a))
                /\ Told(T, c) = {}
           /\ UNCHANGED notifications
  <2>0. PICK items, d : \E c \in Case, a \in Nat :
          JobBecomes(Deadline, Deliverable(items, d, T, c, a)) /\ Told(T, c) = {}
    BY <1>2
  <2>1. PICK c \in Case, a \in Nat :
          JobBecomes(Deadline, Deliverable(items, d, T, c, a)) /\ Told(T, c) = {}
    BY <2>0
  <2>2. job'[Deadline] = Deliverable(items, d, T, c, a)
    BY <2>1 DEF JobBecomes
  <2>3. job'[Deadline].template = T /\ job'[Deadline].kase = c
    BY <2>2, NewJobs
  <2>4. Told(T, c)' = {}
    BY <1>2, <2>1 DEF Told
  <2>5. SendsNews(Deadline)'
    BY <2>3, <2>4 DEF SendsNews, Untold
  <2> QED
    BY <1>2, <2>5 DEF DeadlineInv, RowsDiffer
<1>3. CASE Deliver(Deadline)
  <2>1. job[Deadline].template = T
    BY <1>0, <1>3, DeliverDoes, Queues DEF Sending
  <2> QED
    BY <1>0, <1>3, <2>1, DeliveryKeepsNews DEF DeadlineInv
<1> QED
  BY <1>1, <1>2, <1>3, DeadlineJobDoes

\* What is being sent stays news while its job rests.
LEMMA NewsStaysNews ==
  ASSUME TypeInv, NEW q \in QueueName, Rests(q), SendsNews(q)
  PROVE  SendsNews(q)'
<1>1. CASE job'[q] = Idle
  BY <1>1, NewJobs DEF SendsNews
<1>2. CASE job'[q] = job[q] /\ job[q].at # "deliver"
  BY <1>2 DEF SendsNews
<1>3. CASE job'[q] = job[q] /\ job[q].at = "deliver"
  <2>1. PICK j : j = job[q]
    OBVIOUS
  <2>2. j \in Sending(q)
    BY <1>3, <2>1, Queues, JobShapes DEF TypeInv, JobsOK
  <2>3. notifications'[j.template][j.kase] = notifications[j.template][j.kase]
    BY <2>2 DEF Sending, Rests
  <2>4. Told(j.template, j.kase)' = Told(j.template, j.kase)
    BY <2>3 DEF Told
  <2> QED
    BY <1>3, <2>1, <2>4 DEF SendsNews, Untold
<1> QED
  BY <1>1, <1>2, <1>3 DEF Rests

LEMMA DeadlineKept ==
  ASSUME TypeInv, DeadlineInv, Rests(Deadline)
  PROVE  DeadlineInv'
<1>1. \A c \in Case : notifications'["deadline-missed"][c] = notifications["deadline-missed"][c]
  BY Queues DEF Rests
<1>2. \A c \in Case : RowsDiffer("deadline-missed", c)'
  BY <1>1 DEF DeadlineInv, RowsDiffer
<1>3. SendsNews(Deadline)'
  BY Queues, NewsStaysNews DEF DeadlineInv
<1> QED
  BY <1>2, <1>3 DEF DeadlineInv

\* The reminders.  Notices are not taken back, and a token that is not counted
\* or new stays as the sweep listed it.
SameToken(k) ==
  /\ k \in DOMAIN tokens'
  /\ tokens'[k].kase = tokens[k].kase /\ tokens'[k].time = tokens[k].time
  /\ tokens'[k].reminders = tokens[k].reminders /\ tokens'[k].seen = tokens[k].seen

TokensGrow ==
  /\ \A k \in DOMAIN tokens : SameToken(k)
  /\ \A k \in DOMAIN tokens' \ DOMAIN tokens :
       /\ tokens'[k].time = clock /\ tokens'[k].reminders = 0 /\ tokens'[k].kase \in Case
       /\ tokens'[k].seen = Len(notifications["supervisor-unresponsive"][tokens'[k].kase])

NoticesGrow ==
  /\ \A t \in TemplatesOf(Reminder), c \in Case :
       /\ About(t, c) \subseteq About(t, c)'
       /\ Len(notifications[t][c]) \in Nat /\ Len(notifications'[t][c]) \in Nat
       /\ Len(notifications[t][c]) <= Len(notifications'[t][c])
  /\ clock \in Nat /\ clock' \in Nat /\ clock <= clock'

LEMMA TokenFields ==
  ASSUME TypeInv, NEW k \in DOMAIN tokens
  PROVE  /\ tokens[k] \in Token /\ tokens[k].kase \in Case /\ tokens[k].time \in Nat
         /\ tokens[k].reminders \in Nat /\ tokens[k].seen \in Nat
<1>1. tokens[k] \in Token
  BY TokensAreASequence DEF TypeInv
<1> QED
  BY <1>1, NotificationsOK DEF Token

LEMMA TallyStays ==
  ASSUME TypeInv, NEW k \in DOMAIN tokens, TokenCounted(k), SameToken(k), NoticesGrow
  PROVE  TokenCounted(k)'
<1>1. PICK c : c = tokens[k].kase
  OBVIOUS
<1>2. c \in Case /\ tokens[k].time \in Nat /\ tokens[k].seen \in Nat
  BY <1>1, TokenFields
<1>3. /\ About("supervisor-first-reminder", c) \subseteq About("supervisor-first-reminder", c)'
      /\ About("supervisor-second-reminder", c) \subseteq About("supervisor-second-reminder", c)'
      /\ Len(notifications["supervisor-unresponsive"][c]) \in Nat
      /\ Len(notifications'["supervisor-unresponsive"][c]) \in Nat
      /\ Len(notifications["supervisor-unresponsive"][c])
           <= Len(notifications'["supervisor-unresponsive"][c])
      /\ clock \in Nat /\ clock' \in Nat /\ clock <= clock'
  BY <1>2, Queues DEF NoticesGrow
<1>4. /\ tokens[k].time <= clock /\ tokens[k].reminders <= 2
      /\ tokens[k].reminders >= 1 => k \in About("supervisor-first-reminder", c)
      /\ tokens[k].reminders >= 2 => k \in About("supervisor-second-reminder", c)
      /\ tokens[k].seen <= Len(notifications["supervisor-unresponsive"][c])
  BY <1>1 DEF TokenCounted
<1>5. /\ tokens'[k].kase = c /\ tokens'[k].time = tokens[k].time
      /\ tokens'[k].reminders = tokens[k].reminders /\ tokens'[k].seen = tokens[k].seen
  BY <1>1 DEF SameToken
<1>6. /\ tokens'[k].time <= clock' /\ tokens'[k].reminders <= 2
      /\ tokens'[k].seen <= Len(notifications'["supervisor-unresponsive"][c])
  BY <1>2, <1>3, <1>4, <1>5
<1>7. /\ tokens'[k].reminders >= 1 => k \in About("supervisor-first-reminder", c)'
      /\ tokens'[k].reminders >= 2 => k \in About("supervisor-second-reminder", c)'
  BY <1>3, <1>4, <1>5
<1>8. TokenCounted(k)' <=>
      /\ tokens'[k].time <= clock'
      /\ tokens'[k].reminders <= 2
      /\ tokens'[k].reminders >= 1 => k \in About("supervisor-first-reminder", c)'
      /\ tokens'[k].reminders >= 2 => k \in About("supervisor-second-reminder", c)'
      /\ tokens'[k].seen <= Len(notifications'["supervisor-unresponsive"][c])
  BY <1>5 DEF TokenCounted, About, Told
<1> QED
  BY <1>6, <1>7, <1>8

LEMMA DueStays ==
  ASSUME TypeInv, NEW k \in DOMAIN tokens, SameToken(k), ReportDue(k),
         clock \in Nat, clock' \in Nat, clock <= clock'
  PROVE  ReportDue(k)'
<1>1. tokens[k].time \in Nat
  BY TokenFields
<1> QED
  BY <1>1, LastReminderAge DEF ReportDue, SameToken

LEMMA ReportStays ==
  ASSUME TypeInv, NEW c, NEW k, NEW i, SameToken(k), ReportOK(c, k, i),
         clock \in Nat, clock' \in Nat, clock <= clock'
  PROVE  ReportOK(c, k, i)'
BY DueStays DEF ReportOK, SameToken

\* While no row is added to them, all notices and reports are as they were.
LEMMA NoticesStand ==
  ASSUME TypeInv, \A t \in TemplatesOf(Reminder), c \in Case :
                    notifications'[t][c] = notifications[t][c],
         clock \in Nat, clock' \in Nat, clock <= clock'
  PROVE  /\ NoticesGrow
         /\ \A t \in TemplatesOf(Reminder), c \in Case : Told(t, c)' = Told(t, c)
         /\ ReportsOK /\ (\A k \in DOMAIN tokens : tokens[k].reminders = 2 => SameToken(k))
              => ReportsOK'
<1> DEFINE T == "supervisor-unresponsive"
<1>1. \A t \in TemplatesOf(Reminder), c \in Case : Told(t, c)' = Told(t, c)
  BY DEF Told
<1>2. \A t \in TemplatesOf(Reminder), c \in Case : About(t, c)' = About(t, c)
  BY <1>1 DEF About
<1>3. \A t \in TemplatesOf(Reminder), c \in Case :
        /\ notifications'[t][c] = notifications[t][c]
        /\ Len(notifications[t][c]) \in Nat
  BY Queues, RowsAreSequences DEF TypeInv, Template, SweepTemplate
<1>4. NoticesGrow
  BY <1>2, <1>3 DEF NoticesGrow
<1>5. ASSUME ReportsOK, \A k \in DOMAIN tokens : tokens[k].reminders = 2 => SameToken(k)
      PROVE  ReportsOK'
  <2>1. \A c \in Case : notifications'[T][c] = notifications[T][c]
    BY Queues
  <2>2. ASSUME NEW c \in Case, NEW i \in DOMAIN notifications[T][c], NEW k,
               k = notifications[T][c][i].about
        PROVE  ReportOK(c, k, i)'
    <3>1. ReportOK(c, k, i)
      BY <1>5, <2>2 DEF ReportsOK
    <3>2. SameToken(k)
      BY <1>5, <3>1 DEF ReportOK, ReportDue
    <3> QED
      BY <3>1, <3>2, ReportStays
  <2>3. \A c \in Case : RowsDiffer(T, c)'
    BY <1>5, <2>1 DEF ReportsOK, RowsDiffer
  <2>4. ASSUME NEW c \in Case, NEW i \in DOMAIN notifications'[T][c]
        PROVE  ReportOK(c, notifications[T][c][i].about, i)'
    BY <2>1, <2>2
  <2> QED
    BY <2>3, <2>4 DEF ReportsOK
<1> QED
  BY <1>1, <1>4, <1>5

\* A token's turn goes on while nothing happens to the token.
TurnKept(j, n) ==
  /\ n.about = j.about /\ n.kase = j.kase /\ n.todo = j.todo /\ n.template = j.template

LEMMA TurnStays ==
  ASSUME TypeInv, NEW j, TokenTurn(j), NEW n, TurnKept(j, n), SameToken(j.about),
         clock \in Nat, clock' \in Nat, clock <= clock',
         j.template = "supervisor-unresponsive" => n.at = "deliver",
         n.at = "record" => j.about \in About(j.template, j.kase)'
  PROVE  TokenTurn(n)'
<1>1. PICK k, c, t : k = j.about /\ c = j.kase /\ t = j.template
  OBVIOUS
<1>2. k \in DOMAIN tokens /\ tokens[k].kase = c /\ k \in DOMAIN tokens'
      /\ tokens'[k].kase = c /\ tokens'[k].reminders = tokens[k].reminders
  BY <1>1 DEF TokenTurn, SameToken
<1>3. t = "supervisor-unresponsive" => ReportDue(k)'
  BY <1>1, <1>2, DueStays DEF TokenTurn
<1>4. n.about = k /\ n.kase = c /\ n.template = t /\ n.todo = j.todo
  BY <1>1 DEF TurnKept
<1>5. /\ \A item \in n.todo : item[1] # k
      /\ t = "supervisor-first-reminder" => tokens'[k].reminders = 0
      /\ t = "supervisor-second-reminder" => tokens'[k].reminders = 1
      /\ t = "supervisor-unresponsive" => ReportDue(k)' /\ n.at = "deliver"
      /\ n.at = "record" => k \in About(t, c)'
  BY <1>1, <1>2, <1>3, <1>4 DEF TokenTurn
<1>6. TokenTurn(n)' <=>
      /\ k \in DOMAIN tokens' /\ c = tokens'[k].kase
      /\ \A item \in n.todo : item[1] # k
      /\ t = "supervisor-first-reminder" => tokens'[k].reminders = 0
      /\ t = "supervisor-second-reminder" => tokens'[k].reminders = 1
      /\ t = "supervisor-unresponsive" => ReportDue(k)' /\ n.at = "deliver"
      /\ n.at = "record" => k \in About(t, c)'
  BY <1>4 DEF TokenTurn, ReportDue, About, Told
<1> QED
  BY <1>2, <1>5, <1>6

LEMMA TokensStay ==
  ASSUME TypeInv, [BackgroundNext]_backgroundVars, ~ReminderJob, TypeInv'
  PROVE  TokensGrow
<1>1. CASE UNCHANGED tokens
  BY <1>1 DEF TokensGrow, SameToken
<1>2. CASE TokensChange
  <2>1. \A k \in DOMAIN tokens' : tokens'[k].kase \in Case
    <3>1. tokens' \in Seq(Token)
      BY DEF TypeInv
    <3>2. \A k \in DOMAIN tokens' : tokens'[k] \in Token
      BY <3>1, LenProperties, ElementOfSeq
    <3> QED
      BY <3>2 DEF Token
  <2> QED
    BY <1>2, <2>1, TokensChangeDoes DEF TokensGrow, SameToken
<1>3. CASE CasesMove
  BY <1>1, <1>3, CasesMoveDoes
<1>4. CASE PostSemester \/ PostClose \/ PostDeadline \/ AdminRequests
  BY <1>1, <1>4 DEF PostSemester, PostClose, PostDeadline, AdminRequests
<1>5. CASE \E w \in WebTask : AdminStep(w)
  BY <1>1, <1>5 DEF AdminStep
<1>6. CASE EscalationJob \/ DeadlineJob \/ EnrollmentJob \/ MailJob
  BY <1>1, <1>6 DEF EscalationJob, DeadlineJob, EnrollmentJob, MailJob
<1>7. CASE clock < bounds.until /\ Tick /\ UNCHANGED <<vars, noticeVars, tokens, semesters>>
  BY <1>1, <1>7
<1>8. CASE WorkerDiesAndRestarts /\ UNCHANGED <<vars, tokens, semesters>>
  BY <1>1, <1>8
<1>9. CASE UNCHANGED backgroundVars
  BY <1>1, <1>9 DEF backgroundVars
<1> QED
  BY <1>2, <1>3, <1>4, <1>5, <1>6, <1>7, <1>8, <1>9 DEF BackgroundNext

LEMMA ReminderKept ==
  ASSUME TypeInv, ReminderInv, Rests(Reminder), TokensGrow,
         clock \in Nat, clock' \in Nat, clock <= clock'
  PROVE  ReminderInv'
<1>1. \A t \in TemplatesOf(Reminder), c \in Case : notifications'[t][c] = notifications[t][c]
  BY DEF Rests
<1>2. /\ NoticesGrow
      /\ \A t \in TemplatesOf(Reminder), c \in Case : Told(t, c)' = Told(t, c)
      /\ ReportsOK'
  BY <1>1, NoticesStand DEF ReminderInv, TokensGrow
<1>3. ASSUME NEW k \in DOMAIN tokens' PROVE TokenCounted(k)'
  <2>1. CASE k \in DOMAIN tokens
    BY <1>2, <2>1, TallyStays DEF ReminderInv, TokensGrow
  <2>2. CASE k \notin DOMAIN tokens
    <3>1. PICK c \in Case : c = tokens'[k].kase
      BY <2>2 DEF TokensGrow
    <3>2. /\ tokens'[k].time = clock /\ tokens'[k].reminders = 0
          /\ tokens'[k].seen = Len(notifications["supervisor-unresponsive"][c])
      BY <2>2, <3>1 DEF TokensGrow
    <3>3. Len(notifications["supervisor-unresponsive"][c]) \in Nat
          /\ notifications'["supervisor-unresponsive"][c] = notifications["supervisor-unresponsive"][c]
      BY <1>1, <1>2, Queues DEF NoticesGrow
    <3> QED
      BY <3>1, <3>2, <3>3 DEF TokenCounted
  <2> QED
    BY <2>1, <2>2
<1>4. SendsNews(Reminder) => SendsNews(Reminder)'
  BY NewsStaysNews, Queues
<1>5. CASE job'[Reminder] = Idle
  <2>1. job'[Reminder].at = "idle"
    BY <1>5, NewJobs
  <2> QED
    BY <1>2, <1>3, <2>1 DEF ReminderInv, ListOK
<1>6. CASE job'[Reminder] = job[Reminder]
  <2>1. PICK j : j = job[Reminder] /\ j = job'[Reminder]
    BY <1>6
  <2>2. \A item : TokenListed(item) => TokenListed(item)'
    BY DEF TokenListed, TokensGrow, SameToken
  <2>3. ListOK(job[Reminder])'
    BY <2>1, <2>2 DEF ReminderInv, ListOK
  <2>4. ASSUME j.at \in {"deliver", "record"} PROVE TokenTurn(j)'
    <3>1. j \in Sending(Reminder)
      BY <2>1, <2>4, Queues, JobShapes DEF TypeInv, JobsOK
    <3>2. j.template \in TemplatesOf(Reminder) /\ j.kase \in Case
      BY <3>1 DEF Sending
    <3>3. TokenTurn(j)
      BY <2>1, <2>4 DEF ReminderInv
    <3>4. SameToken(j.about)
      BY <3>3 DEF TokenTurn, TokensGrow
    <3>5. j.at = "record" => j.about \in About(j.template, j.kase)'
      BY <1>2, <3>2, <3>3 DEF NoticesGrow, TokenTurn
    <3>6. j.template = "supervisor-unresponsive" => j.at = "deliver"
      BY <3>3 DEF TokenTurn
    <3> QED
      BY <3>3, <3>4, <3>5, <3>6, TurnStays DEF TurnKept
  <2>5. job'[Reminder].at \in {"deliver", "record"} => TokenTurn(job[Reminder])'
    BY <2>1, <2>4 DEF TokenTurn
  <2> QED
    BY <1>2, <1>3, <1>4, <2>1, <2>3, <2>5 DEF ReminderInv
<1> QED
  BY <1>5, <1>6 DEF Rests

\* The list is read, or is through.
LEMMA ReminderListKeeps ==
  ASSUME TypeInv, ReminderInv, UNCHANGED <<clock, notifications, tokens>>,
         JobBecomes(Reminder, Idle) \/ JobBecomes(Reminder, GoingOn(LiveTokens, clock))
  PROVE  ReminderInv'
<1>1. /\ clock \in Nat /\ \A k \in DOMAIN tokens : SameToken(k)
  BY NotificationsOK DEF TypeInv, SameToken
<1>2. NoticesGrow /\ ReportsOK'
  BY <1>1, NoticesStand DEF ReminderInv
<1>3. \A k \in DOMAIN tokens' : TokenCounted(k)'
  BY <1>1, <1>2, TallyStays DEF ReminderInv
<1>4. PICK n : n = job'[Reminder]
  OBVIOUS
<1>5. n.at \in {"idle", "next"} /\ (n.at = "next" => n.todo = LiveTokens)
  BY <1>4, NewJobs DEF JobBecomes
<1>6. /\ \A item \in LiveTokens : TokenListed(item)'
      /\ \A x, y \in LiveTokens : x[1] = y[1] => x = y
  BY DEF LiveTokens, TokenListed
<1>7. ListOK(job[Reminder])'
  BY <1>4, <1>5, <1>6 DEF ListOK
<1> QED
  BY <1>2, <1>3, <1>4, <1>5, <1>7 DEF ReminderInv

\* One token is looked at.
LEMMA ReminderCheckKeeps ==
  ASSUME TypeInv, ReminderInv, UNCHANGED <<clock, notifications, tokens>>,
         ReminderCheck(Reminder), job[Reminder].at = "next"
  PROVE  ReminderInv'
<1> DEFINE T == "supervisor-unresponsive"
<1>1. /\ clock \in Nat /\ \A k \in DOMAIN tokens : SameToken(k)
  BY NotificationsOK DEF TypeInv, SameToken
<1>2. NoticesGrow /\ ReportsOK'
  BY <1>1, NoticesStand DEF ReminderInv
<1>3. \A k \in DOMAIN tokens' : TokenCounted(k)'
  BY <1>1, <1>2, TallyStays DEF ReminderInv
<1>4. /\ \A item \in job[Reminder].todo : TokenListed(item)
      /\ \A x, y \in job[Reminder].todo : x[1] = y[1] => x = y
  BY DEF ReminderInv, ListOK
<1>5. PICK item \in job[Reminder].todo, d \in Nat :
        /\ d <= clock
        /\ \/ JobBecomes(Reminder, GoingOn(job[Reminder].todo \ {item}, d))
           \/ \E t \in TemplatesOf(Reminder) :
                /\ JobBecomes(Reminder, Deliverable(job[Reminder].todo \ {item}, d, t,
                                                    tokens[item[1]].kase, item[1]))
                /\ MailDue(item[1], t, d)
  BY <1>4, ReminderCheckDoes
<1>6. PICK left, k : left = job[Reminder].todo \ {item} /\ k = item[1]
  OBVIOUS
<1>7. PICK n : n = job'[Reminder]
  OBVIOUS
<1>8. /\ \A x \in left : TokenListed(x)'
      /\ \A x, y \in left : x[1] = y[1] => x = y
      /\ \A x \in left : x[1] # k
  BY <1>4, <1>6 DEF TokenListed
<1>9. CASE JobBecomes(Reminder, GoingOn(left, d))
  <2>1. n.at = "next" /\ n.todo = left
    BY <1>7, <1>9, NewJobs DEF JobBecomes
  <2>2. ListOK(job[Reminder])'
    BY <1>7, <1>8, <2>1 DEF ListOK
  <2> QED
    BY <1>2, <1>3, <1>7, <2>1, <2>2 DEF ReminderInv
<1>10. CASE \E t \in TemplatesOf(Reminder) :
              /\ JobBecomes(Reminder, Deliverable(left, d, t, tokens[k].kase, k))
              /\ MailDue(k, t, d)
  <2>1. PICK t \in TemplatesOf(Reminder) :
              /\ JobBecomes(Reminder, Deliverable(left, d, t, tokens[k].kase, k))
              /\ MailDue(k, t, d)
    BY <1>10
  <2>2. k \in DOMAIN tokens
    BY <1>4, <1>6 DEF TokenListed
  <2>3. PICK c \in Case : c = tokens[k].kase
    BY <2>2, TokenFields
  <2>4. n = Deliverable(left, d, t, c, k)
    BY <1>7, <2>1, <2>3 DEF JobBecomes
  <2>5. n.at = "deliver" /\ n.todo = left /\ n.template = t /\ n.kase = c /\ n.about = k
    BY <2>4, NewJobs
  <2>6. ListOK(job[Reminder])'
    BY <1>7, <1>8, <2>5 DEF ListOK
  <2>7. tokens[k].reminders \in Nat /\ tokens[k].reminders <= 2 /\ tokens[k].time \in Nat
        /\ tokens[k].seen \in Nat
    BY <2>2, TokenFields DEF ReminderInv, TokenCounted
  <2>8. t = T => ReportDue(k)
    BY <1>1, <1>5, <2>1, <2>7, LastReminderAge DEF MailDue, ReportDue
  <2>9. /\ t = "supervisor-first-reminder" => tokens[k].reminders = 0
        /\ t = "supervisor-second-reminder" => tokens[k].reminders = 1
    BY <2>1 DEF MailDue
  <2>10. TokenTurn(n)
    BY <1>8, <2>2, <2>3, <2>5, <2>8, <2>9 DEF TokenTurn
  <2>11. TokenTurn(n)'
    BY <1>1, <2>2, <2>5, <2>10, TurnStays DEF TurnKept
  <2>12. TokenTurn(job[Reminder])'
    BY <1>7, <2>11 DEF TokenTurn
  <2>13. ASSUME t = T PROVE SendsNews(Reminder)'
    <3>1. Len(notifications[T][c]) <= tokens[k].seen
      BY <2>1, <2>3, <2>13 DEF MailDue
    <3>2. /\ Len(notifications[T][c]) \in Nat
          /\ DOMAIN notifications[T][c] = 1..Len(notifications[T][c])
      BY RowsAreSequences DEF TypeInv, Template, SweepTemplate
    <3>3. ASSUME NEW i \in DOMAIN notifications[T][c]
          PROVE  notifications[T][c][i].about # k
      <4>1. ReportOK(c, notifications[T][c][i].about, i)
        BY DEF ReminderInv, ReportsOK
      <4>2. ~ (i > tokens[k].seen)
        BY <2>7, <3>1, <3>2
      <4> QED
        BY <4>1, <4>2 DEF ReportOK
    <3>4. \A m \in Told(T, c)' : m.about # k
      BY <3>3 DEF Told
    <3> QED
      BY <1>7, <2>5, <2>13, <3>4 DEF SendsNews, Untold, Told
  <2> QED
    BY <1>2, <1>3, <1>7, <2>5, <2>6, <2>12, <2>13 DEF ReminderInv
<1> QED
  BY <1>5, <1>6, <1>9, <1>10

\* The reminder is counted.
LEMMA RecordReminderKeeps ==
  ASSUME TypeInv, ReminderInv, RecordReminder(Reminder), UNCHANGED notifications
  PROVE  ReminderInv'
<1> DEFINE T == "supervisor-unresponsive"
<1>0. UNCHANGED clock /\ clock \in Nat
  BY NotificationsOK DEF RecordReminder, TypeInv
<1>1. job[Reminder].at = "record"
  BY DEF RecordReminder, At
<1>2. PICK j, k, c : j = job[Reminder] /\ k = j.about /\ c = j.kase
  OBVIOUS
<1>3. /\ k \in DOMAIN tokens /\ tokens[k].kase = c /\ c \in Case
      /\ \A item \in j.todo : item[1] # k
      /\ j.template = "supervisor-first-reminder" => tokens[k].reminders = 0
      /\ j.template = "supervisor-second-reminder" => tokens[k].reminders = 1
      /\ j.template # T /\ k \in About(j.template, c)
  BY <1>1, <1>2, TokenFields DEF ReminderInv, TokenTurn
<1>4. /\ j \in Sending(Reminder)
      /\ JobBecomes(Reminder, GoingOn(j.todo, j.now))
      /\ DOMAIN tokens' = DOMAIN tokens
      /\ tokens'[k] = Counted(tokens[k], Len(notifications[T][c]))
      /\ \A i \in DOMAIN tokens \ {k} : tokens'[i] = tokens[i]
  BY <1>2, <1>3, RecordReminderDoes
<1>5. j.template \in {"supervisor-first-reminder", "supervisor-second-reminder"}
  BY <1>3, <1>4, Queues DEF Sending
<1>6. Len(notifications[T][c]) \in Nat
  BY <1>3, RowsAreSequences DEF TypeInv, Template, SweepTemplate
<1>7. /\ tokens'[k].reminders = tokens[k].reminders + 1 /\ tokens'[k].kase = c
      /\ tokens'[k].seen = Len(notifications[T][c]) /\ tokens'[k].time = tokens[k].time
  <2>1. PICK r, m : r = tokens[k] /\ m = Len(notifications[T][c])
    OBVIOUS
  <2>2. r \in Token /\ m \in Nat /\ r.kase = c
    BY <1>3, <1>6, <2>1, TokenFields
  <2>3. tokens'[k] = Counted(r, m)
    BY <1>4, <2>1
  <2>4. PICK x : x = Counted(r, m)
    OBVIOUS
  <2>5. x.reminders = r.reminders + 1 /\ x.seen = m /\ x.kase = r.kase /\ x.time = r.time
    BY <2>2, <2>4, CountedIsToken
  <2>6. tokens'[k] = x
    BY <2>3, <2>4
  <2> QED
    BY <2>1, <2>2, <2>5, <2>6
<1>8. \A i \in DOMAIN tokens \ {k} : SameToken(i)
  BY <1>4 DEF SameToken
<1>9. tokens[k].reminders # 2
  BY <1>3, <1>5
<1>10. NoticesGrow /\ ReportsOK'
  BY <1>0, <1>8, <1>9, NoticesStand DEF ReminderInv
<1>11. ASSUME NEW i \in DOMAIN tokens' PROVE TokenCounted(i)'
  <2>1. CASE i # k
    BY <1>4, <1>8, <1>10, <2>1, TallyStays DEF ReminderInv
  <2>2. CASE i = k
    <3>1. /\ tokens[k].time <= clock
          /\ tokens[k].reminders >= 1 => k \in About("supervisor-first-reminder", c)
      BY <1>3 DEF ReminderInv, TokenCounted
    <3>2. /\ tokens'[k].time <= clock /\ tokens'[k].reminders <= 2
          /\ k \in About("supervisor-first-reminder", c)
          /\ tokens'[k].reminders >= 2 => k \in About("supervisor-second-reminder", c)
      BY <1>3, <1>5, <1>7, <3>1
    <3>3. /\ About("supervisor-first-reminder", c)' = About("supervisor-first-reminder", c)
          /\ About("supervisor-second-reminder", c)' = About("supervisor-second-reminder", c)
      BY DEF About, Told
    <3>4. TokenCounted(k)' <=>
            /\ tokens'[k].time <= clock' /\ tokens'[k].reminders <= 2
            /\ tokens'[k].reminders >= 1 => k \in About("supervisor-first-reminder", c)'
            /\ tokens'[k].reminders >= 2 => k \in About("supervisor-second-reminder", c)'
            /\ tokens'[k].seen <= Len(notifications'[T][c])
      BY <1>7 DEF TokenCounted, About, Told
    <3> QED
      BY <1>0, <1>6, <1>7, <2>2, <3>2, <3>3, <3>4
  <2> QED
    BY <2>1, <2>2
<1>12. PICK n : n = job'[Reminder]
  OBVIOUS
<1>13. n.at = "next" /\ n.todo = j.todo
  BY <1>4, <1>12, NewJobs DEF JobBecomes
<1>14. ListOK(job[Reminder])'
  <2>1. /\ \A item \in j.todo : TokenListed(item)
        /\ \A x, y \in j.todo : x[1] = y[1] => x = y
    BY <1>1, <1>2 DEF ReminderInv, ListOK
  <2>2. \A item \in j.todo : TokenListed(item)'
    BY <1>3, <1>4, <2>1 DEF TokenListed
  <2> QED
    BY <1>12, <1>13, <2>1, <2>2 DEF ListOK
<1> QED
  BY <1>10, <1>11, <1>12, <1>13, <1>14 DEF ReminderInv

\* A notice of this job goes out.
LEMMA ReminderDeliveryKeeps ==
  ASSUME TypeInv, ReminderInv, Deliver(Reminder), UNCHANGED tokens
  PROVE  ReminderInv'
<1> DEFINE T == "supervisor-unresponsive"
<1>0. Reminder \in Task /\ T \in TemplatesOf(Reminder) /\ TemplatesOf(Reminder) \subseteq Template
  BY Queues, TemplatesAreApart
<1>1. /\ UNCHANGED clock /\ clock \in Nat /\ \A k \in DOMAIN tokens : SameToken(k)
  BY NotificationsOK DEF Deliver, TypeInv, SameToken
<1>2. PICK j : j = job[Reminder]
  OBVIOUS
<1>3. /\ j.at = "deliver" /\ j \in Sending(Reminder)
      /\ \E u \in j.unsent : \E n \in Nat :
           /\ RowAdded(j.template, j.kase, [to |-> u, about |-> j.about], n)
           /\ AfterDelivery(Reminder, j, u)
  BY <1>0, <1>2, DeliverDoes
<1>4. PICK u \in j.unsent, n \in Nat :
           /\ RowAdded(j.template, j.kase, [to |-> u, about |-> j.about], n)
           /\ AfterDelivery(Reminder, j, u)
  BY <1>3
<1>5. PICK s, a, k : s = j.template /\ a = j.kase /\ k = j.about
  OBVIOUS
<1>6. s \in TemplatesOf(Reminder) /\ s \in Template /\ a \in Case
  BY <1>0, <1>3, <1>5 DEF Sending
<1> DEFINE row == [to |-> u, about |-> k]
<1>7. RowAdded(s, a, row, n)
  BY <1>4, <1>5
<1>8. TokenTurn(j)
  BY <1>2, <1>3 DEF ReminderInv
<1>9. k \in DOMAIN tokens /\ tokens[k].kase = a /\ (s = T => ReportDue(k))
  BY <1>5, <1>8 DEF TokenTurn
<1>10. /\ Told(s, a)' = Told(s, a) \cup {row}
       /\ \A t \in Template, c \in Case : t # s \/ c # a => Told(t, c)' = Told(t, c)
  BY <1>7, RowAddedTold
<1>11. k \in About(s, a)'
  BY <1>10 DEF About
<1>12. NoticesGrow
  <2>1. ASSUME NEW t \in TemplatesOf(Reminder), NEW c \in Case
        PROVE  /\ About(t, c) \subseteq About(t, c)'
               /\ Len(notifications[t][c]) \in Nat /\ Len(notifications'[t][c]) \in Nat
               /\ Len(notifications[t][c]) <= Len(notifications'[t][c])
    <3>1. t \in Template /\ Len(notifications[t][c]) \in Nat
      BY <1>0, RowsAreSequences DEF TypeInv
    <3>2. CASE t = s /\ c = a
      <4>1. Len(notifications[t][c]) = n /\ Len(notifications'[t][c]) = n + 1
        BY <1>7, <3>2 DEF RowAdded
      <4>2. About(t, c) \subseteq About(t, c)'
        BY <1>10, <3>2 DEF About
      <4> QED
        BY <4>1, <4>2
    <3>3. CASE t # s \/ c # a
      <4>1. notifications'[t][c] = notifications[t][c]
        BY <1>7, <3>1, <3>3 DEF RowAdded
      <4>2. About(t, c) = About(t, c)'
        BY <1>10, <3>1, <3>3 DEF About
      <4> QED
        BY <3>1, <4>1, <4>2
    <3> QED
      BY <3>2, <3>3
  <2> QED
    BY <1>1, <2>1 DEF NoticesGrow
<1>13. \A i \in DOMAIN tokens' : TokenCounted(i)'
  BY <1>1, <1>12, TallyStays DEF ReminderInv
<1>14. s = T => SendsNews(Reminder)' /\ \A c \in Case : RowsDiffer(T, c)'
  BY <1>0, <1>2, <1>3, <1>5, DeliveryKeepsNews DEF ReminderInv, ReportsOK
<1>15. ReportsOK'
  <2>1. ASSUME NEW c \in Case, s # T \/ c # a
        PROVE  /\ \A i \in DOMAIN notifications'[T][c] :
                    ReportOK(c, notifications[T][c][i].about, i)'
               /\ RowsDiffer(T, c)'
    <3>1. notifications'[T][c] = notifications[T][c]
      BY <1>0, <1>7, <2>1 DEF RowAdded
    <3>2. ASSUME NEW i \in DOMAIN notifications[T][c], NEW m, m = notifications[T][c][i].about
          PROVE  ReportOK(c, m, i)'
      <4>1. ReportOK(c, m, i)
        BY <3>2 DEF ReminderInv, ReportsOK
      <4> QED
        BY <1>1, <4>1, ReportStays DEF ReportOK
    <3>3. ASSUME NEW i \in DOMAIN notifications'[T][c]
          PROVE  ReportOK(c, notifications[T][c][i].about, i)'
      BY <3>1, <3>2
    <3>4. RowsDiffer(T, c)'
      BY <3>1 DEF RowsDiffer, ReminderInv, ReportsOK
    <3> QED
      BY <3>3, <3>4
  <2>2. ASSUME s = T, NEW i \in DOMAIN notifications'[T][a]
        PROVE  ReportOK(a, notifications[T][a][i].about, i)'
    <3>1. /\ DOMAIN notifications[T][a] = 1..n /\ DOMAIN notifications'[T][a] = 1..(n + 1)
          /\ Len(notifications[T][a]) = n
          /\ notifications'[T][a][n + 1] = row
          /\ \A x \in 1..n : notifications'[T][a][x] = notifications[T][a][x]
      BY <1>7, <2>2 DEF RowAdded
    <3>2. PICK m : m = notifications'[T][a][i].about
      OBVIOUS
    <3>3. ReportOK(a, m, i)
      <4>1. CASE i = n + 1
        <5>1. m = k
          BY <3>1, <3>2, <4>1
        <5>2. tokens[k].seen \in Nat /\ tokens[k].seen <= n
          BY <1>9, <3>1, TokenFields DEF ReminderInv, TokenCounted
        <5>3. i > tokens[k].seen
          BY <4>1, <5>2
        <5> QED
          BY <1>9, <2>2, <5>1, <5>3 DEF ReportOK
      <4>2. CASE i \in 1..n
        BY <1>6, <3>1, <3>2, <4>2 DEF ReminderInv, ReportsOK
      <4> QED
        BY <2>2, <3>1, <4>1, <4>2
    <3>4. ReportOK(a, m, i)'
      BY <1>1, <3>3, ReportStays DEF ReportOK
    <3> QED
      BY <3>2, <3>4
  <2>3. ASSUME NEW c \in Case
        PROVE  /\ \A i \in DOMAIN notifications'[T][c] :
                    ReportOK(c, notifications[T][c][i].about, i)'
               /\ RowsDiffer(T, c)'
    BY <1>14, <2>1, <2>2, <2>3
  <2> QED
    BY <2>3 DEF ReportsOK
<1>16. PICK x : x = job'[Reminder]
  OBVIOUS
<1>17. /\ x.todo = j.todo
       /\ \/ x.at = "deliver" /\ TurnKept(j, x)
          \/ x.at = "record" /\ TurnKept(j, x) /\ s # T
          \/ x.at = "next"
  <2>1. CASE JobBecomes(Reminder, [j EXCEPT !.unsent = j.unsent \ {u}])
    BY <1>3, <1>16, <2>1 DEF JobBecomes, Sending, TurnKept
  <2>2. CASE IsReminder(j.template) /\ JobBecomes(Reminder, [j EXCEPT !.at = "record"])
    <3>1. s # T
      BY <1>5, <2>2 DEF IsReminder, Audience
    <3> QED
      BY <1>3, <1>16, <2>2, <3>1 DEF JobBecomes, Sending, TurnKept
  <2>3. CASE JobBecomes(Reminder, [at |-> "next", todo |-> j.todo, now |-> j.now])
    BY <1>16, <2>3 DEF JobBecomes
  <2> QED
    BY <1>4, <2>1, <2>2, <2>3 DEF AfterDelivery
<1>18. ListOK(job[Reminder])'
  <2>1. /\ \A item \in j.todo : TokenListed(item)
        /\ \A y, z \in j.todo : y[1] = z[1] => y = z
    BY <1>2, <1>3 DEF ReminderInv, ListOK
  <2>2. \A item \in j.todo : TokenListed(item)'
    BY <2>1 DEF TokenListed
  <2> QED
    BY <1>16, <1>17, <2>1, <2>2 DEF ListOK
<1>19. x.at \in {"deliver", "record"} => TokenTurn(x)' /\ x.template = s
  <2>1. ASSUME TurnKept(j, x), x.at \in {"deliver", "record"}, x.at = "record" => s # T
        PROVE  TokenTurn(x)'
    BY <1>1, <1>5, <1>8, <1>9, <1>11, <2>1, TurnStays
  <2> QED
    BY <1>5, <1>17, <2>1 DEF TurnKept
<1>20. x.at \in {"deliver", "record"} => TokenTurn(job[Reminder])'
  BY <1>16, <1>19 DEF TokenTurn
<1> QED
  BY <1>13, <1>14, <1>15, <1>16, <1>18, <1>19, <1>20 DEF ReminderInv

LEMMA ReminderJobKeeps ==
  ASSUME TypeInv, ReminderInv, ReminderJob
  PROVE  ReminderInv'
<1>1. UNCHANGED clock
  BY DEF ReminderJob, StartReminderSweep, ReminderCheck, RecordReminder, Deliver, Finish, Begin
<1> QED
  BY <1>1, ReminderJobDoes, ReminderListKeeps, ReminderCheckKeeps, RecordReminderKeeps,
     ReminderDeliveryKeeps

\* The mail.  What waits for the job, and what the job is sending, was told to
\* nobody; a job that was interrupted may be told again.
LEMMA MailJobKeeps ==
  ASSUME TypeInv, MailInv, MailJob
  PROVE  MailInv'
<1>0. Mailer \in Task /\ TemplatesOf(Mailer) = CaseState
  BY Queues
<1>1. UNCHANGED <<events, crashes>>
  BY DEF MailJob, DispatchTransition, Deliver, Finish, noticeVars
<1>2. CASE JobBecomes(Mailer, Idle) /\ UNCHANGED noticeVars
  <2>1. job'[Mailer].at = "idle"
    BY <1>2, NewJobs DEF JobBecomes
  <2>2. UNCHANGED <<events, notifications, mail>>
    BY <1>2 DEF noticeVars
  <2> QED
    BY <1>1, <2>1, <2>2 DEF MailInv, Told, RowsDiffer, SendsNews
<1>3. CASE /\ \E m \in mail :
                /\ mail' = mail \ {m}
                /\ \/ JobBecomes(Mailer, job[Mailer])
                   \/ JobBecomes(Mailer, Deliverable({}, clock, m.to, m.kase, m.about))
           /\ job[Mailer].at = "idle"
           /\ UNCHANGED <<notifications, events>>
  <2>1. PICK m \in mail :
                /\ mail' = mail \ {m}
                /\ \/ JobBecomes(Mailer, job[Mailer])
                   \/ JobBecomes(Mailer, Deliverable({}, clock, m.to, m.kase, m.about))
    BY <1>3
  <2>2. /\ \A x \in mail' : x.about \in DOMAIN events'[x.kase]
        /\ \A t \in CaseState, c \in Case : \A n \in Told(t, c)' : n.about \in DOMAIN events'[c]
        /\ crashes' = 0 =>
             /\ \A t \in CaseState, c \in Case : RowsDiffer(t, c)'
             /\ \A x \in mail' : \A n \in Told(x.to, x.kase)' : n.about # x.about
    BY <1>1, <1>3, <2>1 DEF MailInv, Told, RowsDiffer
  <2>3. CASE JobBecomes(Mailer, job[Mailer])
    <3>1. job'[Mailer].at = "idle"
      BY <1>3, <2>3 DEF JobBecomes
    <3> QED
      BY <2>2, <3>1 DEF MailInv, SendsNews
  <2>4. CASE JobBecomes(Mailer, Deliverable({}, clock, m.to, m.kase, m.about))
    <3>1. PICK x : x = job'[Mailer]
      OBVIOUS
    <3>2. x.template = m.to /\ x.kase = m.kase /\ x.about = m.about
      BY <2>4, <3>1, NewJobs DEF JobBecomes
    <3>3. x.about \in DOMAIN events'[x.kase]
      BY <1>3, <2>1, <3>2 DEF MailInv
    <3>4. ASSUME crashes' = 0 PROVE SendsNews(Mailer)'
      <4>1. \A n \in Told(m.to, m.kase)' : n.about # m.about
        BY <1>1, <1>3, <2>1, <3>4 DEF MailInv, Told
      <4> QED
        BY <3>1, <3>2, <4>1 DEF SendsNews, Untold, Told
    <3>5. \A y \in mail' : ~ (/\ y.kase = x.kase /\ y.to = x.template /\ y.about = x.about)
      <4>1. mail \subseteq Mail
        BY DEF TypeInv, NoticesTypeOK
      <4> QED
        BY <2>1, <3>2, <4>1 DEF Mail
    <3> QED
      BY <2>2, <3>1, <3>3, <3>4, <3>5 DEF MailInv
  <2> QED
    BY <2>1, <2>3, <2>4
<1>4. CASE Deliver(Mailer)
  <2>1. PICK j : j = job[Mailer]
    OBVIOUS
  <2>2. /\ j.at = "deliver" /\ j \in Sending(Mailer) /\ UNCHANGED mail
        /\ \E u \in j.unsent : \E n \in Nat :
             /\ RowAdded(j.template, j.kase, [to |-> u, about |-> j.about], n)
             /\ AfterDelivery(Mailer, j, u)
    BY <1>0, <1>4, <2>1, DeliverDoes DEF Deliver
  <2>3. PICK u \in j.unsent, n \in Nat :
             /\ RowAdded(j.template, j.kase, [to |-> u, about |-> j.about], n)
             /\ AfterDelivery(Mailer, j, u)
    BY <2>2
  <2>4. PICK s, a, k : s = j.template /\ a = j.kase /\ k = j.about
    OBVIOUS
  <2>5. s \in CaseState /\ a \in Case /\ k \in DOMAIN events[a] /\ s \in Template
    BY <1>0, <2>1, <2>2, <2>4 DEF Sending, MailInv, Template
  <2> DEFINE row == [to |-> u, about |-> k]
  <2>6. /\ Told(s, a)' = Told(s, a) \cup {row}
        /\ \A t \in Template, c \in Case : t # s \/ c # a => Told(t, c)' = Told(t, c)
        /\ \A t \in Template, c \in Case :
             (t # s \/ c # a) /\ RowsDiffer(t, c) => RowsDiffer(t, c)'
    BY <2>3, <2>4, RowAddedTold
  <2>7. \A t \in CaseState, c \in Case : \A m \in Told(t, c)' : m.about \in DOMAIN events'[c]
    <3>1. ASSUME NEW t \in CaseState, NEW c \in Case, NEW m \in Told(t, c)'
          PROVE  m.about \in DOMAIN events[c]
      <4>1. CASE m \in Told(t, c)
        BY <4>1 DEF MailInv
      <4>2. CASE m \notin Told(t, c)
        <5>1. t \in Template
          BY DEF Template
        <5>2. m = row /\ c = a
          BY <2>6, <3>1, <4>2, <5>1
        <5> QED
          BY <2>5, <5>2
      <4> QED
        BY <4>1, <4>2
    <3> QED
      BY <1>1, <3>1
  <2>8. ASSUME crashes' = 0
        PROVE  /\ \A t \in CaseState, c \in Case : RowsDiffer(t, c)'
               /\ \A m \in mail' : \A x \in Told(m.to, m.kase)' : x.about # m.about
               /\ SendsNews(Mailer)'
    <3>1. /\ \A t \in CaseState, c \in Case : RowsDiffer(t, c)
          /\ \A m \in mail : \A x \in Told(m.to, m.kase) : x.about # m.about
          /\ SendsNews(Mailer)
          /\ \A m \in mail : ~ (/\ m.kase = a /\ m.to = s /\ m.about = k)
      BY <1>1, <2>1, <2>2, <2>4, <2>8 DEF MailInv
    <3>2. SendsNews(Mailer)' /\ \A c \in Case : RowsDiffer(s, c)'
      BY <1>0, <1>4, <2>1, <2>4, <2>5, <3>1, DeliveryKeepsNews
    <3>3. \A t \in CaseState, c \in Case : RowsDiffer(t, c)'
      BY <2>6, <3>1, <3>2 DEF Template
    <3>4. ASSUME NEW m \in mail, NEW x \in Told(m.to, m.kase)' PROVE x.about # m.about
      <4>1. m.to \in Template /\ m.kase \in Case
        BY DEF TypeInv, NoticesTypeOK, Mail, Template
      <4>2. CASE m.to = s /\ m.kase = a
        <5>1. x \in Told(s, a) \cup {row}
          BY <2>6, <3>4, <4>2 DEF Told
        <5> QED
          BY <3>1, <4>2, <5>1
      <4>3. CASE m.to # s \/ m.kase # a
        BY <2>6, <3>1, <3>4, <4>1, <4>3
      <4> QED
        BY <4>2, <4>3
    <3>5. \A m \in mail' : \A x \in Told(m.to, m.kase)' : x.about # m.about
      BY <2>2, <3>4 DEF Told
    <3> QED
      BY <3>2, <3>3, <3>5
  <2>9. PICK x : x = job'[Mailer]
    OBVIOUS
  <2>10. x.at = "deliver" => x.template = s /\ x.kase = a /\ x.about = k
    <3>1. CASE JobBecomes(Mailer, [j EXCEPT !.unsent = j.unsent \ {u}])
      BY <2>2, <2>4, <2>9, <3>1 DEF JobBecomes, Sending
    <3>2. CASE JobBecomes(Mailer, [j EXCEPT !.at = "record"])
      BY <2>2, <2>9, <3>2 DEF JobBecomes, Sending
    <3>3. CASE JobBecomes(Mailer, [at |-> "next", todo |-> j.todo, now |-> j.now])
      BY <2>9, <3>3 DEF JobBecomes
    <3> QED
      BY <2>3, <3>1, <3>2, <3>3 DEF AfterDelivery
  <2>11. x.at = "deliver" =>
           /\ x.about \in DOMAIN events'[x.kase]
           /\ crashes' = 0 => \A m \in mail' :
                ~ (/\ m.kase = x.kase /\ m.to = x.template /\ m.about = x.about)
    BY <1>1, <2>1, <2>2, <2>4, <2>5, <2>10 DEF MailInv
  <2>12. \A m \in mail' : m.about \in DOMAIN events'[m.kase]
    BY <1>1, <2>2 DEF MailInv
  <2> QED
    BY <2>7, <2>8, <2>9, <2>11, <2>12 DEF MailInv
<1> QED
  BY <1>2, <1>3, <1>4, MailJobDoes

\* Who else writes the queue of the mail: a case that moves, and a restart.
MailGrows ==
  \/ mail' = mail /\ crashes' = crashes
  \/ /\ crashes' = crashes /\ job' = job
     /\ \E c \in Case, e \in CaseEvent, n \in Nat :
          EventAdded(c, e, n) /\ mail' = mail \cup {[kase |-> c, to |-> e.to, about |-> n + 1]}
  \/ /\ crashes' \in Nat \ {0} /\ job'[Mailer] = Idle
     /\ mail' \in {mail, mail \cup Stalled(Mailer)}

LEMMA OthersMail ==
  ASSUME TypeInv, [BackgroundNext]_backgroundVars, ~MailJob
  PROVE  MailGrows
<1>1. CASE UNCHANGED <<mail, crashes>>
  BY <1>1 DEF MailGrows
<1>2. CASE CasesMove
  BY <1>1, <1>2, CasesMoveDoes DEF MailGrows, jobVars
<1>3. CASE TokensChange \/ PostSemester \/ PostClose \/ PostDeadline \/ AdminRequests
  BY <1>1, <1>3 DEF TokensChange, PostSemester, PostClose, PostDeadline, AdminRequests,
                    noticeVars, jobVars, OpenSemester, StartAutoEnrollment, Begin
<1>4. CASE \E w \in WebTask : AdminStep(w)
  BY <1>1, <1>4 DEF AdminStep, OpenCommit, EnrollStudent, Finish, noticeVars
<1>5. CASE EscalationJob \/ DeadlineJob
  BY <1>1, <1>5 DEF EscalationJob, DeadlineJob, StartFocalSlaSweep, FocalSlaCheck, Deliver, Finish,
                    StartDeadlineSweep, DeadlineCheck, Begin, noticeVars
<1>6. CASE ReminderJob \/ EnrollmentJob
  BY <1>1, <1>6
  DEF ReminderJob, StartReminderSweep, ReminderCheck, RecordReminder, Deliver, Finish, Begin,
      EnrollmentJob, StartAutoEnrollment, EnrollStudent, noticeVars
<1>7. CASE Tick /\ UNCHANGED noticeVars
  BY <1>1, <1>7 DEF Tick, noticeVars
<1>8. CASE WorkerDiesAndRestarts
  <2>1. /\ crashes' = crashes + 1 /\ crashes \in Nat
        /\ job' = [q \in Task |-> IF q \in QueueName THEN Idle ELSE job[q]]
        /\ mail' \in {mail, mail \cup Stalled(Mailer)}
    BY <1>8, QueuesOK DEF WorkerDiesAndRestarts, WorkerDies, Mailer, TypeInv
  <2>2. job'[Mailer] = Idle
    BY <2>1, Queues
  <2> QED
    BY <2>1, <2>2 DEF MailGrows
<1>9. CASE UNCHANGED backgroundVars
  BY <1>1, <1>9 DEF backgroundVars, jobVars, noticeVars
<1> QED
  BY <1>2, <1>3, <1>4, <1>5, <1>6, <1>7, <1>8, <1>9 DEF BackgroundNext

LEMMA MailKept ==
  ASSUME TypeInv, MailInv, Rests(Mailer), EventsGrow, MailGrows
  PROVE  MailInv'
<1>1. \A t \in CaseState, c \in Case : notifications'[t][c] = notifications[t][c]
  BY Queues DEF Rests
<1>2. \A t \in CaseState, c \in Case :
        Told(t, c)' = Told(t, c) /\ (RowsDiffer(t, c) => RowsDiffer(t, c)')
  BY <1>1 DEF Told, RowsDiffer
<1>3. mail \subseteq Mail
  BY DEF TypeInv, NoticesTypeOK
<1>4. ASSUME NEW m \in mail
      PROVE  /\ m.kase \in Case /\ m.to \in CaseState
             /\ m.about \in DOMAIN events'[m.kase]
  BY <1>3 DEF Mail, MailInv, EventsGrow
<1>5. \A t \in CaseState, c \in Case : \A n \in Told(t, c)' : n.about \in DOMAIN events'[c]
  BY <1>2 DEF MailInv, EventsGrow
<1>6. PICK j : j = job[Mailer]
  OBVIOUS
<1>7. ASSUME j.at = "deliver"
      PROVE  j.kase \in Case /\ j.template \in CaseState /\ j.about \in DOMAIN events'[j.kase]
  <2>1. j \in Sending(Mailer)
    BY <1>6, <1>7, Queues, JobShapes DEF TypeInv, JobsOK
  <2>2. j.kase \in Case /\ j.template \in CaseState
    BY <2>1, Queues DEF Sending
  <2> QED
    BY <1>6, <1>7, <2>2 DEF MailInv, EventsGrow
<1>8. job'[Mailer].at = "deliver" => job'[Mailer] = j
  BY <1>6, NewJobs DEF Rests
<1>9. job'[Mailer].at = "deliver" => job'[Mailer].about \in DOMAIN events'[job'[Mailer].kase]
  BY <1>7, <1>8
<1>10. SendsNews(Mailer) => SendsNews(Mailer)'
  BY Queues, NewsStaysNews
<1>11. CASE mail' = mail /\ crashes' = crashes
  <2>1. \A m \in mail' : m.about \in DOMAIN events'[m.kase]
    BY <1>4, <1>11
  <2>2. ASSUME crashes' = 0
        PROVE  /\ \A t \in CaseState, c \in Case : RowsDiffer(t, c)'
               /\ \A m \in mail' : \A n \in Told(m.to, m.kase)' : n.about # m.about
               /\ SendsNews(Mailer)'
               /\ job'[Mailer].at = "deliver" =>
                    \A m \in mail' : ~ (/\ m.kase = j.kase /\ m.to = j.template
                                        /\ m.about = j.about)
    <3>1. \A m \in mail' : \A n \in Told(m.to, m.kase)' : n.about # m.about
      BY <1>2, <1>4, <1>11, <2>2 DEF MailInv
    <3> QED
      BY <1>2, <1>6, <1>8, <1>10, <1>11, <2>2, <3>1 DEF MailInv
  <2> QED
    BY <1>5, <1>8, <1>9, <2>1, <2>2 DEF MailInv
<1>12. CASE /\ crashes' = crashes /\ job' = job
            /\ \E c \in Case, e \in CaseEvent, n \in Nat :
                 EventAdded(c, e, n)
                 /\ mail' = mail \cup {[kase |-> c, to |-> e.to, about |-> n + 1]}
  <2>1. PICK c \in Case, e \in CaseEvent, n \in Nat :
                 EventAdded(c, e, n)
                 /\ mail' = mail \cup {[kase |-> c, to |-> e.to, about |-> n + 1]}
    BY <1>12
  <2> DEFINE new == [kase |-> c, to |-> e.to, about |-> n + 1]
  <2>2. /\ DOMAIN events[c] = 1..n /\ DOMAIN events'[c] = 1..(n + 1)
        /\ n + 1 \notin DOMAIN events[c] /\ n + 1 \in DOMAIN events'[c]
        /\ e.to \in CaseState
    BY <2>1 DEF EventAdded, CaseEvent
  <2>3. new.kase = c /\ new.to = e.to /\ new.about = n + 1
    OBVIOUS
  <2> HIDE DEF new
  <2>4. \A m \in mail' : m.about \in DOMAIN events'[m.kase]
    BY <1>4, <2>1, <2>2, <2>3 DEF new
  <2>5. ASSUME crashes' = 0
        PROVE  /\ \A t \in CaseState, d \in Case : RowsDiffer(t, d)'
               /\ \A m \in mail' : \A x \in Told(m.to, m.kase)' : x.about # m.about
               /\ SendsNews(Mailer)'
               /\ job'[Mailer].at = "deliver" =>
                    \A m \in mail' : ~ (/\ m.kase = j.kase /\ m.to = j.template
                                        /\ m.about = j.about)
    <3>1. \A x \in Told(e.to, c)' : x.about # n + 1
      BY <1>2, <2>2 DEF MailInv
    <3>2. \A m \in mail : \A x \in Told(m.to, m.kase)' : x.about # m.about
      BY <1>2, <1>4, <1>12, <2>5 DEF MailInv
    <3>3. \A m \in mail' : \A x \in Told(m.to, m.kase)' : x.about # m.about
      <4>1. ASSUME NEW m \in mail', NEW x \in Told(m.to, m.kase)' PROVE x.about # m.about
        <5>1. CASE m \in mail
          BY <3>2, <4>1, <5>1
        <5>2. CASE m = new
          <6>1. Told(m.to, m.kase)' = Told(e.to, c)'
            BY <2>3, <5>2 DEF Told
          <6> QED
            BY <2>3, <3>1, <4>1, <5>2, <6>1
        <5> QED
          BY <2>1, <4>1, <5>1, <5>2 DEF new
      <4> QED
        BY <4>1
    <3>4. ASSUME j.at = "deliver", NEW m \in mail', m.kase = j.kase, m.to = j.template,
                 m.about = j.about
          PROVE  FALSE
      <4>1. j.about \in DOMAIN events[j.kase]
        BY <1>6, <3>4 DEF MailInv
      <4>2. CASE m \in mail
        BY <1>6, <1>12, <2>5, <3>4, <4>2 DEF MailInv
      <4>3. CASE m = new
        BY <2>2, <2>3, <3>4, <4>1, <4>3
      <4> QED
        BY <2>1, <3>4, <4>2, <4>3 DEF new
    <3> QED
      BY <1>2, <1>8, <1>10, <1>12, <2>5, <3>3, <3>4 DEF MailInv
  <2> QED
    BY <1>5, <1>8, <1>9, <2>4, <2>5 DEF MailInv
<1>13. CASE /\ crashes' \in Nat \ {0} /\ job'[Mailer] = Idle
            /\ mail' \in {mail, mail \cup Stalled(Mailer)}
  <2>1. job'[Mailer].at # "deliver"
    BY <1>13, NewJobs
  <2>2. \A m \in Stalled(Mailer) : m.about \in DOMAIN events'[m.kase]
    BY <1>6, <1>7 DEF Stalled, At
  <2>3. \A m \in mail' : m.about \in DOMAIN events'[m.kase]
    BY <1>4, <1>13, <2>2
  <2> QED
    BY <1>5, <1>13, <2>1, <2>3 DEF MailInv
<1> QED
  BY <1>11, <1>12, <1>13 DEF MailGrows

-----------------------------------------------------------------------------
(* The invariant.                                                          *)

LEMMA InitIsSafe ==
  ASSUME BackgroundInit
  PROVE  BackgroundInv
<1>1. PICK b \in Starts :
        /\ bounds = [until |-> b.until, stages |-> b.stages, admin |-> b.admin]
        /\ registered = b.registered /\ status = b.status
        /\ events = b.events /\ semesters = b.semesters
  BY DEF BackgroundInit
<1>2. /\ job = [q \in Task |-> Idle] /\ clock = 0 /\ crashes = 0
      /\ notifications = [t \in Template |-> [c \in Case |-> <<>>]]
      /\ mail = {} /\ tokens = <<>>
  BY DEF BackgroundInit, JobsInit
<1>3. \A q \in Task : job[q] = Idle /\ job[q].at = "idle"
  BY <1>2, NewJobs
<1>4. \A q \in QueueName : job[q].at = "idle"
  BY <1>3, Queues
<1>5. \A t \in Template, c \in Case : notifications[t][c] = <<>>
  BY <1>2
<1>6. \A t \in Template, c \in Case :
        DOMAIN notifications[t][c] = {} /\ Told(t, c) = {} /\ Len(notifications[t][c]) = 0
  BY <1>5 DEF Told
<1>7. ASSUME NEW c \in Case
      PROVE  events[c] \in Seq(CaseEvent) /\ \A i \in DOMAIN events[c] : events[c][i].seen = 0
  <2> DEFINE Old == [to : CaseState, time : 0..MaxTime, seen : {0}]
  <2>1. events[c] \in Seq(Old)
    BY <1>1, BackgroundOK
  <2>2. Old \subseteq CaseEvent
    BY DEF CaseEvent
  <2>3. \A x \in Old : x.seen = 0
    OBVIOUS
  <2> HIDE DEF Old
  <2>4. \A i \in DOMAIN events[c] : events[c][i] \in Old
    BY <2>1, LenProperties, ElementOfSeq
  <2>5. events[c] \in [1..Len(events[c]) -> Old] /\ Len(events[c]) \in Nat
    BY <2>1, LenProperties
  <2>6. events[c] \in [1..Len(events[c]) -> CaseEvent]
    BY <2>2, <2>5
  <2>7. events[c] \in Seq(CaseEvent)
    BY <2>5, <2>6, SeqDef
  <2> QED
    BY <2>3, <2>4, <2>7
<1>8. NoticesTypeOK
  <2>1. events = [c \in Case |-> events[c]]
    BY <1>1, BackgroundOK
  <2>2. events \in [Case -> Seq(CaseEvent)]
    BY <1>7, <2>1
  <2>3. notifications \in [Template -> [Case -> Seq(Notice)]]
    <3>1. <<>> \in Seq(Notice)
      BY EmptySeq
    <3> QED
      BY <1>2, <3>1
  <2> QED
    BY <1>2, <1>6, <2>2, <2>3 DEF NoticesTypeOK
<1>9. TypeInv
  <2>1. JobsOK
    BY <1>2, <1>3, IdleIsOK DEF JobsOK
  <2>2. tokens \in Seq(Token)
    BY <1>2, EmptySeq
  <2>3. clock \in 0..MaxTime /\ crashes \in 0..MaxCrashes
    BY <1>2, NotificationsOK, QueuesOK
  <2> QED
    BY <1>1, <1>8, <2>1, <2>2, <2>3, BackgroundOK DEF TypeInv
<1>10. {"focal-sla-escalation", "supervisor-unresponsive", "deadline-missed"} \cup CaseState
       \subseteq Template
  BY DEF Template, SweepTemplate
<1>11. {Focal, Reminder, Deadline, Mailer} \subseteq QueueName
  BY Queues
<1>12. EscalationInv
  BY <1>4, <1>6, <1>7, <1>10, <1>11 DEF EscalationInv, RowsDiffer, SendsNews
<1>13. DeadlineInv
  BY <1>4, <1>6, <1>10, <1>11 DEF DeadlineInv, RowsDiffer, SendsNews
<1>14. ReminderInv
  <2>1. DOMAIN tokens = {}
    BY <1>2
  <2> QED
    BY <1>4, <1>6, <1>10, <1>11, <2>1 DEF ReminderInv, ReportsOK, ListOK, RowsDiffer
<1>15. MailInv
  BY <1>2, <1>4, <1>6, <1>10, <1>11 DEF MailInv, RowsDiffer, SendsNews
<1>16. AtMostOneOpen
  BY <1>1, BackgroundOK DEF AtMostOneOpen, Open
<1> QED
  BY <1>9, <1>12, <1>13, <1>14, <1>15, <1>16 DEF BackgroundInv

LEMMA StepIsSafe ==
  ASSUME BackgroundInv, [BackgroundNext]_backgroundVars
  PROVE  BackgroundInv'
<1>0. TypeInv /\ EscalationInv /\ DeadlineInv /\ ReminderInv /\ MailInv /\ AtMostOneOpen
  BY DEF BackgroundInv
<1>1. /\ TypeInv' /\ AtMostOneOpen'
      /\ \A q \in QueueName : Rests(q) \/ Takes(q)
  BY <1>0, StepKeepsTypes
<1>2. clock \in Nat /\ clock' \in Nat /\ clock <= clock' /\ EventsGrow
  BY <1>0, StepGrows
<1>3. {Focal, Reminder, Deadline, Mailer} \subseteq QueueName
      /\ Focal # Reminder /\ Focal # Deadline /\ Focal # Mailer /\ Reminder # Deadline
      /\ Reminder # Mailer /\ Deadline # Mailer
      /\ "roster-sweep" \notin {Focal, Reminder, Deadline, Mailer}
  BY Queues DEF Focal, Reminder, Deadline, Mailer
<1>4. EscalationInv'
  <2>1. CASE EscalationJob
    BY <1>0, <2>1, EscalationJobKeeps
  <2>2. CASE ~EscalationJob
    BY <1>0, <1>1, <1>3, <2>2, EscalationKept DEF Takes
  <2> QED
    BY <2>1, <2>2
<1>5. DeadlineInv'
  <2>1. CASE DeadlineJob
    BY <1>0, <2>1, DeadlineJobKeeps
  <2>2. CASE ~DeadlineJob
    BY <1>0, <1>1, <1>3, <2>2, DeadlineKept DEF Takes
  <2> QED
    BY <2>1, <2>2
<1>6. ReminderInv'
  <2>1. CASE ReminderJob
    BY <1>0, <2>1, ReminderJobKeeps
  <2>2. CASE ~ReminderJob
    BY <1>0, <1>1, <1>2, <1>3, <2>2, ReminderKept, TokensStay DEF Takes
  <2> QED
    BY <2>1, <2>2
<1>7. MailInv'
  <2>1. CASE MailJob
    BY <1>0, <2>1, MailJobKeeps
  <2>2. CASE ~MailJob
    BY <1>0, <1>1, <1>2, <1>3, <2>2, MailKept, OthersMail DEF Takes
  <2> QED
    BY <2>1, <2>2
<1> QED
  BY <1>1, <1>4, <1>5, <1>6, <1>7 DEF BackgroundInv

\* The invariant of the worker, whatever its queues, the people and the Admins
\* do, and wherever it dies: each queue's own, which no other disturbs.
THEOREM BackgroundIsSafe == BackgroundSpec => []BackgroundInv
<1>1. BackgroundInit => BackgroundInv
  BY InitIsSafe
<1>2. BackgroundInv /\ [BackgroundNext]_backgroundVars => BackgroundInv'
  BY StepIsSafe
<1> QED
  BY <1>1, <1>2, PTL DEF BackgroundSpec

-----------------------------------------------------------------------------
(* What it implies.                                                        *)

\* Every table keeps its type, and what was sent about a case was sent to
\* people its template names.
THEOREM BackgroundTypes == BackgroundSpec => []BackgroundTypeOK
<1>1. BackgroundInv => BackgroundTypeOK
  BY DEF BackgroundInv, TypeInv, BackgroundTypeOK, JobsOK, QueueName
<1> QED
  BY <1>1, BackgroundIsSafe, PTL

\* At most one semester is open, whatever two Admins do at the same time.
THEOREM SemestersAreApart == BackgroundSpec => []OneOpenSemester
<1>1. BackgroundInv => OneOpenSemester
  BY AtMostOneIsOne DEF BackgroundInv
<1> QED
  BY <1>1, BackgroundIsSafe, PTL

\* An escalation follows a breach of the SLA, and a report two counted
\* reminders for the same link that were mailed.
THEOREM EscalationsAreDue == BackgroundSpec => []EscalationIsDue
<1>1. ASSUME BackgroundInv PROVE EscalationIsDue
  <2>0. TypeInv /\ EscalationInv /\ ReminderInv
    BY <1>1 DEF BackgroundInv
  <2>1. ASSUME NEW c \in Case, NEW i \in About("focal-sla-escalation", c)
        PROVE  /\ events[c][i].to \in FOCAL_PENDING_STATES
               /\ \E t \in 0..clock : isFocalSlaBreached(events[c][i], t)
    <3>1. PICK k \in DOMAIN notifications["focal-sla-escalation"][c] :
            i = notifications["focal-sla-escalation"][c][k].about
      BY DEF About, Told
    <3> QED
      BY <2>0, <3>1 DEF EscalationInv, RowWasDue, EscalatedEvent
  <2>2. ASSUME NEW c \in Case, NEW k \in About("supervisor-unresponsive", c)
        PROVE  /\ tokens[k].kase = c /\ tokens[k].reminders = 2
               /\ k \in About("supervisor-first-reminder", c)
                        \cap About("supervisor-second-reminder", c)
               /\ clock >= tokens[k].time + Days(SUPERVISOR_SLA_DAYS + 2 * REMINDER_INTERVAL_DAYS)
    <3>1. PICK i \in DOMAIN notifications["supervisor-unresponsive"][c] :
            k = notifications["supervisor-unresponsive"][c][i].about
      BY DEF About, Told
    <3>2. k \in DOMAIN tokens /\ tokens[k].kase = c /\ ReportDue(k)
      BY <2>0, <3>1 DEF ReminderInv, ReportsOK, ReportOK
    <3>3. /\ tokens[k].reminders >= 1 => k \in About("supervisor-first-reminder", c)
          /\ tokens[k].reminders >= 2 => k \in About("supervisor-second-reminder", c)
      BY <2>0, <3>2 DEF ReminderInv, TokenCounted
    <3> QED
      BY <3>2, <3>3 DEF ReportDue
  <2> QED
    BY <2>1, <2>2 DEF EscalationIsDue
<1> QED
  BY <1>1, BackgroundIsSafe, PTL

\* Nobody is told the same thing twice: by a sweep, although its check comes
\* well before its row and the worker may die in between; of a move, while no
\* worker died.
THEOREM EveryoneIsToldOnce == BackgroundSpec => []NobodyToldTwice
<1>1. ASSUME BackgroundInv PROVE NobodyToldTwice
  <2>0. TypeInv /\ EscalationInv /\ DeadlineInv /\ ReminderInv /\ MailInv
    BY <1>1 DEF BackgroundInv
  <2>1. ASSUME NEW t \in Template \ {"supervisor-first-reminder", "supervisor-second-reminder"},
               NEW c \in Case, t \in SweepTemplate \/ crashes = 0
        PROVE  Cardinality(Told(t, c)) = Len(notifications[t][c])
    <3>1. /\ Len(notifications[t][c]) \in Nat
          /\ DOMAIN notifications[t][c] = 1..Len(notifications[t][c])
      BY <2>0, RowsAreSequences DEF TypeInv
    <3>2. RowsDiffer(t, c)
      <4>1. CASE t \in SweepTemplate
        BY <2>0, <2>1, <4>1 DEF SweepTemplate, EscalationInv, DeadlineInv, ReminderInv, ReportsOK
      <4>2. CASE t \in CaseState /\ crashes = 0
        BY <2>0, <4>2 DEF MailInv
      <4> QED
        BY <2>1, <4>1, <4>2 DEF Template
    <3> QED
      BY <3>1, <3>2, DifferentRowsCount
  <2> QED
    BY <2>1 DEF NobodyToldTwice
<1> QED
  BY <1>1, BackgroundIsSafe, PTL
================================================================================
