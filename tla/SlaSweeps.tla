------------------------------- MODULE SlaSweeps -------------------------------
(***************************************************************************)
(* The two daily sweeps of src/server/sla/service.ts: a case that a Focal  *)
(* Person leaves pending past SLA_DAYS is escalated to its HoDs (BR-27),    *)
(* and a supervisor who does not answer is reminded twice, then reported to *)
(* the Focal Persons (BR-28).  Both look for an earlier notification before *)
(* they send one; the cases move and the tokens end meanwhile.             *)
(***************************************************************************)
EXTENDS Notifications, TLC

LOCAL INSTANCE FiniteSetsExt

CONSTANTS
  SLA_DAYS, SUPERVISOR_SLA_DAYS, REMINDER_INTERVAL_DAYS,
  DayParts,       \* the parts of a day the clock tells apart
  NonWorking,     \* weekends and public holidays, which do not change while the model runs
  MaxTokens       \* bound on the rows of supervisor_tokens

ASSUME SlaOK == /\ SLA_DAYS \in Nat /\ SUPERVISOR_SLA_DAYS \in Nat
                /\ REMINDER_INTERVAL_DAYS \in Nat /\ NonWorking \subseteq Nat
                /\ DayParts \in Nat \ {0}
                /\ MaxTokens \in Nat

VARIABLE tokens   \* supervisor_tokens; seen: the reports about the case that are older
                  \* than lastReminderSentAt, or than the token

-----------------------------------------------------------------------------
(* runFocalSlaSweep().                                                     *)

FOCAL_PENDING_STATES == {"OFFER_UNDER_REVIEW", "PENDING_VERIFICATION"}

DayOf(t) == t \div DayParts

Days(n) == n * DayParts

countNonWorkingDaysBetween(from, to) ==
  Cardinality((DayOf(from) .. (DayOf(to) - 1)) \cap NonWorking)

\* In parts of a day.  A non-working day is taken off whole when its date is over,
\* whatever part of it lies between from and to, and not before.
workingDaysElapsed(from, to) ==
  Max({0, to - from - Days(countNonWorkingDaysBetween(from, to))})

isFocalSlaBreached(event, now) == workingDaysElapsed(event.time, now) >= Days(SLA_DAYS)

EntriesInto(c, s) == {i \in DOMAIN events[c] : events[c][i].to = s}

MostRecentEntry(c, s) == CHOOSE i \in EntriesInto(c, s) : \A j \in EntriesInto(c, s) : j <= i

Breaches(c, s, now) ==
  EntriesInto(c, s) # {} /\ isFocalSlaBreached(events[c][MostRecentEntry(c, s)], now)

\* A row not older than entry i.
neverEscalated(c, i) == FALSE
everEscalated(c, i) == notifications["focal-sla-escalation"][c] # <<>>
alreadyEscalated(c, i) == Len(notifications["focal-sla-escalation"][c]) > events[c][i].seen

StartFocalSlaSweep ==
  /\ "sla-escalation-sweep" \in registered
  /\ Begin("sla-escalation-sweep",
           {<<c, status[c]>> : c \in {d \in Case : status[d] \in FOCAL_PENDING_STATES}})

\* One case of the list, by the entry into the state the list says it is in.
\* Only this job writes these rows, so its two reads are one step.
FocalSlaCheck(q) ==
  /\ At(q, "next")
  /\ \E item \in job[q].todo :
       LET c == item[1]  i == MostRecentEntry(c, item[2]) IN
       IF Breaches(c, item[2], job[q].now) /\ ~alreadyEscalated(c, i)
       THEN Send(q, item, "focal-sla-escalation", c, i)
       ELSE Skip(q, item)
  /\ UNCHANGED <<registered, bounds, clock, crashes>>

-----------------------------------------------------------------------------
(* runSupervisorReminderSweep().  The list is of whole rows: what it says   *)
(* of a token may be out of date when the token's turn comes.              *)

classifyAfterOneReminder(token, now) ==
  LET age == now - token.time IN
  CASE token.reminders = 0 /\ age >= Days(SUPERVISOR_SLA_DAYS) -> "supervisor-first-reminder"
    [] token.reminders >= 1 /\ age >= Days(SUPERVISOR_SLA_DAYS + 2 * REMINDER_INTERVAL_DAYS)
         -> "supervisor-unresponsive"
    [] OTHER -> "none"
classifyTokenForReminder(token, now) ==
  LET age == now - token.time IN
  CASE token.reminders = 0 /\ age >= Days(SUPERVISOR_SLA_DAYS) -> "supervisor-first-reminder"
    [] token.reminders = 1 /\ age >= Days(SUPERVISOR_SLA_DAYS + REMINDER_INTERVAL_DAYS)
         -> "supervisor-second-reminder"
    [] token.reminders >= 2 /\ age >= Days(SUPERVISOR_SLA_DAYS + 2 * REMINDER_INTERVAL_DAYS)
         -> "supervisor-unresponsive"
    [] OTHER -> "none"

Reported(token) == Len(notifications["supervisor-unresponsive"][token.kase]) > token.seen

StartReminderSweep ==
  /\ "supervisor-reminder-sweep" \in registered
  /\ Begin("supervisor-reminder-sweep",
           {<<i, tokens[i]>> : i \in {k \in DOMAIN tokens : tokens[k].live}})

ReminderCheck(q) ==
  /\ At(q, "next")
  /\ \E item \in job[q].todo :
       LET token == item[2]  t == classifyTokenForReminder(token, job[q].now) IN
       IF t = "none" \/ (t = "supervisor-unresponsive" /\ Reported(token))
       THEN Skip(q, item)
       ELSE Send(q, item, t, token.kase, item[1])
  /\ UNCHANGED <<registered, bounds, clock, crashes>>

\* recordReminderSent(), after the mail; reports is what the case has by now.
Counted(token, reports) == [token EXCEPT !.reminders = @ + 1, !.seen = reports]

RecordReminder(q) ==
  /\ At(q, "record")
  /\ tokens' = [tokens EXCEPT ![job[q].about] =
                  Counted(@, Len(notifications["supervisor-unresponsive"][job[q].kase]))]
  /\ job' = [job EXCEPT ![q] = [at |-> "next", todo |-> @.todo, now |-> @.now]]
  /\ UNCHANGED <<registered, bounds, clock, crashes>>

-----------------------------------------------------------------------------
(* Tokens come and go, as in Deliverables.                                 *)

IssueToken(c) ==
  /\ status[c] = "DOCS_PENDING" /\ Len(tokens) < MaxTokens
  /\ tokens' = Append([i \in DOMAIN tokens |-> IF tokens[i].kase = c
                                               THEN [tokens[i] EXCEPT !.live = FALSE]
                                               ELSE tokens[i]],
                      [kase |-> c, time |-> clock, reminders |-> 0, live |-> TRUE,
                       seen |-> Len(notifications["supervisor-unresponsive"][c])])

UseToken(i) == tokens[i].live /\ tokens' = [tokens EXCEPT ![i].live = FALSE]

-----------------------------------------------------------------------------
(* Properties.                                                             *)

Token == [kase : Case, time : 0..MaxTime, reminders : Nat, live : BOOLEAN, seen : Nat]

About(t, c) == {n.about : n \in Told(t, c)}

\* A HoD hears of a case only after the time since it was left pending came to the
\* SLA as the code counts it (the count may fall again), and a Focal Person of a
\* supervisor only after that supervisor was mailed and counted two reminders for
\* the same link, whatever moved between the list, the check and the mail, and
\* wherever the worker died.
EscalationIsDue ==
  \A c \in Case :
    /\ \A i \in About("focal-sla-escalation", c) :
         /\ events[c][i].to \in FOCAL_PENDING_STATES
         /\ \E t \in 0..clock : isFocalSlaBreached(events[c][i], t)
    /\ \A k \in About("supervisor-unresponsive", c) :
         /\ tokens[k].kase = c /\ tokens[k].reminders = 2
         /\ k \in About("supervisor-first-reminder", c) \cap About("supervisor-second-reminder", c)
         /\ clock >= tokens[k].time + Days(SUPERVISOR_SLA_DAYS + 2 * REMINDER_INTERVAL_DAYS)

Breached(c) == status[c] \in FOCAL_PENDING_STATES /\ Breaches(c, status[c], clock)

Escalations(c) == Len(notifications["focal-sla-escalation"][c])

\* BR-27: a case that stays pending past the SLA is escalated in this stay,
\* although an earlier stay of it was, and although the worker dies.
BreachIsEscalated ==
  \A c \in Case :
    /\ Breached(c) /\ "sla-escalation-sweep" \in registered
    /\ resolveRecipients("focal-sla-escalation", c) # {}
    ~> \/ ~Breached(c)
       \/ Escalations(c) > events[c][MostRecentEntry(c, status[c])].seen

\* service.ts on BR-27, "sends one escalation notification per `HOD` user": of every
\* stay past the SLA each HoD of the department is told.  The code does not keep
\* this: after the worker dies between two of them, the first one's row is enough.
EveryHodIsTold ==
  \A c \in Case, u \in User :
    /\ Breached(c) /\ "sla-escalation-sweep" \in registered
    /\ u \in resolveRecipients("focal-sla-escalation", c)
    ~> \/ ~Breached(c)
       \/ \E n \in Told("focal-sla-escalation", c) :
            n.to = u /\ n.about = MostRecentEntry(c, status[c])

\* BR-27, "pending beyond `SLA_DAYS` (default 10 working days)": between the entry
\* a HoD is told of and now lie that many working days.  The code does not keep
\* this: on a non-working day, what has passed of that day still counts.
WorkingTime(from, to) == Cardinality({t \in from .. (to - 1) : DayOf(t) \notin NonWorking})
EscalationAfterWorkingDays ==
  \A c \in Case : \A i \in About("focal-sla-escalation", c) :
    WorkingTime(events[c][i].time, clock) >= Days(SLA_DAYS)
================================================================================
