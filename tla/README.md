# Internship Portal: specifications and proofs

TLA+ modules that model the case workflow of the Internship Portal (a Next.js
application on PostgreSQL and Redis, with a BullMQ worker), TLC configurations
that check them, and TLAPS proofs about its transition executor, the services on the
normal and the exception paths, the worker, and accounts, imports and archives. Paths below are relative
to the repository; `server/` stands for `src/server/`.

## The system

A student opens an internship *case*; the case moves through 21 states under
the hands of the student, a Focal Person, the Head of Department (HoD), the Dean
and the system itself, until it is closed with a grade, withdrawn, waived or
restarted. Every web request is a handler in a Node process, and there is one
worker process (`docker-compose.yml`); they share one database, at PostgreSQL's
default READ COMMITTED. A handler gives way at every `await`, so a service is a
sequence of database calls between which anything may happen.

| Component (source) | State it keeps | Operations | What makes it correct |
|---|---|---|---|
| State machine (`server/state-machine`) | `cases.state`, `case_events`, `audit_events` | `executeTransition`, `executeSystemTransition` | moves along the table only, by the right actor (BR-25/26); one active case per student (BR-06); events explain the state; no stage skipped |
| Offers (`server/offers`) | company, planned dates, relevance | open, withdraw, submit, approve, reject | a submission has its letter (BR-07); chained states pass; an internship has an approved plan (BR-08/09) |
| Documents (`server/documents`) | `documents`, files, archives | store (supersede + insert), archive, purge | superseded rows stay so; an active row is there once one was |
| Progress (`server/progress`) | actual dates, weekly log | log a week, complete | completed with sane dates |
| Supervisor (`server/supervisor`) | `supervisor_tokens`, `evaluations` | issue (revokes the live one), look up, submit, remind | one live token, one evaluation per token |
| Verification and grading (`server/grading`) | `verifications`, recommendation, `grades`, `grade_reversals` | verify, advance, mark verified, recommend, award, reverse | complete evidence before verification (BR-10/11); two people sign (BR-12); a grade is immutable (BR-14), and the events show where it contradicts its case |
| Restart gate (`server/restart`) | `restart_requests`, `escalations`, `cases.previous_case_id` | request, counter-sign, deny, escalate | two signers of the student's department (BR-17); each authorised request has its new case (BR-19/20); a moved case has its request |
| Waivers (`server/waivers`) | `waivers` | initiate, counter-sign, deny, grant, deny | a waiver both signed behind a graduation without a pass (BR-03, BR-21); the waiver shows each decision that moved its case |
| Roster (`server/roster`) | semesters, students, holidays | import, create/open/close a semester, set its deadline, sweeps | one open semester; a student past the boundary gets a case (BR-02); an imported student can sign in |
| Notifications, SLA (`server/notifications`, `server/sla`, `server/jobs`, `worker`) | `notifications`, reminder counts, queues | enqueue after commit, deliver, sweep | breaches escalated (BR-27), supervisors reminded twice first (BR-28); nobody told too early or twice |
| Accounts (`server/auth`, `server/users`, `server/security`) | users, roles, reset links, rate-limit windows | log in, lock, ask for a link, redeem it, create, disable, set roles | failures lock; one live link per account; STUDENT is never lost; a refusal ends |
| Retention (`server/documents/retention.ts`) | `document_archives`, files | archive, confirm and purge | no file goes but for an archive; a confirmed archive has none left |
| Authorisation (`server/authz`) | none | capability and department checks | every route asks for its capability |
| Progress line (`server/dashboards/progress-line.ts`) | none | draw a case's state as eight steps or a banner | every state is drawn; no step is drawn as done that was not taken |
| Other dashboards, exports, mail, pages | none | reads and layout | |

Components meet in four ways: services *call* the executor, each call in a
transaction of its own; they *share* the `cases`, `documents` and `users` rows;
the executor *enqueues* notifications after its commit, best effort; and the
worker's *sweeps* read what the web process writes, on schedules that Redis
keeps.

What is hard here: the executor reads the state outside the transaction that
overwrites it; services write their own tables before or after the transition
that may be denied or lost; a process may die between two awaits and nothing
resumes it; two requests each see the other's work half done; a sweep acts on a
list that is out of date. `PROJECT.json`
lists these hazards at their lines.

## Modules

    TransitionTable          states, rows, genesis states (constants)
      ProgressLine           the page's maps of the states  -> ProgressLineProofs
      CaseLifecycle          abstract: what a case's state may do
        Notifications        who is told what   (with JobQueues, the worker)
          SlaSweeps          SLA and reminder sweeps, tokens
          Roster             semesters, enrolment and deadline sweeps
            BackgroundWork   SlaSweeps + Roster, worker deaths -> BackgroundProofs
      CaseExecutor           executeTransition() step by step; operators only -> ExecutorProofs
        AnyCaller            any caller, any arguments      -> AnyCallerProofs
        DocumentStore        documents, storeDocument()
          OfferPath          open .. approve
          Deliverables       complete .. verified
        Grading              recommend .. grade, reversal
          NormalPath         OfferPath + Deliverables + Grading, crashes -> NormalPathProofs
                             with AnyCaller: what events show -> OrderedEventsProofs
        StaffScope           departments and capabilities
          RestartGate        request .. counter-signature, denial, escalation
          WaiverPath         initiate .. grant  (with DocumentStore)
            ExceptionPaths   RestartGate + WaiverPath + withdrawal -> ExceptionProofs
    Accounts                 login, lockout, reset links, staff, rate limit
      RosterImport           the CSV import, row by row
      Retention              archives and purges
        AccountWork          RosterImport + Retention, web deaths -> AccountProofs

**TransitionTable** is `transitions.ts` row by row. A guard is a pure predicate
of the context a caller passes, so a row names its guards and a call carries the
set of guards its context satisfies.

**CaseExecutor** cuts `executeTransition()` where it awaits: `BeginTransition`
(the read and all checks), `CommitTransition` (one transaction; UPDATE without a
condition on the old state) or `AbortTransition` (the partial unique index
refuses, or the row is gone), `ReturnFromTransition` (the enqueue and the return
to `next`). A denied call changes nothing that is modelled (it writes one audit
row). A request occupies a slot `r`: `pc[r]` is where it is suspended, `tx[r]`
the executor's locals, `frame[r]` the service's locals. `Crash` drops all three.

The service modules have one action per handler entry (`SubmitOffer`,
`AwardGrade`, ... : the route's checks, and the first write when nothing is
awaited in between) and one per later segment of the service (`OfferStore`,
`OfferDetails`, ...). A service that does not catch what the executor throws uses
`TransitionOrFail`: what it has written before stays written.

**Documents** are rows in insertion order. A store at READ COMMITTED supersedes
the rows its UPDATE sees, so `replaced` is read when the UPDATE begins and
applied when the transaction commits; two of them may leave two ACTIVE rows, and
`findFirst` then returns either (`SeesVerified`). Token issue has the same shape,
but there a partial unique index rejects the second row.

**RestartGate** and **WaiverPath** keep the order of their writes: the case moves
first, the request or the waiver follows. A request that the table's guards
refuse is recorded as denied (`GuardsFail` is the one error that is caught); the
counter-signature's second transaction holds the outcome *and* the new case, and
the partial index may refuse both. A waiver has no case id: each decision looks
for a case of the student in the waiver states.

**JobQueues** cuts a worker's job where it writes: it reads its list, then takes
the items one by one, and each recipient of a notification is a step. The two
reads that judge one item are one step, because only that job writes the rows
they read. `WorkerDies` drops every job; a mail job that was running is stalled
and may be run again. **Notifications** stands on `CaseLifecycle`, which the
executor implements: the sweeps are checked against whatever overlapping
executor calls may do to a case. Rows are compared in time only within a
template and a case, so they are kept by both; an event and a token remember how
many such rows are older (`seen`) instead of a timestamp. A row of the deadline
template is about the deadline that was missed. The clock counts parts of a day
(`DayParts`): the code takes a non-working day off whole, when its date is over,
so the working days elapsed may fall while time goes on, and how much of a day
has passed matters.

**Accounts** cuts a request at each call of PostgreSQL or Redis; a transaction
of two statements at READ COMMITTED is two steps, with what the first one saw.
`lock` says whether `locked_until` is null, ahead or past; a reset link may
expire at any time.

**ProgressLine** is the student's page: two maps from states to steps and
banners, kept by hand apart from the table.

**CaseLifecycle** is the abstract specification: what overlapping executor calls
guarantee of a case. It moves along a row of the table from a state it has been
in, which need not be the state it is in.

Definitions named `...Any...`, `...Unguarded`, `...Without...` and the like that
stand directly before the definition they resemble are that definition with a
bug in it; no specification uses them. `PROJECT.json` ("mutants") pairs each with
the property that must then fail.

## What the runs show

| Run | Instance | Properties | States |
|---|---|---|---|
| `any_caller` | 2 cases of one student, 2 slots, student, HoD, Dean, one account that is Focal Person and HoD, 2 contexts, 3 events per case, crashes | `TypeOK`, `OneActiveCase`, `EventsPermitted`, `HistoryExplainsState`, `NoStageSkipped`, `CallsInFlight` (together the inductive invariant `IInv`), refinement `ImplementsLifecycle` | 217,867 |
| `offer_path` | 2 cases, 2 slots, 4+1 events, 2 documents, a good and a bad plan | `OfferLetterOnFile`, `TransientCasesMoveOn`, liveness `TransientStatesPass` | 405,047 |
| `deliverables` | 1 case from IN_PROGRESS, 2 slots, 3 more events, 3 documents, 2 tokens | `OneLiveToken`, `DeliverablesBeforeVerification`, `EvidenceWasVerified`, `CompleteEvidenceIsHeld`, liveness `CompleteEvidenceAdvances` | 538,520 |
| `grading` | 1 case from VERIFIED, 2 slots, 3 more events, 5 people | `GradeBacksClosure`, `ClosuresAreBeingGraded`, `GradesAreImmutable`, `DisagreementShowsInEvents`, liveness `ClosureGetsGrade` | 83,141 |
| `normal_path` | 1 case, 1 slot, crashes, 13 events, 3 documents, 2 tokens, 2 companies, 2 plans | `PassIsEarned` | 178,285 |
| `exception_paths` | a failed case and one id for a new one, 2 slots, Focal Person, Focal Person who is HoD, Dean, 2 more events each | `RestartHasTwoSigners`, `AuthorizedRequestHasNewCase`, `GraduationIsEarned`, `DecisionsAreBeingRecorded`, liveness `RestartIsRecorded`, `WaiverDecisionIsRecorded` | 491,833 |
| `background_work` | 2 students, Focal Person, 2 HoDs, a clock of up to 6 half days, 1 death of the worker, 4 events, 2 tokens, 2 semesters; six starting points | `BackgroundTypeOK`, `EscalationIsDue`, `NobodyToldTwice`, `OneOpenSemester`, liveness `BreachIsEscalated`, `BoundaryStudentGetsCase` | 205,280 |
| `accounts` | 2 addresses, 2 slots, 2 passwords, limits and threshold 2, 2 registration numbers, 2 files, 2 documents, at most 1 death; six starting points | `AccountsTypeOK`, `ThresholdLocks`, `ResetLinksAgree`, `StudentCanSignIn`, `ConfirmedArchiveIsPurged`, liveness `RefusalEnds` | 215,230 |

Four more runs check one documented statement each and find it violated:

| Run | Statement | What happens |
|---|---|---|
| `reopened_pass` | BR-15, `MASTER_PROMPT.md:198`, a `CLOSED_PASS` case can never be reopened | two awards read GRADE_RECOMMENDED; one closes the case with a pass, the other then closes it incomplete |
| `same_awarder` | BR-12, `MASTER_PROMPT.md:195`, the same account never recommends and awards | A recommends, B's recommendation is denied but replaces the recorded recommender, A awards |
| `unverified_evidence` | BR-11, `MASTER_PROMPT.md:194`, each deliverable is verified | a denied resubmission replaces the verified offer letter of a verified case |
| `unapproved_plan` | BR-08, `MASTER_PROMPT.md:189`, 4 to 8 weeks, recorded at approval | a denied second approval replaces the dates of an internship under way |

`same_awarder`, `unverified_evidence` and `unapproved_plan` need no overlap: one
request after another is enough. `reopened_pass` needs two calls of the executor
that overlap on one case, and then the case's events show it
(`ReopeningsAreOnRecord`).

Six more statements of the repository are false of the code, too. They are not
among the runs of `PROJECT.json`, which keeps those about what is judged and signed
on a case; each has its property and a configuration that shows the
counterexample in seconds (`tlc -config <cfg> <module>`):

| Configuration (module), property | Statement | What happens |
|---|---|---|
| `MCGradeDisagrees.cfg` (`MCGrading`), `GradeAgreesWithState` | `docs/modules/M09.md:152`, the award creates the grade and fires row 12 or 13 by its value | two awards overlap; the case shows the closure of the later commit, the grade is that of the earlier insert |
| `MCEarlyEscalation.cfg` (`MCBackgroundWork`), `EscalationAfterWorkingDays` | BR-27, `MASTER_PROMPT.md:219`, pending beyond `SLA_DAYS` working days | on a Saturday or a holiday, until midnight, what has passed of the day counts as working time |
| `MCEveryHod.cfg` (`MCBackgroundWork`), `EveryHodIsTold` | `server/sla/service.ts:41`, one escalation per HoD | the worker dies after the first HoD's row, and each later sweep takes the case for escalated |
| `MCSecondDeadline.cfg` (`MCBackgroundWork`), `MissedDeadlineIsFlagged` | `server/roster/deadline-sweep.ts:92`, deduplicated by deadline, not by case | a case misses the deadline of a second semester and its row about the first one silences the sweep |
| `MCOneTimeLink.cfg` (`MCAccounts`), `LinkIsUsedOnce` | `server/auth/password-reset.ts:6`, a one-time link | two requests judge a link live, and both use it |
| `MCImportOverwrites.cfg` (`MCAccounts`), `ImportKeepsPasswords` | `server/roster/csv-import.ts:223`, never overwriting a password in real use | a student sets a password through a link between the import's check and its write |

The first needs two overlapping awards, and the events show it too
(`GradeDisagreementsAreOnRecord`); the second and the fourth need no overlap. The
two liveness counterexamples, of `EveryHodIsTold` and `MissedDeadlineIsFlagged`,
hold under the fairness below: the sweeps run for ever.

Where the code finishes in one request what another row or the next state needs,
there are two properties: that the follow-up *is in somebody's hands* as long as
it is missing (an invariant: `TransientCasesMoveOn`, `CompleteEvidenceIsHeld`,
`ClosuresAreBeingGraded`, `DecisionsAreBeingRecorded`), and that it *comes*
(liveness). The first is proved, the second is model-checked under fairness.

### Bounds

`MaxHistory` and `MaxEvents` stop new requests about a case once it has that many
events (the chained transitions of an accepted request still run);
`MaxDocuments`, `MaxTokens`, `MaxRestarts`, `MaxArchives` bound the rows,
`MaxTime` and the start's `until` the clock, `MaxCrashes` and `crashes` the deaths, `MaxAttempts` and
`calls` the counters. They stop the system when reached, hence
`CHECK_DEADLOCK FALSE` everywhere: a portal whose users stop asking rests too.

* Two slots are what every race here takes: one call between its check and its
  write, another that changes what was checked. Three slots exceed the time
  the runs have; the executor's own invariants are proved for any number.
* 13 events take one case from opening to a grade with one rejection and
  resubmission to spare (11 without). `deliverables`, `grading` and
  `exception_paths` start from a case that a prefix of that path has produced, so
  that two slots stay affordable; `normal_path` reaches those states from the
  beginning. It has one slot: what it adds to the runs with two is the length of
  the path, denied requests and crashes between any two steps; overlap on the
  whole path is what `PassesAreEarned` is proved for.
* Three documents are a letter, a certificate and one replacement of either; two
  tokens are one and its reissue.
* Two cases of one student are what BR-06 can be violated with, and what a
  restart or a waiver after a failed case needs.
* The contexts of `any_caller` satisfy one of an approval's two guards, or all
  guards: a partial context is told from a complete one.
* `exception_paths` has a restart cap of one, and starts no request for a restart
  once a row of them exists: two that overlap still both leave one. One account is both
  Focal Person and HoD, which is what two-signer rules are about.
* `background_work` and `accounts` begin at one of several starting points
  (`Starts`), each with the queues or requests that work on one part of the
  state, because the parts share little and their product is large: SLA
  escalation of a case that is resubmitted meanwhile, and of two cases one of
  which may be rejected; mail of moves that overlap; one supervisor's tokens;
  deadlines that an Admin changes; semesters that open twice while two sweeps and a student's own request enrol; logins
  against disabling; logins against a reset; imports against staff accounts and
  role edits; an import against a link; two links at once; archives that overlap.
  The next-state relation is the same for all of them.
* The service levels are one day each, the clock has two parts of a day, and the
  second of three days is a non-working one: a stay can breach, be left, entered
  again and breach again within the clock, and begin or be looked at in the middle
  of a working or a non-working day. Each starting point has a clock as long as
  its question takes (`until`).

### Fairness

Liveness assumes, per slot, weak fairness of the steps the server takes in a
request it has accepted (`OfferServer`, `DeliverableServer`, `GradingServer`,
`ExceptionServer`, `ServerStep`, `AdminStep`): Node resumes a handler when the
call it awaits answers. `BackgroundSpec` adds weak fairness of each queue: its
schedule repeats, it has a worker of its own, and the container of a worker that
died is restarted; nothing is assumed of a queue whose schedule did not reach
Redis. `AccountSpec` adds that Redis drops a key that has an expiry. Nothing is
assumed of people or of the clock: they need not ask for anything.

The case runs with liveness have no `Crash`, because the code has no job that
takes up a request that died: after a crash a case may stay in
`ELIGIBILITY_PENDING`, `OFFER_SUBMITTED`, `APPROVED`, `DOCS_PENDING` or
`WAIVER_REQUESTED` without a waiver, or be closed without a grade. Crashes are in
`any_caller` and `normal_path`, where safety holds in spite of them, and in
`background_work` and `accounts`: sweeps begin again, so `BreachIsEscalated` and
`BoundaryStudentGetsCase` survive the worker's death, while `RefusalEnds` is
stated for processes that do not die between INCR and EXPIRE.

## What is proved

Each module of proofs stands on one specification and holds for every value of
the constants its assumptions allow: any number of students, staff, cases,
requests, rows and deaths. The assumptions are what a deployment has anyway.
Roles are sets of roles, the system is not a person, each case has one owner and
bounds are numbers (`ConstantsOK`, `OwnersOK`, `ContextsOK`, `NotificationsOK`,
`SlaOK` and the like); the labels and guards a service uses are among those of
the executor (`OfferLabelsOK`, `RestartLabelsOK`, ...); requests of the web
process are not queues (`QueuesOK`); files are sequences of rows (`FilesOK`), the
lockout threshold is not zero (`AccountsOK`); and a behaviour that begins in the
middle begins where its prefix may have led (`PastOK`, `BackgroundOK`, and
`StartsOK`: an account at the threshold has been locked). TLC evaluates
each assumption in the runs.

`ExecutorProofs` holds the lemmas about the executor that three of the modules
share: one per kind of step, whatever service takes it (`InsertKeepsCore`,
`CallKeepsCore`, `CommitKeepsCore`, ..., and `DeleteKeepsCore` for a waiver
whose evidence is refused, which deletes the case it opened). Its invariant comes in two strengths.
`CoreInv` holds whichever services call; `IInv` adds that the case a waiting call
is about exists, which holds when no service deletes a case.

### The executor (`AnyCallerProofs`), of `AnyCaller!Spec`

| Theorem | Property |
|---|---|
| `Invariance` | `[]IInv` |
| `TypeCorrectness` | `[]TypeOK` |
| `OneActiveCasePerStudent` | `[]OneActiveCase` (BR-06) |
| `EventsArePermitted` | `[]EventsPermitted` (BR-25) |
| `HistoryIsFaithful` | `[]HistoryExplainsState` |
| `StagesAreNotSkipped` | `[]NoStageSkipped` |
| `WaitingCallsAreJustified` | `[]CallsInFlight` |
| `LifecycleIsImplemented` | refinement of `CaseLifecycle!Spec` |

What makes `IInv` inductive is `CallsInFlight`: between the check and the
commit the state may change under a call, so "the state is still the one I read"
is not an invariant. What survives is that the case *has been* in that state,
and that the table permits the step to the caller. `HistoryExplainsState` and
`NoStageSkipped` then follow for the overwritten state too: the stages a case
has been in are closed under "everything the table puts before" (`MUST_FOLLOW`),
and a row of the table keeps them closed (`MoveKeepsClosure`). `OneActiveCase`
survives because the index is asked at the commit, not at the check.

### The normal path (`NormalPathProofs`), of `NormalPathSpec`

| Theorem | Property |
|---|---|
| `NormalPathIsSafe` | `[]NormalPathInv` |
| `OfferTypes`, `DeliverablesTypes`, `GradingTypes` | `[]OfferTypeOK`, `[]DeliverablesTypeOK`, `[]GradingTypeOK` |
| `LettersStayOnFile` | `[]OfferLetterOnFile` (BR-07) |
| `LinksAreUnique` | `[]OneLiveToken` |
| `DeliverablesPrecedeVerification` | `[]DeliverablesBeforeVerification` (BR-10) |
| `VerificationsAreEvidence` | `[]EvidenceWasVerified` (BR-11) |
| `GradesBackClosures` | `[]GradeBacksClosure` (BR-12) |
| `PassesAreEarned` | `[]PassIsEarned` |
| `GradesStay` | `GradesAreImmutable`, an action property (BR-14) |
| `EvidenceAccumulates` | `[][Grows]_normalPathVars` |
| `NormalPathImplementsLifecycle` | refinement of `CaseLifecycle!Spec` |
| `SteadyDayIsSafe` | `[]SteadyInv`, of `SteadySpec` |
| `ChainedStepsAreHeld` | `[]TransientCasesMoveOn`, of `SteadySpec` |
| `GradesAreHeld` | `[]ClosuresAreBeingGraded`, of `SteadySpec` |

No service locks anything while it awaits, so `NormalPathInv` rests on
monotonicity. `Earned(c, s)` is what a case must have to be in state `s`; it is
made of facts that no step takes back (`Grows`: an active document may be
superseded, but then another one is active). So what a suspended request has made
sure of (`LocalsOK`, by its label, its own locals and the executor's) stays true
while others run, what a call waits to commit is earned, and hence each state a
case has been in is (`StatesAreEarned`). One live link per case needs the index
as well: a request that revokes sees only the links of before. Each action has a
lemma that it keeps the tables, the requests and `Grows`. The runs `offer_path`,
`deliverables` and `grading` check these properties of the three groups alone,
with two overlapping requests; the theorems are of their composition.

The last three are about days on which no process dies: `SteadySpec` is
`NormalPathSpec` without `Crash`, since a request that dies between two writes
does leave a case that nobody moves on. `CallersKnow` says what the service that
calls the executor has arranged to go on to: who moves a case to
`OFFER_SUBMITTED`, `APPROVED` or a closure comes back at the label that moves it
on or grades it, with the case in its own locals. So the follow-up changes hands
only from the call to the service. An award's INSERT may meet the unique index,
and then the case has a grade; the one that closes a case never refuses to
insert, because who recommended is not who awards (its last conjuncts).

### Ordered events (`OrderedEventsProofs`), of `AnyCaller!Spec` and `NormalPathSpec`

| Theorem | Statement |
|---|---|
| `ReopeningsAreOnRecord` | `AnyCaller!Spec`: `[]ClosedInOrder`, and a step that takes a case out of `CLOSED_PASS` leaves events that do not chain |
| `NormalPathClosesInOrder` | `NormalPathSpec`: `[]ClosedInOrder` |
| `GradeDisagreementsAreOnRecord` | `NormalPathSpec`: `[]DisagreementShowsInEvents` |
| `CompleteEvidenceIsWaitedFor` | `SteadySpec`: `EvidenceIsHeld(c)` always, of each case that was not set back |

Some properties are false of the code as it is, whatever the services do, because
the executor's UPDATE has no condition on the state it read: a pass may be
reopened (`reopened_pass`), and a grade may contradict its case
(`GradeAgreesWithState`). These theorems say what is left of them, with any number of
overlapping requests and deaths: none of it is silent. The UPDATE and the event
are one transaction, and the event keeps the state that was read; so when a case
was overwritten, one of its events does not start where the one before it ended,
and `EventsChain` is a query on `case_events` that finds every such case.

If the events of a case still chain after a commit, the call had read the state
its case was in (`ChainedCommit`); the table has no way from a closed case back
to a recommended one (`NoWayBack`); so such a case closes once, and the grade,
whose closure is among the events (`GradeBacksClosure`), is of that one.

`CompleteEvidenceIsHeld` is false on the whole path for another reason, which the
proof brought up. Two approvals that overlap both start the internship; if the
second is suspended at that call until the internship is over, it sets the case
back to `IN_PROGRESS` just when the last piece of evidence arrives, whose advance
is denied and swallowed; the student completes the internship again, and nothing
is left to arrive. `NotSetBack` says that no event leads a case from completion
to before it. Of such a case the property holds: a supervisor's link is only
given out after completion (`LinksFollowCompletion`, part of `NormalPathInv`), so
the completion never finds all the evidence there; each later piece is stored by
a request that goes on to advance the case, and that request lets go of it only
when it has moved or a piece is still missing (`LeavesNothing`). The run
`deliverables` starts from `IN_PROGRESS`, with no approval in it, and so satisfies
the property with overlapping calls.

### The exception paths (`ExceptionProofs`), of `ExceptionSpec`

| Theorem | Property |
|---|---|
| `ExceptionsAreSafe` | `[]ExceptionInv` |
| `ExceptionTypes` | `[]ExceptionTypeOK` |
| `ExceptionsKeepOneActiveCase` | `[]OneActiveCase` (BR-06) |
| `RestartsHaveTwoSigners` | `[]RestartHasTwoSigners` (BR-17, BR-20) |
| `AuthorizedRequestsHaveNewCases` | `[]AuthorizedRequestHasNewCase` (BR-19) |
| `GraduationsAreEarned` | `[]GraduationIsEarned` (BR-03, BR-21) |
| `SignaturesAccumulate` | `[][Grows]_exceptionVars` |
| `RestartsAreRecorded` | `[]RestartsAreBeingRecorded` |
| `WaiversAreSigned` | `[]WaiversAreBeingSigned` |
| `DecisionsAreRecorded` | `[]DecisionsAreBeingRecorded`, both together |

The row of a request or waiver and the case it is about are written apart, so the
invariant ties them through the requests that are under way: a suspended request
carries whom it acts for and which row and case belong together (`LocalsOK`), and
a call that moves a case to a decision carries the signature the decision needs.
Events are never taken back, and a case is deleted only by the waiver that opened
it, while it has no event; so nothing that counts points at it. A new case gets its
predecessor in the transaction that inserts it.

`RestartsAreBeingRecorded` and `WaiversAreBeingSigned` say of each moved case
that its row exists or that a request is about to write it (no process dies in
`ExceptionSpec`). The caller has arranged to go on to that write (`CallsGoOn`),
each event has its row or its writer (`RecordsFollow`, `SignaturesFollow`), and
no step takes back a row or a signature. Both theorems assume that no case had
such an event when the behaviour began (`PastWithout`): requests and waivers are
empty then, and the run's failed case satisfies it.

### The worker (`BackgroundProofs`), of `BackgroundSpec`

| Theorem | Property |
|---|---|
| `BackgroundIsSafe` | `[]BackgroundInv` |
| `BackgroundTypes` | `[]BackgroundTypeOK` |
| `EscalationsAreDue` | `[]EscalationIsDue` (BR-27, BR-28) |
| `EveryoneIsToldOnce` | `[]NobodyToldTwice` |
| `SemestersAreApart` | `[]OneOpenSemester` |

A sweep checks a list that is out of date, and dies between two recipients. What
makes it right is that each queue writes its own jobs and its own templates:
`StepKeepsTypes` shows that a step is taken by a queue (`Takes`) or leaves its job
and its rows alone (`Rests`), and each queue has an invariant of its own.
`EscalationInv`: a row about an event is younger than the event's `seen`, so an
event without a younger row was told to nobody, and what is being sent is still
news (`SendsNews`). `ReminderInv`: the list shows each live token as it is, because
only this job counts; a reminder is counted after it was mailed, so a token with
two has both mails behind it, and a report about it is younger than its `seen`.
`MailInv`: while no worker died, what waits and what is being sent is known to
nobody. `AtMostOneOpen` says of any two open semesters that they are equal, since
the cardinality of a set not known to be finite says nothing. Clock, escalations
and events only grow (`StepGrows`), so what was overdue stays overdue
(`BreachesLast`).

### Accounts, imports and archives (`AccountProofs`), of `AccountSpec`

| Theorem | Property |
|---|---|
| `AccountsAreSafe` | `[]AccountsInv` |
| `AccountTypes` | `[]AccountsTypeOK` |
| `LockIsNeverMissed` | `[]ThresholdLocks` |
| `OneLiveLink` | `[]ResetLinksAgree` |
| `ImportedStudentsSignIn` | `[]StudentCanSignIn` |
| `ConfirmedMeansPurged` | `[]ConfirmedArchiveIsPurged` |

A suspended request writes to what it has read before: a row of users, a link, a
row of its file, the documents of its archive. `Shape` is what a request looks
like at each label, and `AccountThere`, `RowThere` and `PurgeThere` are what it
relies on. No step takes any of it away (`UsersKept`, `LinksKept`, `DocsKept`), so
`StillThere` carries it over the steps of others, and each action has a lemma
about the one row it writes and the label it goes to. The properties are then
inductive beside each other. `ThresholdLocks`: who counts an attempt up to the
threshold is next at the label that locks, and a step that lets that request go
has locked. `ResetLinksAgree`: the INSERT is refused unless every live link has
been revoked, and a link goes to *used* in the transaction that moves
`tokenVersion`, so a link used twice moves it twice. `StudentCanSignIn`: a
student is made after its account has a password, which nobody takes back, and the
DELETE of a role edit sees staff roles only. `ConfirmedArchiveIsPurged`: an archive
gets documents only when it is made, before a purge can list them, so each
document it has and that is not purged is on the list of every purge of it.

### The progress line (`ProgressLineProofs`)

| Theorem | What it says |
|---|---|
| `EveryStateIsDrawn` | each state is at one step or has a banner, never both: `computeProgressLine()` never throws |
| `TerminalIsShown` | the page's final states are the executor's `TERMINAL_CASE_STATES` |
| `LineAdvancesByStep` | a row of the table goes on by at most one step; back only by a rejected offer |
| `ProgressLineIsTrue` | of `AnyCaller!Spec`: each step from the second on that is drawn as done has been taken |

The last follows from `NoStageSkipped`: the step of every stage the closure puts
before the shown one has been taken (`ClosureGivesSteps`). The first step is
excepted, because a sweep opens cases at the second.

### Only model-checked

* Liveness under fairness (`TransientStatesPass`, `CompleteEvidenceAdvances`,
  `ClosureGetsGrade`, `RestartIsRecorded`, `WaiverDecisionIsRecorded`,
  `BreachIsEscalated`, `BoundaryStudentGetsCase`, `RefusalEnds`) and `ENABLED`,
  which are beyond the prover. For the first five, the theorems above prove the
  invariant half: while it has not happened, some request is about to do it.
* Facts that need an induction principle over data, and anything in a module with
  `RECURSIVE` operators; the modules use none of these.
* `CompleteEvidenceIsHeld` itself, from `IN_PROGRESS` on; the theorem is of
  cases that were not set back.

The violated statements are not theorems, of course. Every other invariant and
action property of a passing run is stated by a theorem, `CompleteEvidenceIsHeld`
with the hypothesis above. The type invariants of the services (`OfferTypeOK`,
`DeliverablesTypeOK`, `GradingTypeOK`, `ExceptionTypeOK`) are proved and not
repeated in the runs.

## Not modelled

* Department scoping on the normal path. It narrows who may act, so each
  behaviour it allows is a behaviour of the model; on the exception paths
  `InScope` is a guard.
* What the arithmetic guards compute (weeks between dates, semesters left, the
  similarity of company names): a guard holds of a request or it does not.
* The clock outside the sweeps. A supervisor's token and a reset link may expire
  at any time; a submission that is refused changes no row and is not an action.
* Uploads that a check or the virus scanner refuses: nothing is written before
  these checks pass (a waiver's evidence excepted, whose refusal is
  `WaiverUndo`). Checksums, the zip of an archive, mail, layout, pages.
* The audit rows: written beside the state, never read back by a service. The
  roles of the Admins who call the account and semester routes: they are assumed.
* The weekly progress log (one INSERT behind a unique index), the editing of
  departments, holidays and company names: rows that are displayed, or that
  other models take as constants. Companies that two submissions create twice.
* The HoD's digest, the mail that announces a new waiver, and the SENT or FAILED
  status of a notification: nothing reads them back.
* Two workers at once during a deployment. Each queue has one; two could both
  pass the look-up before either row is written. The deadline sweep takes five
  cases at a time; the model takes one, as they touch rows of their own.
* Sessions: a request reads the roles of its user afresh. Password hashing.
