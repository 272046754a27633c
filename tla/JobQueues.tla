------------------------------- MODULE JobQueues -------------------------------
(***************************************************************************)
(* The worker process (worker/index.ts) and its BullMQ queues              *)
(* (src/server/jobs/queue.ts).  Each queue has one Worker that runs one job *)
(* at a time; the five periodic ones get a job again and again once their   *)
(* schedule is registered.  A job is cut where it writes: it reads its list *)
(* (todo), then takes the items one by one.  The worker may die; what its   *)
(* jobs had written stays, and the schedules survive in Redis.             *)
(***************************************************************************)
EXTENDS Naturals

CONSTANTS
  WebTask,      \* slots for the Admin requests that run such work in the web process
  MaxCrashes    \* bound on the deaths of the worker

\* The hod-digest queue is left out: it writes only rows nobody reads back.
PeriodicQueue == {"roster-sweep", "sla-escalation-sweep", "supervisor-reminder-sweep",
                  "deadline-sweep"}
QueueName == PeriodicQueue \cup {"case-notifications"}
Task == QueueName \cup WebTask

ASSUME QueuesOK == MaxCrashes \in Nat /\ WebTask \cap QueueName = {}

VARIABLES
  registered,   \* the schedules registerSchedules() got into Redis (and
                \* case-notifications, when the web process reaches Redis)
  bounds,       \* of this behaviour: how far it goes; see BackgroundWork
  job,          \* the job each queue's worker, or each Admin request, is running
  clock,        \* the time, in parts of a day; see SlaSweeps
  crashes

jobVars == <<registered, bounds, job, clock, crashes>>

Idle == [at |-> "idle"]

At(q, label) == job[q].at = label

\* A Worker takes a job: now is read once, before the job reads its list.
Begin(q, items) ==
  /\ At(q, "idle")
  /\ job' = [job EXCEPT ![q] = [at |-> "next", todo |-> items, now |-> clock]]
  /\ UNCHANGED <<registered, bounds, clock, crashes>>

\* The job has handled item and goes on with the next one.
Skip(q, item) == job' = [job EXCEPT ![q].todo = @ \ {item}]

End(q) == job' = [job EXCEPT ![q] = Idle]

\* The sweep returns its result.
Finish(q) ==
  /\ At(q, "next") /\ job[q].todo = {}
  /\ End(q)
  /\ UNCHANGED <<registered, bounds, clock, crashes>>

Tick == clock' = clock + 1 /\ UNCHANGED <<registered, bounds, job, crashes>>

\* The container of the worker is killed, with all its jobs, and started again.
WorkerDies ==
  /\ crashes < MaxCrashes
  /\ \E q \in QueueName : ~At(q, "idle")
  /\ crashes' = crashes + 1
  /\ job' = [q \in Task |-> IF q \in QueueName THEN Idle ELSE job[q]]
  /\ UNCHANGED <<registered, bounds, clock>>

JobsInit == /\ job = [q \in Task |-> Idle]
            /\ clock = 0
            /\ crashes = 0
================================================================================
