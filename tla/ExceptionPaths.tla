----------------------------- MODULE ExceptionPaths -----------------------------
(***************************************************************************)
(* The exceptions to the normal path on the same cases and executor: the   *)
(* restart gate, the waiver path and withdrawal, for students who have      *)
(* nothing yet or a case that was closed as incomplete.                    *)
(***************************************************************************)
EXTENDS RestartGate, WaiverPath

CONSTANT Past    \* Past[c]: the events of case c before the behaviour begins

PastStates(h) == IF h = <<>> THEN {} ELSE {h[1].from} \cup {h[i].to : i \in DOMAIN h}

Ongoing(h) == h # <<>> /\ h[Len(h)].to \notin TERMINAL_CASE_STATES

\* A past the executor can have left (its IInv), with no restart in it yet.
ASSUME PastOK ==
  /\ Past \in [Case -> Seq(Event)]
  /\ \A c \in Case : LET h == Past[c] IN
       /\ h # <<>> => h[1].from \in GENESIS_STATES
       /\ \A i \in DOMAIN h : /\ Permitted(h[i]) /\ h[i].to # "RESTART_AUTHORIZED"
                              /\ h[i].from = h[1].from \/ \E j \in 1..(i - 1) : h[j].to = h[i].from
       /\ \A m \in MUST_FOLLOW : m[1] \in PastStates(h) => m[2] \in PastStates(h)
  /\ \A c, d \in Case : c # d /\ OwnerOf[c] = OwnerOf[d] => ~(Ongoing(Past[c]) /\ Ongoing(Past[d]))

exceptionVars == <<coreVars, documents, restartVars, waivers>>

ExceptionInit ==
  /\ history = Past
  /\ state = [c \in Case |-> IF Past[c] = <<>> THEN NoCase ELSE Past[c][Len(Past[c])].to]
  /\ pc = [r \in Request |-> "idle"]
  /\ tx = [r \in Request |-> NoTx]
  /\ frame = [r \in Request |-> NoFrame]
  /\ DocumentsInit /\ RestartInit /\ WaiverInit

\* withdrawCase(), as in OfferPath.
Withdraw(r, c) ==
  /\ Accepts(r, c)
  /\ BeginTransition(r, c, "WITHDRAWN", StudentOf(c), FALSE, {}, "idle")
  /\ UNCHANGED frame

ExceptionRequest(r) ==
  \/ RestartRequests(r) /\ UNCHANGED <<documents, waivers>>
  \/ WaiverRequests(r) /\ UNCHANGED restartVars
  \/ \E c \in Case : Withdraw(r, c) /\ UNCHANGED <<documents, restartVars, waivers>>

ExceptionServer(r) ==
  \/ RestartStep(r) /\ UNCHANGED <<documents, waivers>>
  \/ WaiverStep(r) /\ UNCHANGED restartVars
  \/ ExecutorStep(r) /\ UNCHANGED <<documents, restartVars, waivers>>

ExceptionNext == \E r \in Request : ExceptionRequest(r) \/ ExceptionServer(r)

\* Node keeps running the continuations of a request it has accepted.
ExceptionSpec == /\ ExceptionInit
                 /\ [][ExceptionNext]_exceptionVars
                 /\ \A r \in Request : WF_exceptionVars(ExceptionServer(r))

\* Every table keeps its type.
ExceptionTypeOK == TypeOK /\ RestartTypeOK /\ WaiverTypeOK

\* Both paths move a case and then write a row of their own about it: no decision
\* that a case shows is without its row, or without the request that is about to
\* write it, whichever decisions overlap.
DecisionsAreBeingRecorded == RestartsAreBeingRecorded /\ WaiversAreBeingSigned
================================================================================
