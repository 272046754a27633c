------------------------------- MODULE AnyCaller -------------------------------
(***************************************************************************)
(* The executor on its own: case rows are inserted in any genesis state and *)
(* any actor asks for any transition, with or without a reason and with any *)
(* of the contexts, in every slot at once.  Whatever holds here holds for   *)
(* every service that changes a case's state only through the executor.     *)
(***************************************************************************)
EXTENDS CaseExecutor

CONSTANT Contexts    \* the contexts callers pass, each a set of satisfied guards

ASSUME ContextsOK == Contexts \subseteq SUBSET GuardName

Create(c) ==
  /\ \E s \in GENESIS_STATES : InsertCase(c, s)
  /\ UNCHANGED <<history, pc, tx, frame>>

Call(r) ==
  /\ pc[r] = "idle"
  /\ \E c \in Case :
       /\ Exists(c) /\ Len(history[c]) < MaxHistory[c]
       /\ \E to \in CaseState :
            /\ ~IllegalTransition(c, to)   \* an illegal call is denied, without effect
            /\ \E actor \in Actor, reason \in BOOLEAN, ctx \in Contexts :
                 BeginTransition(r, c, to, actor, reason, ctx, "idle")
  /\ UNCHANGED frame

Next ==
  \/ \E c \in Case : Create(c)
  \/ \E r \in Request : Call(r) \/ ExecutorStep(r) \/ Crash(r)

Spec == CoreInit /\ [][Next]_coreVars
================================================================================
