----------------------------- MODULE CaseLifecycle -----------------------------
(***************************************************************************)
(* What the state machine of a case promises, with no processes, no        *)
(* transactions and no requests: a case row appears in a genesis state,    *)
(* then changes state along rows of TRANSITIONS.                           *)
(*                                                                         *)
(* A move starts from a state the case HAS BEEN in, not always from the one *)
(* it IS in: executeTransition() reads the state outside the transaction    *)
(* that writes it, so requests that overlap promise no more than that.      *)
(***************************************************************************)
EXTENDS TransitionTable

CONSTANTS Case, OwnerOf, NoCase

VARIABLES status,   \* status[c]: the state of case c, NoCase while there is no row
          entered   \* entered[c]: every state case c has been in

vars == <<status, entered>>

Active(c) == status[c] # NoCase /\ status[c] \notin TERMINAL_CASE_STATES

\* BR-06, as the next state must satisfy it.
OneActivePerStudent ==
  \A c, d \in Case : c # d /\ OwnerOf[c] = OwnerOf[d] => ~(Active(c) /\ Active(d))

Init == /\ status = [c \in Case |-> NoCase]
        /\ entered = [c \in Case |-> {}]

Enter(c, s) == /\ status' = [status EXCEPT ![c] = s]
               /\ entered' = [entered EXCEPT ![c] = @ \cup {s}]

Create(c) == /\ status[c] = NoCase
             /\ \E s \in GENESIS_STATES : Enter(c, s)

Move(c) == \E t \in TRANSITIONS : t.from \in entered[c] /\ Enter(c, t.to)

Next == \E c \in Case : (Create(c) \/ Move(c)) /\ OneActivePerStudent'

Spec == Init /\ [][Next]_vars
================================================================================
