------------------------------ MODULE Settlement ------------------------------
(***************************************************************************)
(* What the background delivery outbox promises, without leases, clocks or *)
(* workers: a settlement that was recorded is owed to its parent until it  *)
(* is delivered; it is delivered only after a parent turn that was woken   *)
(* for it succeeded; delivered is final.                                   *)
(***************************************************************************)
CONSTANT Task

VARIABLES
    promise,      \* "none" -> "owed" -> "delivered"
    heard         \* tasks some parent turn was successfully driven for

vars == <<promise, heard>>

Init ==
    /\ promise = [t \in Task |-> "none"]
    /\ heard = {}

Owe(t) ==
    /\ promise[t] = "none"
    /\ promise' = [promise EXCEPT ![t] = "owed"]
    /\ UNCHANGED heard

\* A parent turn woken for an owed settlement succeeds (at least once).
Hear(t) ==
    /\ promise[t] # "none"
    /\ heard' = heard \cup {t}
    /\ UNCHANGED promise

Deliver(t) ==
    /\ promise[t] = "owed"
    /\ t \in heard
    /\ promise' = [promise EXCEPT ![t] = "delivered"]
    /\ UNCHANGED heard

Next == \E t \in Task : Owe(t) \/ Hear(t) \/ Deliver(t)

Spec == Init /\ [][Next]_vars
=============================================================================
