---------------------------- MODULE RunAttempts ----------------------------
(***************************************************************************)
(* What the fleet controller promises of every planned run: it is tried    *)
(* until an attempt completes, one attempt at a time and a bounded number  *)
(* of times, and what an attempt came to stands.                           *)
(***************************************************************************)
EXTENDS Naturals

CONSTANTS Runs, MaxAttempts

VARIABLES tries, outcome
attempts == <<tries, outcome>>

Init ==
    /\ tries = [r \in Runs |-> 1]
    /\ outcome = [r \in Runs |-> "open"]

Attempt(r, result) ==
    /\ outcome[r] = "open"
    /\ outcome' = [outcome EXCEPT ![r] = result]
    /\ UNCHANGED tries

Rerun(r) ==
    /\ outcome[r] = "failed"
    /\ tries[r] < MaxAttempts
    /\ tries' = [tries EXCEPT ![r] = @ + 1]
    /\ outcome' = [outcome EXCEPT ![r] = "open"]

Next ==
    \E r \in Runs : Rerun(r) \/ \E result \in {"completed", "failed"} : Attempt(r, result)

Spec == Init /\ [][Next]_attempts
=============================================================================
