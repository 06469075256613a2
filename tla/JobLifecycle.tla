---------------------------- MODULE JobLifecycle ----------------------------
(***************************************************************************)
(* What the queue and its worker promise a submitter: a job is pending     *)
(* until the worker starts it, an evaluation that is lost puts it back in  *)
(* the queue, only an evaluation gives it an outcome, and an outcome is    *)
(* never taken back.                                                       *)
(***************************************************************************)
EXTENDS Naturals

CONSTANT Jobs

VARIABLE status

Statuses == {"none", "pending", "evaluating", "finished", "failed"}

Move(S, from, to) ==
    /\ S # {}
    /\ \A j \in S : status[j] = from
    /\ status' = [j \in Jobs |-> IF j \in S THEN to ELSE status[j]]

Submit(j) == Move({j}, "none", "pending")
Start(S) == Move(S, "pending", "evaluating")
Requeue(S) == Move(S, "evaluating", "pending")
Settle(j) == Move({j}, "evaluating", "finished") \/ Move({j}, "evaluating", "failed")

Init == status = [j \in Jobs |-> "none"]

Next ==
    \/ \E j \in Jobs : Submit(j) \/ Settle(j)
    \/ \E S \in SUBSET Jobs : Start(S) \/ Requeue(S)

Spec == Init /\ [][Next]_status
=============================================================================
