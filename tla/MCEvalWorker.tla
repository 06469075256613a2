---------------------------- MODULE MCEvalWorker ----------------------------
(* EvalWorker over three requests of three submitters, one of which cannot be loaded. *)
EXTENDS EvalWorker

CONSTANTS f1, f2, f3, s1, s2, s3, t1, t2

MCUnloadable == {[fingerprint |-> f3, submitter |-> s3]}

MCRequests ==
    MCUnloadable \cup
    {[fingerprint |-> f1, submitter |-> s1],
     [fingerprint |-> f2, submitter |-> s2]}

\* One job is evaluated at a time: a second task is for what the first left behind.
MCTasks == {t1, t2}
=============================================================================
