----------------------------- MODULE MCJobQueue -----------------------------
(* JobQueue over a few evaluations and submitters. *)
EXTENDS JobQueue, TLC

CONSTANTS f1, f2, f3, s1, s2, s3

\* Two submitters with an evaluation each, which may be exchanged.
MCPair == {[fingerprint |-> s, submitter |-> s] : s \in {s1, s2}}
MCSymmetry == Permutations({s1, s2})

\* Enough submitters to fill the queue, and one with a second evaluation to ask for.
MCCrowd ==
    {[fingerprint |-> f1, submitter |-> s1],
     [fingerprint |-> f2, submitter |-> s1],
     [fingerprint |-> f2, submitter |-> s2],
     [fingerprint |-> f3, submitter |-> s3]}
=============================================================================
