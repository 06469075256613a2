----------------------------- MODULE QueueLock ------------------------------
(***************************************************************************)
(* The asyncio.Lock of JobQueue as the deployed program uses it: the       *)
(* worker's coroutines run on one event loop in its thread, and every      *)
(* submission of the Gradio app runs under asyncio.run, on a loop and in a *)
(* thread of its own.  The lock is CPython 3.11's: it serves one loop,     *)
(* binds itself to the first loop that has to wait, and wakes a waiter by  *)
(* scheduling a callback on the waiter's loop, which does not wake that    *)
(* loop's thread.  Two threads never run inside acquire at the same time   *)
(* here, so the test and the set of the uncontended path are one step.     *)
(***************************************************************************)
EXTENDS Naturals, Sequences

CONSTANTS
    Coroutines,   \* the worker's coroutines that call the queue, the polling loop among them
    Poller,       \* the polling loop's
    Submissions,  \* bound: the app's calls of asyncio.run(queue.submit(request))
    WorkerLoop,   \* the event loop of the worker's thread
    NoLoop        \* these two are no submissions

Callers == Coroutines \cup Submissions
LoopOf(c) == IF c \in Coroutines THEN WorkerLoop ELSE c

VARIABLES
    locked,   \* Lock._locked
    waiters,  \* Lock._waiters, the callers whose futures are in it
    done,     \* the callers whose futures have a result
    bound,    \* Lock._loop
    at,       \* where each caller is
    asleep    \* submissions whose thread blocks in select with nothing to wake it

vars == <<locked, waiters, done, bound, at, asleep>>

Positions == {"idle", "waiting", "holding", "raised", "returned"}

-----------------------------------------------------------------------------
Move(c, p) == at' = [at EXCEPT ![c] = p]

\* With the lock free and nobody waiting, acquire looks at no loop.
Uncontended == ~locked /\ waiters = <<>>

AcquireAtOnce(c) ==
    /\ at[c] = "idle"
    /\ Uncontended
    /\ locked' = TRUE
    /\ Move(c, "holding")
    /\ UNCHANGED <<waiters, done, bound, asleep>>

AcquireWaits(c) ==
    /\ at[c] = "idle"
    /\ ~Uncontended
    /\ bound \in {NoLoop, LoopOf(c)}
    /\ bound' = LoopOf(c)
    /\ waiters' = Append(waiters, c)
    /\ Move(c, "waiting")
    /\ UNCHANGED <<locked, done, asleep>>

AcquireRaises(c) ==
    /\ at[c] = "idle"
    /\ ~Uncontended
    /\ bound \notin {NoLoop, LoopOf(c)}
    /\ Move(c, "raised")
    /\ UNCHANGED <<locked, waiters, done, bound, asleep>>

\* A submission's loop has nothing else to run and no timer.
FallsAsleep(c) ==
    /\ c \in Submissions \ asleep
    /\ at[c] = "waiting"
    /\ c \notin done
    /\ asleep' = asleep \cup {c}
    /\ UNCHANGED <<locked, waiters, done, bound, at>>

\* The waiter runs when its loop does; the worker's has timers that wake it.
Resumes(c) ==
    /\ at[c] = "waiting"
    /\ c \in done
    /\ c \notin asleep
    /\ waiters' = SelectSeq(waiters, LAMBDA w : w # c)
    /\ done' = done \ {c}
    /\ locked' = TRUE
    /\ Move(c, "holding")
    /\ UNCHANGED <<bound, asleep>>

\* The operation has changed, saved and uploaded the jobs.
Releases(c) ==
    /\ at[c] = "holding"
    /\ locked' = FALSE
    /\ done' = IF waiters = <<>> THEN done ELSE done \cup {Head(waiters)}
    /\ Move(c, IF c \in Coroutines THEN "idle" ELSE "returned")
    /\ UNCHANGED <<waiters, bound, asleep>>

\* start() logs the error and polls again.
PollsAgain ==
    /\ at[Poller] = "raised"
    /\ Move(Poller, "idle")
    /\ UNCHANGED <<locked, waiters, done, bound, asleep>>

Init ==
    /\ locked = FALSE
    /\ waiters = <<>>
    /\ done = {}
    /\ bound = NoLoop
    /\ at = [c \in Callers |-> "idle"]
    /\ asleep = {}

Acquire(c) == AcquireAtOnce(c) \/ AcquireWaits(c) \/ AcquireRaises(c)

Next ==
    \/ \E c \in Callers : Acquire(c) \/ FallsAsleep(c) \/ Resumes(c) \/ Releases(c)
    \/ PollsAgain

\* Every thread and every coroutine that can run does; nobody has to submit.
Fairness ==
    /\ \A c \in Callers : WF_vars(Resumes(c)) /\ WF_vars(Releases(c))
    /\ \A c \in Coroutines : WF_vars(Acquire(c))
    /\ WF_vars(PollsAgain)

Spec == Init /\ [][Next]_vars /\ Fairness

-----------------------------------------------------------------------------
\* The worker polls for pending jobs: however submissions come in, its polling loop
\* gets the queue's lock again and again.
WorkerKeepsPolling == []<>(at[Poller] = "holding")
=============================================================================
