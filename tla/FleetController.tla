-------------------------- MODULE FleetController --------------------------
(***************************************************************************)
(* scripts/native_eval/fleet.py: a controller that gives every planned run *)
(* a leased machine, starts the run on it, follows it until its results    *)
(* are here, stops the machine and schedules reruns of what failed.        *)
(*                                                                         *)
(* The run index is a file: every update of it is durable, and all the     *)
(* controller's other memory is lost when it dies.  A command to the cloud *)
(* or to a machine and the update that notes its outcome are two steps, so *)
(* that the controller may die in between, and so are the reading of the   *)
(* index and the appending of a rerun, which several threads do.           *)
(***************************************************************************)
EXTENDS Integers, FiniteSets, FiniteSetsExt

CONSTANTS
    Roots,             \* the runs of the plan
    ModelOf,           \* the model each is about
    ModelMaxRuns,      \* --model-max-runs
    MaxAttempts,       \* --max-attempts
    MaxLeases,         \* --max-leases
    MaxMachines,       \* bound: machines that exist for one label at a time
    MaxFaults,         \* bound: controllers killed and answers of a dispatch lost
    CommandsMayFail,   \* ssh and the cloud's commands may fail though the machine is there
    AnswersMayBeLost   \* a dispatch may start the run and fail

ASSUME FleetAssumption ==
    /\ IsFiniteSet(Roots)
    /\ {MaxAttempts, MaxLeases, MaxMachines} \subseteq Nat \ {0}
    /\ MaxFaults \in Nat
    /\ \A r \in Roots : ModelMaxRuns[ModelOf[r]] \in Nat
    /\ {CommandsMayFail, AnswersMayBeLost} \subseteq BOOLEAN

\* <<r, 0>> is the planned run, <<r, n>> the one labelled r-rerun<n>: one more than may be.
Labels == Roots \X (0..MaxAttempts)
Machines == 1..MaxMachines
NoMachine == 0

ActiveRunStatuses == {"leasing", "bootstrapping", "ready", "running"}
CleanupStatuses == {"exported", "stop_pending"}
RerunStatuses == {"failed", "lease_lost"}
ResumableStatuses == {"planned"} \cup ActiveRunStatuses \cup CleanupStatuses
Statuses == ResumableStatuses \cup RerunStatuses \cup {"absent", "recovery_required", "completed"}

\* What an archive holds: exit status 0 and all results, 0 and fewer, or another status
\* and all.
Archives == {"good", "short", "bad"}
ExitCodes == {"none", "zero", "nonzero"}
ArchivedExit(archive) == IF archive \in {"good", "short"} THEN "zero" ELSE "nonzero"
HasAllResults(archive) == archive \in {"good", "bad"}

VARIABLES
    index,    \* the run index: status, requested slug, lease, bootstrapped lease, exit code
    cloud,    \* the machines with a label's slug, and the run on each
    local,    \* what local_root has of a label: nothing, checkpoints or logs, the final archive
    thread,   \* _execute_entry of a label, in a thread of the pool
    main,     \* run(): its place, the entries it still has to look at, the rerun it appends
    attempted,\* attempted_labels
    faults

vars == <<index, cloud, local, thread, main, attempted, faults>>

\* What the variables hold.
Entries == [status : Statuses, slug : BOOLEAN, lease : Machines \cup {NoMachine},
            boot : Machines \cup {NoMachine}, exit : ExitCodes]
Vms == [state : {"none", "up", "lost", "stopped"}, started : Nat, procs : Nat, done : BOOLEAN,
        archive : {"none"} \cup Archives]
Places == {"idle", "start", "lease", "warmup", "bind", "probe", "hydrate", "dispatch", "attach",
           "follow", "export", "stop", "settle", "rerun", "append", "done", "raised"}
Threads == [pc : Places, vm : Machines \cup {NoMachine}, rc : ExitCodes, next : 0..MaxAttempts]
MainPlaces == {"down", "resume", "reruns", "append", "fill", "wait", "leave"}

NoEntry == [status |-> "absent", slug |-> FALSE, lease |-> NoMachine, boot |-> NoMachine,
            exit |-> "none"]
Planned == [NoEntry EXCEPT !.status = "planned"]

\* started, procs: how often remote_run.sh was started and came to its state directory, how many of
\* these still run.
NoVm == [state |-> "none", started |-> 0, procs |-> 0, done |-> FALSE, archive |-> "none"]

Idle == [pc |-> "idle", vm |-> NoMachine, rc |-> "none", next |-> 0]
Down == [pc |-> "down", todo |-> {}, next |-> <<>>]

-----------------------------------------------------------------------------
Present == {l \in Labels : index[l].status # "absent"}
WithStatus(statuses) == {l \in Present : index[l].status \in statuses}
InFlight == {l \in Labels : thread[l].pc # "idle"}
Leased == {l \in Present : index[l].lease # NoMachine}
Chain(r) == {l \in Present : l[1] = r}

Up(l, m) == m # NoMachine /\ cloud[l][m].state = "up"
Unused(l) == {m \in Machines : cloud[l][m].state \in {"none", "lost"}}
HasLocalArtifacts(l) == local[l] # "none"
Verified(l) == local[l] \in Archives

\* The pattern r-*.tar.gz also matches what the reruns of r left.
LocalArtifacts(l) ==
    \/ local[l] # "none"
    \/ l[2] = 0 /\ \E k \in Chain(l[1]) : local[k] # "none"

At(l, pc) == thread[l].pc = pc
Goto(l, pc) == thread' = [thread EXCEPT ![l].pc = pc]
Note(l, status) == index' = [index EXCEPT ![l].status = status]

\* _mark_recovery_required, and an error that ends _execute_entry.
Recover(l) == Note(l, "recovery_required") /\ Goto(l, "done")
Fail(l) ==
    IF index[l].lease # NoMachine \/ index[l].slug
    THEN Recover(l)
    ELSE Note(l, "failed") /\ Goto(l, "rerun")

LoseLease(l) == Note(l, "lease_lost") /\ Goto(l, "rerun")

\* The attempt _schedule_rerun decides on, 0 for none.
NextAttemptOfMore(r) ==
    LET next == Max({l[2] : l \in Chain(r)}) + 1 IN
    IF \/ \E l \in Chain(r) : l[2] > 0 /\ index[l].status \notin RerunStatuses
       \/ next > MaxAttempts
    THEN 0 ELSE next
NextAttempt(r) ==
    LET next == Max({l[2] : l \in Chain(r)}) + 1 IN
    IF \/ \E l \in Chain(r) : l[2] > 0 /\ index[l].status \notin RerunStatuses
       \/ next >= MaxAttempts
    THEN 0 ELSE next

-----------------------------------------------------------------------------
\* _execute_entry: results that are here already are taken; else a machine is needed.
Start(l) ==
    /\ At(l, "start")
    /\ IF Verified(l)
       THEN Note(l, "exported") /\ Goto(l, "stop")
       ELSE /\ UNCHANGED index
            /\ Goto(l, IF index[l].status \in CleanupStatuses THEN "stop" ELSE "lease")
    /\ UNCHANGED <<cloud, local, main, attempted, faults>>

ReattachOrRecover(l) ==
    /\ At(l, "lease")
    /\ index[l].lease # NoMachine
    /\ \/ /\ Up(l, index[l].lease)
          /\ thread' = [thread EXCEPT ![l].pc = "probe", ![l].vm = index[l].lease]
          /\ UNCHANGED index
       \/ (CommandsMayFail \/ ~Up(l, index[l].lease)) /\ Fail(l)
    /\ UNCHANGED <<cloud, local, main, attempted, faults>>

\* _ensure_lease, for a run that has a machine: one that is neither ready nor reachable
\* is given up like one that is gone ...
Reattach(l) ==
    /\ At(l, "lease")
    /\ index[l].lease # NoMachine
    /\ \/ /\ Up(l, index[l].lease)
          /\ thread' = [thread EXCEPT ![l].pc = "probe", ![l].vm = index[l].lease]
          /\ UNCHANGED index
       \/ (CommandsMayFail \/ ~Up(l, index[l].lease)) /\ LoseLease(l)
       \/ CommandsMayFail /\ Fail(l)
    /\ UNCHANGED <<cloud, local, main, attempted, faults>>

\* ... and for one that has none: the slug is noted before anything is leased for it,
RequestLease(l) ==
    /\ At(l, "lease")
    /\ index[l].lease = NoMachine
    /\ index' = [index EXCEPT ![l].status = "leasing", ![l].slug = TRUE]
    /\ Goto(l, "warmup")
    /\ UNCHANGED <<cloud, local, main, attempted, faults>>

\* a machine that has the slug is taken, or one is warmed up, which may fail late.
FindMachine(l) ==
    /\ At(l, "warmup")
    /\ \E m \in Machines :
        /\ Up(l, m)
        /\ thread' = [thread EXCEPT ![l].pc = "bind", ![l].vm = m]
    /\ UNCHANGED <<index, cloud, local, main, attempted, faults>>

WarmUpAnother(l) ==
    /\ At(l, "warmup")
    /\ LET m == Min(Unused(l)) IN
        /\ cloud' = [cloud EXCEPT ![l][m] = [NoVm EXCEPT !.state = "up"]]
        /\ \/ /\ thread' = [thread EXCEPT ![l].pc = "bind", ![l].vm = m]
              /\ UNCHANGED index
           \/ CommandsMayFail /\ Fail(l)
    /\ UNCHANGED <<local, main, attempted, faults>>

WarmUp(l) ==
    /\ At(l, "warmup")
    /\ \A m \in Machines : ~Up(l, m)
    /\ LET m == Min(Unused(l)) IN
        /\ cloud' = [cloud EXCEPT ![l][m] = [NoVm EXCEPT !.state = "up"]]
        /\ \/ /\ thread' = [thread EXCEPT ![l].pc = "bind", ![l].vm = m]
              /\ UNCHANGED index
           \/ CommandsMayFail /\ Fail(l)
    /\ UNCHANGED <<local, main, attempted, faults>>

WarmUpFails(l) ==
    /\ At(l, "warmup")
    /\ CommandsMayFail
    /\ Fail(l)
    /\ UNCHANGED <<cloud, local, main, attempted, faults>>

BindLease(l) ==
    /\ At(l, "bind")
    /\ IF Up(l, thread[l].vm)
       THEN /\ index' = [index EXCEPT ![l].status = "bootstrapping", ![l].lease = thread[l].vm]
            /\ Goto(l, "probe")
       ELSE LoseLease(l)
    /\ UNCHANGED <<cloud, local, main, attempted, faults>>

ProbeIgnoresStale(l) ==
    LET vm == cloud[l][thread[l].vm] IN
    /\ At(l, "probe")
    /\ \/ /\ Up(l, thread[l].vm)
          /\ IF vm.done \/ vm.procs > 0
             THEN Goto(l, "attach")
             ELSE Goto(l, IF index[l].boot = thread[l].vm THEN "dispatch" ELSE "hydrate")
          /\ UNCHANGED index
       \/ (CommandsMayFail \/ ~Up(l, thread[l].vm)) /\ Fail(l)
    /\ UNCHANGED <<cloud, local, main, attempted, faults>>

\* _probe_remote: a run that was started is never started again.
Probe(l) ==
    LET vm == cloud[l][thread[l].vm] IN
    /\ At(l, "probe")
    /\ \/ /\ Up(l, thread[l].vm)
          /\ IF vm.done \/ vm.procs > 0
             THEN Goto(l, "attach") /\ UNCHANGED index
             ELSE IF vm.started > 0 \/ LocalArtifacts(l)
                  THEN Fail(l)
                  ELSE /\ Goto(l, IF index[l].boot = thread[l].vm THEN "dispatch" ELSE "hydrate")
                       /\ UNCHANGED index
       \/ (CommandsMayFail \/ ~Up(l, thread[l].vm)) /\ Fail(l)
    /\ UNCHANGED <<cloud, local, main, attempted, faults>>

HydrateBootstrapped(l) ==
    /\ At(l, "hydrate")
    /\ Up(l, thread[l].vm)
    /\ index' = [index EXCEPT ![l].status = "bootstrapped", ![l].boot = thread[l].vm]
    /\ Goto(l, "dispatch")
    /\ UNCHANGED <<cloud, local, main, attempted, faults>>

Hydrate(l) ==
    /\ At(l, "hydrate")
    /\ \/ /\ Up(l, thread[l].vm)
          /\ index' = [index EXCEPT ![l].status = "ready", ![l].boot = thread[l].vm]
          /\ Goto(l, "dispatch")
       \/ (CommandsMayFail \/ ~Up(l, thread[l].vm)) /\ Fail(l)
    /\ UNCHANGED <<cloud, local, main, attempted, faults>>

\* An attempt whose answer is lost is repeated, and its run was started.
Dispatch(l) ==
    LET m == thread[l].vm
        Starts(n) == cloud' = [cloud EXCEPT ![l][m].started = @ + n, ![l][m].procs = @ + n]
    IN
    /\ At(l, "dispatch")
    /\ \/ Up(l, m) /\ Starts(1) /\ Goto(l, "attach") /\ UNCHANGED <<index, faults>>
       \/ /\ Up(l, m) /\ AnswersMayBeLost /\ faults < MaxFaults
          /\ faults' = faults + 1
          /\ \/ Starts(2) /\ Goto(l, "attach") /\ UNCHANGED index
             \/ Starts(1) /\ Fail(l)
       \/ (CommandsMayFail \/ ~Up(l, m)) /\ Fail(l) /\ UNCHANGED <<cloud, faults>>
    /\ UNCHANGED <<local, main, attempted>>

\* The run is over within the second after which the script looks at it: before it has a state
\* directory, so that nothing is seen of it, or later, in its trap or after it.
DispatchDies(l) ==
    LET m == thread[l].vm IN
    /\ At(l, "dispatch")
    /\ Up(l, m)
    /\ \/ UNCHANGED cloud
       \/ \E done \in BOOLEAN : cloud' = [cloud EXCEPT ![l][m].started = @ + 1, ![l][m].done = done]
    /\ Fail(l)
    /\ UNCHANGED <<local, main, attempted, faults>>

Attach(l) ==
    /\ At(l, "attach")
    /\ Note(l, "running")
    /\ Goto(l, "follow")
    /\ UNCHANGED <<cloud, local, main, attempted, faults>>

-----------------------------------------------------------------------------
\* The checkpoint loop of one run: checkpoints, then the final archive with the run's
\* status.  Its code says 75 when it gives up, and when the archive is here but a log is not.
PullCheckpoint(l) ==
    /\ At(l, "follow")
    /\ Up(l, thread[l].vm)
    /\ local[l] = "none"
    /\ local' = [local EXCEPT ![l] = "some"]
    /\ UNCHANGED <<index, cloud, thread, main, attempted, faults>>

PullFinal(l) ==
    LET vm == cloud[l][thread[l].vm] IN
    /\ At(l, "follow")
    /\ Up(l, thread[l].vm)
    /\ vm.done
    /\ vm.archive \in Archives
    /\ local' = [local EXCEPT ![l] = vm.archive]
    /\ \E rc \in {ArchivedExit(vm.archive)} \cup (IF CommandsMayFail THEN {"nonzero"} ELSE {}) :
        thread' = [thread EXCEPT ![l].pc = "export", ![l].rc = rc]
    /\ UNCHANGED <<index, cloud, main, attempted, faults>>

GiveUp(l) ==
    /\ At(l, "follow")
    /\ \/ CommandsMayFail \/ ~Up(l, thread[l].vm)
       \/ cloud[l][thread[l].vm].done /\ cloud[l][thread[l].vm].archive = "none"
    /\ local' = [local EXCEPT ![l] = IF @ = "none" THEN "some" ELSE @]
    /\ Recover(l)
    /\ UNCHANGED <<cloud, main, attempted, faults>>

Export(l) ==
    /\ At(l, "export")
    /\ index' = [index EXCEPT ![l].status = "exported", ![l].exit = thread[l].rc]
    /\ Goto(l, "stop")
    /\ UNCHANGED <<cloud, local, main, attempted, faults>>

\* _finish_exported: stop the machine of a run whose results are here.
ExitFromResults(l) ==
    IF index[l].exit # "none" THEN index[l].exit
    ELSE IF HasAllResults(local[l]) THEN "zero" ELSE "nonzero"
ExitOf(l) == IF index[l].exit # "none" THEN index[l].exit ELSE ArchivedExit(local[l])

StopOnce(l) ==
    /\ At(l, "stop")
    /\ \/ cloud' = [cloud EXCEPT ![l][index[l].lease].state = IF @ = "up" THEN "stopped" ELSE @]
       \/ CommandsMayFail /\ UNCHANGED cloud
    /\ Goto(l, "settle")
    /\ UNCHANGED <<index, local, main, attempted, faults>>

CannotFinish(l) == ~Verified(l) \/ index[l].lease = NoMachine

Stop(l) ==
    LET m == index[l].lease
        Stopped == cloud' = [cloud EXCEPT ![l][m].state = IF @ = "up" THEN "stopped" ELSE @]
        Postponed == /\ index' = [index EXCEPT ![l].status = "stop_pending", ![l].exit = ExitOf(l)]
                     /\ Goto(l, "done")
    IN
    /\ At(l, "stop")
    /\ IF CannotFinish(l)
       THEN Recover(l) /\ UNCHANGED cloud
       ELSE \/ Stopped /\ Goto(l, "settle") /\ UNCHANGED index
            \/ CommandsMayFail /\ Postponed /\ (Stopped \/ UNCHANGED cloud)
    /\ UNCHANGED <<local, main, attempted, faults>>

Settle(l) ==
    LET completed == ExitOf(l) = "zero" /\ HasAllResults(local[l]) IN
    /\ At(l, "settle")
    /\ index' = [index EXCEPT ![l].status = IF completed THEN "completed" ELSE "failed",
                              ![l].exit = ExitOf(l)]
    /\ Goto(l, IF completed THEN "done" ELSE "rerun")
    /\ UNCHANGED <<cloud, local, main, attempted, faults>>

-----------------------------------------------------------------------------
\* _schedule_rerun, in the thread: it reads the index, and then appends.
DecideRerun(l) ==
    LET next == NextAttempt(l[1]) IN
    /\ At(l, "rerun")
    /\ thread' = [thread EXCEPT ![l].pc = IF next = 0 THEN "done" ELSE "append",
                                ![l].next = next]
    /\ UNCHANGED <<index, cloud, local, main, attempted, faults>>

\* A label that is there already raises: within the try after a failure, outside of it
\* after a lost lease.
AppendRerun(l) ==
    LET rerun == <<l[1], thread[l].next>> IN
    /\ At(l, "append")
    /\ IF rerun \notin Present
       THEN index' = [index EXCEPT ![rerun] = Planned] /\ Goto(l, "done")
       ELSE IF index[l].status = "lease_lost"
            THEN Goto(l, "raised") /\ UNCHANGED index
            ELSE Fail(l)
    /\ UNCHANGED <<cloud, local, main, attempted, faults>>

-----------------------------------------------------------------------------
\* run(), in the main thread.
StartController ==
    /\ main.pc = "down"
    /\ main' = [main EXCEPT !.pc = "resume"]
    /\ attempted' = {}
    /\ UNCHANGED <<index, cloud, local, thread, faults>>

\* _resume_recovery_entries
ResumeEntry(l) ==
    /\ main.pc = "resume"
    /\ index[l].status = "recovery_required"
    /\ Note(l, IF index[l].lease # NoMachine
               THEN IF Verified(l) THEN "exported" ELSE "running"
               ELSE IF index[l].slug THEN "planned" ELSE "failed")
    /\ UNCHANGED <<cloud, local, thread, main, attempted, faults>>

LookForReruns == main' = [pc |-> "reruns", todo |-> {l \in Labels : index'[l].status \in RerunStatuses},
                          next |-> <<>>]

ResumeDone ==
    /\ main.pc = "resume"
    /\ WithStatus({"recovery_required"}) = {}
    /\ UNCHANGED <<index, cloud, local, thread, attempted, faults>>
    /\ LookForReruns

\* _schedule_existing_reruns, which threads may overtake.
DecideExisting(l) ==
    LET next == NextAttempt(l[1]) IN
    /\ main.pc = "reruns"
    /\ l \in main.todo
    /\ main' = [pc |-> IF next = 0 THEN "reruns" ELSE "append",
                todo |-> main.todo \ {l},
                next |-> IF next = 0 THEN <<>> ELSE <<l[1], next>>]
    /\ UNCHANGED <<index, cloud, local, thread, attempted, faults>>

AppendExisting ==
    /\ main.pc = "append"
    /\ IF main.next \notin Present
       THEN /\ index' = [index EXCEPT ![main.next] = Planned]
            /\ main' = [main EXCEPT !.pc = "reruns", !.next = <<>>]
       ELSE /\ main' = [Down EXCEPT !.pc = "leave"]
            /\ UNCHANGED index
    /\ UNCHANGED <<cloud, local, thread, attempted, faults>>

RerunsDone ==
    /\ main.pc = "reruns"
    /\ main.todo = {}
    /\ main' = [main EXCEPT !.pc = "fill"]
    /\ UNCHANGED <<index, cloud, local, thread, attempted, faults>>

\* _next_schedulable_label; any of the candidates of a class stands for the first.
Candidates == WithStatus(ResumableStatuses) \ attempted
Adopted(statuses) == Candidates \cap Leased \cap WithStatus(statuses)
ActiveEntries == Leased \cap WithStatus(ActiveRunStatuses)
CleanupEntries == Leased \cap WithStatus(CleanupStatuses)
NoReservations == {}
PendingReservations ==
    (InFlight \ Leased) \cap WithStatus({"planned"} \cup ActiveRunStatuses)
Occupied == ActiveEntries \cup CleanupEntries \cup PendingReservations

\* --provider-max-runs is a second limit of the same form.
RunsOf(model) == {l \in ActiveEntries \cup PendingReservations : ModelOf[l[1]] = model}
ModelAvailable(l) ==
    Cardinality(RunsOf(ModelOf[l[1]])) < ModelMaxRuns[ModelOf[l[1]]]

Pending == (Candidates \ Leased) \cap WithStatus({"planned"} \cup ActiveRunStatuses)
Schedulable ==
    IF Adopted(CleanupStatuses) # {} THEN Adopted(CleanupStatuses)
    ELSE IF Adopted(ActiveRunStatuses) # {} THEN Adopted(ActiveRunStatuses)
    ELSE IF Cardinality(Occupied) >= MaxLeases THEN {}
    ELSE {l \in Pending : ModelAvailable(l)}
SlotIsFree == Cardinality(InFlight) < MaxLeases

Submit(l) ==
    /\ main.pc = "fill"
    /\ SlotIsFree
    /\ l \in Schedulable
    /\ attempted' = attempted \cup {l}
    /\ thread' = [thread EXCEPT ![l] = [Idle EXCEPT !.pc = "start"]]
    /\ UNCHANGED <<index, cloud, local, main, faults>>

FillDone ==
    /\ main.pc = "fill"
    /\ ~SlotIsFree \/ Schedulable = {}
    /\ main' = [main EXCEPT !.pc = IF InFlight = {} THEN "leave" ELSE "wait"]
    /\ UNCHANGED <<index, cloud, local, thread, attempted, faults>>

Returned == {l \in Labels : thread[l].pc \in {"done", "raised"}}

Collect ==
    /\ main.pc = "wait"
    /\ Returned # {}
    /\ index' = [l \in Labels |-> IF thread[l].pc = "raised"
                                  THEN [index[l] EXCEPT !.status = "recovery_required"]
                                  ELSE index[l]]
    /\ thread' = [l \in Labels |-> IF l \in Returned THEN Idle ELSE thread[l]]
    /\ LookForReruns
    /\ UNCHANGED <<cloud, local, attempted, faults>>

\* The pool is left when nothing is to be submitted, or by an exception of the main thread;
\* both wait for the threads.
LeavePool ==
    /\ main.pc = "leave"
    /\ InFlight \subseteq Returned
    /\ thread' = [l \in Labels |-> Idle]
    /\ main' = Down
    /\ UNCHANGED <<index, cloud, local, attempted, faults>>

Crash ==
    /\ main.pc # "down"
    /\ faults < MaxFaults
    /\ faults' = faults + 1
    /\ thread' = [l \in Labels |-> Idle]
    /\ main' = Down
    /\ UNCHANGED <<index, cloud, local, attempted>>

-----------------------------------------------------------------------------
\* The machines: remote_run.sh leaves an archive and then its status; or it exits before
\* there is one; or it is killed, or its trap dies, and it leaves nothing.  Every lease has a ttl.
RunEnds(l, m) ==
    /\ Up(l, m)
    /\ cloud[l][m].procs > 0
    /\ \E archive \in Archives :
        cloud' = [cloud EXCEPT ![l][m].procs = @ - 1, ![l][m].done = TRUE,
                               ![l][m].archive = archive]
    /\ UNCHANGED <<index, local, thread, main, attempted, faults>>

RunAborts(l, m) ==
    /\ Up(l, m)
    /\ cloud[l][m].procs > 0
    /\ cloud' = [cloud EXCEPT ![l][m].procs = @ - 1, ![l][m].done = TRUE]
    /\ UNCHANGED <<index, local, thread, main, attempted, faults>>

RunIsKilled(l, m) ==
    /\ Up(l, m)
    /\ cloud[l][m].procs > 0
    /\ cloud' = [cloud EXCEPT ![l][m].procs = @ - 1]
    /\ UNCHANGED <<index, local, thread, main, attempted, faults>>

LeaseExpires(l, m) ==
    /\ Up(l, m)
    /\ cloud' = [cloud EXCEPT ![l][m].state = "lost", ![l][m].procs = 0, ![l][m].done = FALSE]
    /\ UNCHANGED <<index, local, thread, main, attempted, faults>>

-----------------------------------------------------------------------------
Init ==
    /\ index = [l \in Labels |-> IF l[2] = 0 THEN Planned ELSE NoEntry]
    /\ cloud = [l \in Labels |-> [m \in Machines |-> NoVm]]
    /\ local = [l \in Labels |-> "none"]
    /\ thread = [l \in Labels |-> Idle]
    /\ main = Down
    /\ attempted = {}
    /\ faults = 0

ThreadStep(l) ==
    \/ Start(l) \/ Reattach(l) \/ RequestLease(l)
    \/ FindMachine(l) \/ WarmUp(l) \/ WarmUpFails(l) \/ BindLease(l)
    \/ Probe(l) \/ Hydrate(l) \/ Dispatch(l) \/ DispatchDies(l) \/ Attach(l)
    \/ PullCheckpoint(l) \/ PullFinal(l) \/ GiveUp(l) \/ Export(l)
    \/ Stop(l) \/ Settle(l) \/ DecideRerun(l) \/ AppendRerun(l)

MainStep ==
    \/ \E l \in Labels : ResumeEntry(l) \/ DecideExisting(l) \/ Submit(l)
    \/ ResumeDone \/ AppendExisting \/ RerunsDone \/ FillDone \/ Collect \/ LeavePool

MachineStep(l, m) ==
    RunEnds(l, m) \/ RunAborts(l, m) \/ RunIsKilled(l, m) \/ LeaseExpires(l, m)

Next ==
    \/ StartController
    \/ MainStep
    \/ Crash
    \/ \E l \in Labels : ThreadStep(l) \/ \E m \in Machines : MachineStep(l, m)

Spec == Init /\ [][Next]_vars

-----------------------------------------------------------------------------
\* The operator runs the controller as long as something is unfinished, its threads run,
\* of the commands that are tried again and again some work, and a lease ends at the
\* latest with its ttl.
FleetFairness ==
    /\ WF_vars(StartController)
    /\ WF_vars(MainStep)
    /\ \A l \in Labels :
        /\ WF_vars(ThreadStep(l))
        /\ SF_vars(\/ Reattach(l) /\ index'[l].status # "recovery_required"
                   \/ WarmUp(l) /\ thread'[l].pc = "bind"
                   \/ Stop(l) /\ thread'[l].pc = "settle")
        /\ \A m \in Machines : WF_vars(LeaseExpires(l, m))

FairSpec == Spec /\ FleetFairness

-----------------------------------------------------------------------------
\* Every variable holds what the index, the machines and the threads can hold.
TypeOK ==
    /\ index \in [Labels -> Entries]
    /\ cloud \in [Labels -> [Machines -> Vms]]
    /\ \A l \in Labels, m \in Machines : cloud[l][m].procs <= cloud[l][m].started
    /\ local \in [Labels -> {"none", "some"} \cup Archives]
    /\ thread \in [Labels -> Threads]
    /\ main \in [pc : MainPlaces, todo : SUBSET Labels, next : Labels \cup {<<>>}]
    /\ attempted \subseteq Present
    /\ faults \in 0..MaxFaults

\* A run has one machine at a time, which the index knows by its slug or as its lease,
\* whatever warm-up fails late and wherever the controller dies (fleet.py:645-681).
OneMachinePerRun ==
    \A l \in Labels, m \in Machines :
        Up(l, m) => /\ index[l].slug
                    /\ index[l].lease \in {NoMachine, m}
                    /\ \A n \in Machines : Up(l, n) => n = m

\* A run that its results settled has no machine any more, although stops fail, take
\* effect and fail, and are cut short by a crash (fleet.py:51-54, 1279-1352).
MachinesReleased ==
    \A l \in Labels, m \in Machines :
        Up(l, m) => index[l].status \notin {"failed", "completed"}

\* A completed run ended with status 0 and all its results on the machine it was leased,
\* also when the status was found in the archive by a later controller (fleet.py:1268-1348).
CompletedIsGenuine ==
    \A l \in WithStatus({"completed"}) :
        local[l] = "good" /\ cloud[l][index[l].lease].archive = "good"

\* No machine is stopped under its run or before the final archive is here: checkpoints
\* are not enough (fleet.py:1253-1267).
RunsAreNotCut ==
    \A l \in Labels, m \in Machines :
        cloud[l][m].state = "stopped" => Verified(l) /\ cloud[l][m].procs = 0

\* remote_run.sh is started once for a label, on one machine, by however many controllers
\* the run is taken up (fleet.py:561-571). A start that died without a trace does not count.
StartedOnce ==
    \A l \in Labels, m \in Machines :
        cloud[l][m].started > 0 =>
            cloud[l][m].started = 1 /\ \A n \in Machines : cloud[l][n].started > 0 => n = m

\* No machine is leased for a model that has its --model-max-runs already, runs that were
\* taken over from an earlier controller included (fleet.py:1114-1166).
ModelsWithinLimits ==
    \A l \in Labels :
        thread[l].pc \in {"warmup", "bind"} =>
            LET using == {k \in Labels : /\ ModelOf[k[1]] = ModelOf[l[1]]
                                         /\ \/ thread[k].pc \in {"warmup", "bind"}
                                            \/ k \in ActiveEntries}
            IN Cardinality(using) <= ModelMaxRuns[ModelOf[l[1]]]

\* What a run came to stands: a rerun is another entry (fleet.py:1417-1466).
SettledStays ==
    [][\A l \in WithStatus({"failed", "completed"}) : index'[l].status = index[l].status]_vars

\* The index makes one attempt of a planned run at a time, at most MaxAttempts, and none
\* after one that completed (fleet.py:1417-1466).
Tries == [r \in Roots |-> Cardinality(Chain(r))]
Outcome == [r \in Roots |->
    IF \E l \in Chain(r) : index[l].status \notin RerunStatuses \cup {"completed"} THEN "open"
    ELSE IF \E l \in Chain(r) : index[l].status = "completed" THEN "completed"
    ELSE "failed"]
Attempts == INSTANCE RunAttempts WITH Runs <- Roots, tries <- Tries, outcome <- Outcome
ImplementsAttempts == Attempts!Spec

\* Every planned run completes or uses up its attempts, through failing commands, runs
\* that die, leases that end and a controller that dies (fleet.py:333-373).
RunsSettle ==
    \A r \in Roots :
        <>[](\/ Outcome[r] = "completed"
             \/ Outcome[r] = "failed" /\ Tries[r] = MaxAttempts)
=============================================================================
