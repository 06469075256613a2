--------------------------- MODULE FleetRunProofs ---------------------------
(***************************************************************************)
(* More of what FleetController keeps, from the invariant of FleetProofs:   *)
(* what a machine did is what the results say (where no answer of a         *)
(* dispatch is lost), the models' limits, and the attempts of a run (where  *)
(* one lease is held at a time).                                            *)
(***************************************************************************)
EXTENDS FleetProofs

USE DEF At, Up, Verified, NoMachine, OpenStatuses, ActiveRunStatuses, CleanupStatuses,
        RerunStatuses, ResumableStatuses

-----------------------------------------------------------------------------
\* Where no answer of a dispatch is lost: a machine's run is started once, and then it runs, is
\* done, or was killed.
RunOK(l) ==
    \A m \in Machines :
        LET vm == cloud[l][m] IN
        /\ vm.started <= 1
        /\ vm.started = 1 => m = index[l].lease
        /\ vm.started = 0 => ~vm.done /\ vm.archive = "none"
        /\ vm.done => vm.procs = 0
        /\ vm.state = "stopped" => Verified(l) /\ vm.procs = 0
        /\ Verified(l) /\ m = index[l].lease => vm.archive = local[l] /\ vm.procs = 0
        /\ thread[l].pc \in {"hydrate", "dispatch"} => vm.started = 0

\* The exit code that was noted is the archive's.
ExitOK(l) ==
    /\ At(l, "export") /\ thread[l].rc = "zero" => local[l] \in {"good", "short"}
    /\ index[l].exit # "none" => Verified(l)
    /\ index[l].exit = "zero" => local[l] \in {"good", "short"}
    /\ index[l].status = "completed" => local[l] = "good"

OnceInv == \A l \in Labels : RunOK(l) /\ ExitOK(l)

-----------------------------------------------------------------------------
\* A run that waits for a machine was let in within its model's limit.
LimitInv ==
    \A l \in PendingReservations :
        Cardinality(RunsOf(ModelOf[l[1]])) <= ModelMaxRuns[ModelOf[l[1]]]

-----------------------------------------------------------------------------
\* What a machine did is what the results say, where no answer of a dispatch is lost.
OnceOK(l) == RunOK(l) /\ ExitOK(l)

\* Nothing new on the machines or in the results, no exit code noted, nothing completed.
LEMMA OnceFrame ==
  ASSUME NEW l \in Labels, OnceOK(l), cloud'[l] = cloud[l], local'[l] = local[l],
         index'[l].lease = index[l].lease, index'[l].exit = index[l].exit,
         index'[l].status = index[l].status \/ index'[l].status # "completed",
         \/ thread'[l].pc \notin {"hydrate", "dispatch", "export"}
         \/ thread'[l].pc = "dispatch" /\ thread[l].pc = "hydrate"
         \/ thread'[l] = thread[l]
  PROVE  OnceOK(l)'
  BY DEF OnceOK, RunOK, ExitOK

\* A status is noted and the thread goes on.
LEMMA OnceNote ==
  ASSUME TypeOK, NEW l \in Labels, OnceOK(l), UNCHANGED <<cloud, local>>,
         NEW s \in Statuses \ {"completed"}, Note(l, s),
         NEW p \in Places \ {"hydrate", "dispatch", "export"}, Goto(l, p)
  PROVE  OnceOK(l)'
  <1>1. index'[l] = Entry(l, s) /\ thread'[l] = Thread(l, p)
    BY DEF Note, Goto, Entry, Thread, TypeOK
  <1>2. /\ index'[l].status = s /\ index'[l].lease = index[l].lease
        /\ index'[l].exit = index[l].exit /\ thread'[l].pc = p
    BY <1>1 DEF Entry, Thread, TypeOK, Entries, Threads
  <1>3. QED
    BY <1>2, OnceFrame

\* Every way to fail notes a status other than completed and ends what was begun.
LEMMA FailNotes ==
  ASSUME NEW l \in Labels, Fail(l) \/ LoseLease(l) \/ Recover(l)
  PROVE  \E s \in Statuses \ {"completed"}, p \in Places \ {"hydrate", "dispatch", "export"} :
            Note(l, s) /\ Goto(l, p)
  <1>1. {"recovery_required", "failed", "lease_lost"} \subseteq Statuses \ {"completed"}
    BY DEF Statuses
  <1>2. {"done", "rerun"} \subseteq Places \ {"hydrate", "dispatch", "export"}
    BY DEF Places
  <1>3. QED
    BY <1>1, <1>2 DEF Fail, LoseLease, Recover

\* How an error leaves its thread and entry.
LEMMA FailEffect ==
  ASSUME TypeOK, NEW l \in Labels, Fail(l) \/ Recover(l) \/ LoseLease(l)
  PROVE  /\ thread'[l].pc \notin {"hydrate", "dispatch", "export"}
         /\ index'[l].lease = index[l].lease /\ index'[l].exit = index[l].exit
         /\ index'[l].status # "completed"
  <1> PICK s \in Statuses \ {"completed"}, p \in Places \ {"hydrate", "dispatch", "export"} :
         Note(l, s) /\ Goto(l, p)
    BY FailNotes
  <1>1. index'[l] = Entry(l, s) /\ thread'[l] = Thread(l, p)
    BY DEF Note, Goto, Entry, Thread, TypeOK
  <1>2. QED
    BY <1>1 DEF Entry, Thread, TypeOK, Entries, Threads

\* A failure changes nothing of what the machine did.
LEMMA OnceFail ==
  ASSUME TypeOK, NEW l \in Labels, OnceOK(l), UNCHANGED <<cloud, local>>,
         Fail(l) \/ LoseLease(l) \/ Recover(l)
  PROVE  OnceOK(l)'
  BY FailNotes, OnceNote

\* Nor does going on.
LEMMA OnceGoto ==
  ASSUME TypeOK, NEW l \in Labels, OnceOK(l), UNCHANGED <<cloud, local, index>>,
         NEW p \in Places \ {"hydrate", "dispatch", "export"}, Goto(l, p)
  PROVE  OnceOK(l)'
  <1>1. thread'[l] = Thread(l, p)
    BY DEF Goto, Thread, TypeOK
  <1>2. thread'[l].pc = p
    BY <1>1, ThreadType
  <1>3. QED
    BY <1>2, OnceFrame

\* Steps on the way to a machine.
LEMMA OnceLeasing ==
  ASSUME TypeOK, NEW l \in Labels, LabelInv(l), OnceOK(l),
         Start(l) \/ Reattach(l) \/ RequestLease(l) \/ FindMachine(l) \/ WarmUpFails(l)
  PROVE  OnceOK(l)'
  <1>1. UNCHANGED <<cloud, local>>
    BY DEF Start, Reattach, RequestLease, FindMachine, WarmUpFails
  <1>2. CASE Start(l)
    <2>1. "exported" \in Statuses \ {"completed"}
          /\ {"stop", "lease"} \subseteq Places \ {"hydrate", "dispatch", "export"}
      BY DEF Statuses, Places
    <2>2. CASE Verified(l)
      BY <1>1, <1>2, <2>1, <2>2, OnceNote DEF Start
    <2>3. CASE ~Verified(l)
      <3>1. UNCHANGED index /\ (Goto(l, "stop") \/ Goto(l, "lease"))
        BY <1>2, <2>3 DEF Start
      <3>2. {"stop", "lease"} \subseteq Places \ {"hydrate", "dispatch", "export"}
        BY DEF Places
      <3>3. CASE Goto(l, "stop")
        BY <1>1, <3>1, <3>2, <3>3, OnceGoto
      <3>4. CASE Goto(l, "lease")
        BY <1>1, <3>1, <3>2, <3>4, OnceGoto
      <3>5. QED
        BY <3>1, <3>3, <3>4
    <2>4. QED
      BY <2>2, <2>3
  <1>3. CASE Reattach(l)
    <2>1. CASE /\ thread' = [thread EXCEPT ![l].pc = "probe", ![l].vm = index[l].lease]
               /\ UNCHANGED index
      <3>1. thread'[l].pc = "probe"
        BY <2>1 DEF TypeOK, Threads
      <3>2. QED
        BY <1>1, <2>1, <3>1, OnceFrame
    <2>2. CASE LoseLease(l) \/ Fail(l)
      BY <1>1, <2>2, OnceFail
    <2>3. QED
      BY <1>3, <2>1, <2>2 DEF Reattach
  <1>4. CASE RequestLease(l)
    <2>1. /\ index'[l] = [index[l] EXCEPT !.status = "leasing", !.slug = TRUE]
          /\ thread'[l] = Thread(l, "warmup")
      BY <1>4 DEF RequestLease, Goto, Thread, TypeOK
    <2>2. /\ index'[l].status = "leasing" /\ index'[l].lease = index[l].lease
          /\ index'[l].exit = index[l].exit
      BY <2>1 DEF TypeOK, Entries
    <2>3. thread'[l].pc = "warmup"
      BY <2>1, ThreadType DEF Places
    <2>4. QED
      BY <1>1, <2>2, <2>3, OnceFrame
  <1>5. CASE FindMachine(l)
    <2> PICK m \in Machines : thread' = [thread EXCEPT ![l].pc = "bind", ![l].vm = m]
      BY <1>5 DEF FindMachine
    <2>1. thread'[l] = [thread[l] EXCEPT !.pc = "bind", !.vm = m] /\ thread[l] \in Threads
      BY DEF TypeOK
    <2>3. thread'[l].pc = "bind" /\ index' = index
      BY <1>5, <2>1 DEF FindMachine, Threads
    <2>2. QED
      BY <1>1, <2>3, OnceFrame
  <1>6. CASE WarmUpFails(l)
    BY <1>1, <1>6, OnceFail DEF WarmUpFails
  <1>7. QED
    BY <1>2, <1>3, <1>4, <1>5, <1>6

\* Without a lease nothing was started.
LEMMA UnleasedIsUnstarted ==
  ASSUME TypeOK, NEW l \in Labels, LabelInv(l), OnceOK(l), index[l].lease = NoMachine
  PROVE  /\ \A m \in Machines : cloud[l][m].started = 0 /\ cloud[l][m].procs = 0
         /\ ~Verified(l) /\ index[l].exit = "none"
         /\ \A m \in Machines : ~cloud[l][m].done /\ cloud[l][m].archive = "none"
                                /\ cloud[l][m].state # "stopped"
  <1>1. ASSUME NEW m \in Machines
        PROVE  cloud[l][m].started = 0 /\ cloud[l][m].procs = 0
    <2>1. cloud[l][m].started \in Nat /\ cloud[l][m].procs \in Nat
          /\ cloud[l][m].procs <= cloud[l][m].started
      BY DEF TypeOK, Vms
    <2>2. cloud[l][m].started <= 1 /\ (cloud[l][m].started = 1 => m = index[l].lease) /\ m # NoMachine
      BY DEF OnceOK, RunOK, Machines
    <2>3. QED
      BY <2>1, <2>2
  <1>2. ~Verified(l)
    BY DEF LabelInv, EntryOK
  <1>3. QED
    BY <1>1, <1>2 DEF OnceOK, RunOK, ExitOK

\* A new machine runs nothing yet.
LEMMA OnceWarmUp ==
  ASSUME TypeOK, NEW l \in Labels, LabelInv(l), OnceOK(l), WarmUp(l)
  PROVE  OnceOK(l)'
  <1> DEFINE m == Min(Unused(l))
             v == [NoVm EXCEPT !.state = "up"]
  <1>1. index[l].lease = NoMachine /\ \A n \in Machines : ~Up(l, n)
    BY DEF WarmUp, LabelInv, PlaceOK
  <1>2. m \in Machines
    BY <1>1, SomeMachineIsUnused
  <1>3. v.started = 0 /\ v.procs = 0 /\ ~v.done /\ v.archive = "none" /\ v.state = "up"
    BY DEF NoVm
  <1>4. \A n \in Machines : cloud'[l][n] = IF n = m THEN v ELSE cloud[l][n]
    BY <1>2 DEF WarmUp, TypeOK
  <1>5. local' = local
    BY DEF WarmUp
  <1>6. \A n \in Machines : /\ cloud'[l][n].started = 0 /\ cloud'[l][n].procs = 0
                            /\ ~cloud'[l][n].done /\ cloud'[l][n].archive = "none"
                            /\ cloud'[l][n].state # "stopped"
    <2>1. \A n \in Machines : /\ cloud[l][n].started = 0 /\ cloud[l][n].procs = 0
                              /\ ~cloud[l][n].done /\ cloud[l][n].archive = "none"
                              /\ cloud[l][n].state # "stopped"
      BY <1>1, UnleasedIsUnstarted
    <2>2. QED
      BY <1>3, <1>4, <2>1
  <1>7. /\ index'[l].lease = NoMachine /\ index'[l].exit = "none"
        /\ index'[l].status = index[l].status \/ index'[l].status # "completed"
        /\ thread'[l].pc # "export"
    <2>1. CASE thread' = [thread EXCEPT ![l].pc = "bind", ![l].vm = m] /\ UNCHANGED index
      BY <1>1, <2>1, UnleasedIsUnstarted DEF TypeOK, Threads
    <2>2. CASE Fail(l)
      BY <1>1, <2>2, FailEffect, UnleasedIsUnstarted
    <2>3. QED
      BY <2>1, <2>2 DEF WarmUp
  <1>8. ~Verified(l)' /\ index[l].status # "completed"
    BY <1>1, <1>5, UnleasedIsUnstarted DEF WarmUp, LabelInv, PlaceOK
  <1>9. QED
    BY <1>6, <1>7, <1>8 DEF OnceOK, RunOK, ExitOK

\* A machine that becomes the lease has run nothing.
LEMMA OnceBind ==
  ASSUME TypeOK, NEW l \in Labels, LabelInv(l), OnceOK(l), BindLease(l)
  PROVE  OnceOK(l)'
  <1>1. UNCHANGED <<cloud, local>> /\ index[l].lease = NoMachine
    BY DEF BindLease, LabelInv, PlaceOK
  <1>2. CASE Up(l, thread[l].vm)
    <2>1. /\ index'[l] = [index[l] EXCEPT !.status = "bootstrapping", !.lease = thread[l].vm]
          /\ thread'[l] = Thread(l, "probe")
      BY <1>2 DEF BindLease, Goto, Thread, TypeOK
    <2>2. index'[l].status = "bootstrapping" /\ index'[l].exit = index[l].exit
      BY <2>1 DEF TypeOK, Entries
    <2>3. thread'[l].pc = "probe"
      BY <2>1, ThreadType DEF Places
    <2>4. QED
      BY <1>1, <2>2, <2>3, UnleasedIsUnstarted DEF OnceOK, RunOK, ExitOK
  <1>3. CASE ~Up(l, thread[l].vm)
    BY <1>1, <1>3, OnceFail DEF BindLease
  <1>4. QED
    BY <1>2, <1>3

\* What is there already is neither bootstrapped nor started.
LEMMA OnceProbe ==
  ASSUME TypeOK, NEW l \in Labels, LabelInv(l), OnceOK(l), Probe(l)
  PROVE  OnceOK(l)'
  <1> DEFINE vm == cloud[l][thread[l].vm]
  <1>1. UNCHANGED <<cloud, local>> /\ thread[l].vm = index[l].lease /\ index[l].lease \in Machines
        /\ ~Verified(l) /\ index[l].status \in ActiveRunStatuses
    BY DEF Probe, LabelInv, PlaceOK
  <1>2. CASE Fail(l)
    BY <1>1, <1>2, OnceFail
  <1>3. CASE Goto(l, "attach") /\ UNCHANGED index
    <2>1. "attach" \in Places \ {"hydrate", "dispatch", "export"}
      BY DEF Places
    <2>2. QED
      BY <1>1, <1>3, <2>1, OnceGoto
  <1>4. ASSUME ~(vm.started > 0), NEW p \in {"dispatch", "hydrate"}, Goto(l, p), UNCHANGED index
        PROVE  OnceOK(l)'
    <2>1. thread'[l].pc = p
      BY <1>4, ThreadType DEF Goto, Thread, TypeOK, Places
    <2>2. \A m \in Machines : cloud[l][m].started = 0
      <3>1. \A m \in Machines : cloud[l][m].started \in Nat
        BY DEF TypeOK, Vms
      <3>2. QED
        BY <1>1, <1>4, <3>1 DEF OnceOK, RunOK
    <2>3. RunOK(l)'
      BY <1>1, <1>4, <2>2 DEF OnceOK, RunOK
    <2>4. ExitOK(l)'
      BY <1>1, <1>4, <2>1 DEF OnceOK, ExitOK
    <2>5. QED
      BY <2>3, <2>4 DEF OnceOK
  <1>5. \/ Fail(l)
        \/ Goto(l, "attach") /\ UNCHANGED index
        \/ /\ ~(vm.started > 0) /\ UNCHANGED index
           /\ Goto(l, IF index[l].boot = thread[l].vm THEN "dispatch" ELSE "hydrate")
    BY DEF Probe
  <1>6. QED
    BY <1>2, <1>3, <1>4, <1>5

\* Bootstrapping starts no run.
LEMMA OnceHydrate ==
  ASSUME TypeOK, NEW l \in Labels, LabelInv(l), OnceOK(l), Hydrate(l)
  PROVE  OnceOK(l)'
  <1>1. UNCHANGED <<cloud, local>> /\ At(l, "hydrate")
    BY DEF Hydrate
  <1>2. CASE /\ index' = [index EXCEPT ![l].status = "ready", ![l].boot = thread[l].vm]
             /\ Goto(l, "dispatch")
    <2>1. /\ index'[l] = [index[l] EXCEPT !.status = "ready", !.boot = thread[l].vm]
          /\ thread'[l] = Thread(l, "dispatch")
      BY <1>2 DEF Goto, Thread, TypeOK
    <2>2. /\ index'[l].status = "ready" /\ index'[l].lease = index[l].lease
          /\ index'[l].exit = index[l].exit
      BY <2>1 DEF TypeOK, Entries
    <2>3. thread'[l].pc = "dispatch"
      BY <2>1, ThreadType DEF Places
    <2>4. QED
      BY <1>1, <2>2, <2>3, OnceFrame
  <1>3. CASE Fail(l)
    BY <1>1, <1>3, OnceFail
  <1>4. QED
    BY <1>2, <1>3 DEF Hydrate

\* The machine a run is started on has started none.
LEMMA UnstartedIsQuiet ==
  ASSUME TypeOK, NEW l \in Labels, LabelInv(l), OnceOK(l), At(l, "dispatch")
  PROVE  /\ thread[l].vm = index[l].lease /\ index[l].lease \in Machines /\ ~Verified(l)
         /\ index[l].status \in ActiveRunStatuses /\ index[l].exit = "none"
         /\ \A m \in Machines : cloud[l][m].started = 0 /\ cloud[l][m].procs = 0
                                /\ ~cloud[l][m].done /\ cloud[l][m].archive = "none"
                                /\ cloud[l][m].state # "stopped"
  <1>1. /\ thread[l].vm = index[l].lease /\ index[l].lease \in Machines /\ ~Verified(l)
        /\ index[l].status \in ActiveRunStatuses
    BY DEF LabelInv, PlaceOK
  <1>2. \A m \in Machines : cloud[l][m].started = 0
    BY DEF OnceOK, RunOK
  <1>3. \A m \in Machines : cloud[l][m].procs \in Nat /\ cloud[l][m].procs <= cloud[l][m].started
    BY DEF TypeOK, Vms
  <1>4. \A m \in Machines : cloud[l][m].procs = 0
    BY <1>2, <1>3
  <1>5. QED
    BY <1>1, <1>2, <1>4 DEF OnceOK, RunOK, ExitOK

\* A run that is started on a machine where none was: it was started once.
LEMMA OnceStarted ==
  ASSUME TypeOK, NEW l \in Labels, LabelInv(l), OnceOK(l), At(l, "dispatch"), local' = local,
         NEW v \in Vms, v.started = 1, v.done => v.procs = 0, v.state # "stopped",
         cloud' = [cloud EXCEPT ![l][thread[l].vm] = v],
         (Goto(l, "attach") /\ UNCHANGED index) \/ Fail(l)
  PROVE  OnceOK(l)'
  <1>1. /\ thread[l].vm = index[l].lease /\ index[l].lease \in Machines /\ ~Verified(l)
        /\ index[l].status \in ActiveRunStatuses /\ index[l].exit = "none"
    BY UnstartedIsQuiet
  <1>2. \A m \in Machines : cloud[l][m].started = 0 /\ ~cloud[l][m].done
                            /\ cloud[l][m].archive = "none" /\ cloud[l][m].state # "stopped"
    BY UnstartedIsQuiet
  <1>3. \A m \in Machines : cloud'[l][m] = IF m = index[l].lease THEN v ELSE cloud[l][m]
    BY <1>1 DEF TypeOK
  <1>4. /\ thread'[l].pc \notin {"hydrate", "dispatch", "export"}
        /\ index'[l].lease = index[l].lease /\ index'[l].exit = index[l].exit
        /\ index'[l].status # "completed"
    <2>1. CASE Goto(l, "attach") /\ UNCHANGED index
      BY <1>1, <2>1 DEF Goto, TypeOK, Threads
    <2>2. QED
      BY <2>1, FailEffect
  <1>5. RunOK(l)'
    BY <1>1, <1>2, <1>3, <1>4 DEF RunOK
  <1>6. ExitOK(l)'
    BY <1>1, <1>4 DEF ExitOK
  <1>7. QED
    BY <1>5, <1>6 DEF OnceOK

\* Where no answer is lost, a dispatch starts the run at most once (fleet.py:561-571).
LEMMA OnceDispatch ==
  ASSUME TypeOK, NEW l \in Labels, LabelInv(l), OnceOK(l), ~AnswersMayBeLost, Dispatch(l)
  PROVE  OnceOK(l)'
  <1> DEFINE m == thread[l].vm
             v == [cloud[l][m] EXCEPT !.started = @ + 1, !.procs = @ + 1]
  <1>1. \/ /\ cloud' = [cloud EXCEPT ![l][m].started = @ + 1, ![l][m].procs = @ + 1]
           /\ Goto(l, "attach") /\ UNCHANGED index
        \/ Fail(l) /\ UNCHANGED cloud
    BY Zenon DEF Dispatch
  <1>2. At(l, "dispatch") /\ local' = local
    BY DEF Dispatch
  <1>3. CASE Fail(l) /\ UNCHANGED cloud
    BY <1>2, <1>3, OnceFail
  <1>4. CASE /\ cloud' = [cloud EXCEPT ![l][m].started = @ + 1, ![l][m].procs = @ + 1]
             /\ Goto(l, "attach") /\ UNCHANGED index
    <2>1. m \in Machines /\ cloud[l][m].started = 0 /\ ~cloud[l][m].done /\ cloud[l][m].state # "stopped"
      BY <1>2, UnstartedIsQuiet
    <2>2. cloud[l][m] \in Vms /\ cloud[l][m].procs <= cloud[l][m].started
      BY <2>1 DEF TypeOK
    <2>3. v \in Vms /\ v.state = cloud[l][m].state
      BY <2>2, StartedVm
    <2>4. v.started = 1 /\ ~v.done
      BY <2>1, <2>2 DEF Vms
    <2>5. cloud' = [cloud EXCEPT ![l][m] = v]
      BY <1>4, <2>1, <2>2 DEF TypeOK, Vms
    <2>6. QED
      BY <1>2, <1>4, <2>1, <2>3, <2>4, <2>5, OnceStarted
  <1>5. QED
    BY <1>1, <1>3, <1>4

\* Also when it is over at once.
LEMMA OnceDies ==
  ASSUME TypeOK, NEW l \in Labels, LabelInv(l), OnceOK(l), DispatchDies(l)
  PROVE  OnceOK(l)'
  <1> DEFINE m == thread[l].vm
             Left(over) == [cloud[l][m] EXCEPT !.started = @ + 1, !.done = over]
  <1>1. At(l, "dispatch") /\ local' = local /\ Fail(l)
    BY DEF DispatchDies
  <1>2. m \in Machines /\ cloud[l][m].started = 0 /\ cloud[l][m].procs = 0 /\ cloud[l][m].state # "stopped"
    BY <1>1, UnstartedIsQuiet
  <1>3. cloud[l][m] \in Vms /\ cloud[l][m].procs <= cloud[l][m].started
    BY <1>2 DEF TypeOK
  <1>4. CASE UNCHANGED cloud
    BY <1>1, <1>4, OnceFail
  <1>5. ASSUME NEW over \in BOOLEAN, cloud' = [cloud EXCEPT ![l][m].started = @ + 1, ![l][m].done = over]
        PROVE  OnceOK(l)'
    <2>1. Left(over) \in Vms /\ Left(over).state = cloud[l][m].state
      BY <1>3, OverVm
    <2>2. Left(over).started = 1 /\ Left(over).procs = 0
      BY <1>2, <1>3 DEF Vms
    <2>3. cloud' = [cloud EXCEPT ![l][m] = Left(over)]
      BY <1>2, <1>3, <1>5 DEF TypeOK, Vms
    <2>4. QED
      BY <1>1, <1>2, <2>1, <2>2, <2>3, OnceStarted
  <1>6. QED
    BY <1>4, <1>5 DEF DispatchDies

-----------------------------------------------------------------------------
\* Steps that follow the run and take its results.
LEMMA OnceAttach ==
  ASSUME TypeOK, NEW l \in Labels, OnceOK(l), Attach(l)
  PROVE  OnceOK(l)'
  <1>1. "running" \in Statuses \ {"completed"} /\ "follow" \in Places \ {"hydrate", "dispatch", "export"}
    BY DEF Statuses, Places
  <1>2. UNCHANGED <<cloud, local>> /\ Note(l, "running") /\ Goto(l, "follow")
    BY DEF Attach
  <1>3. QED
    BY <1>1, <1>2, OnceNote

\* A checkpoint is not the final archive.
LEMMA OnceCheckpoint ==
  ASSUME TypeOK, NEW l \in Labels, LabelInv(l), OnceOK(l), PullCheckpoint(l)
  PROVE  OnceOK(l)'
  <1>1. /\ UNCHANGED <<index, cloud, thread>> /\ ~Verified(l)
        /\ index[l].status \in ActiveRunStatuses
    BY DEF PullCheckpoint, LabelInv, PlaceOK
  <1>2. ~Verified(l)'
    BY DEF PullCheckpoint, TypeOK, Archives
  <1>3. RunOK(l)'
    BY <1>1, <1>2 DEF OnceOK, RunOK
  <1>4. ExitOK(l)'
    BY <1>1, <1>2 DEF PullCheckpoint, OnceOK, ExitOK
  <1>5. QED
    BY <1>3, <1>4 DEF OnceOK

\* The archive that comes home is the machine's, whose run is over.
LEMMA OnceFinal ==
  ASSUME TypeOK, NEW l \in Labels, LabelInv(l), OnceOK(l), PullFinal(l)
  PROVE  OnceOK(l)'
  <1> DEFINE m == index[l].lease
             a == cloud[l][m].archive
  <1>1. /\ UNCHANGED <<index, cloud>> /\ ~Verified(l) /\ m \in Machines /\ m = thread[l].vm
        /\ index[l].status \in ActiveRunStatuses
    BY DEF PullFinal, LabelInv, PlaceOK
  <1>2. cloud[l][m].done /\ a \in Archives /\ local'[l] = a
    BY <1>1 DEF PullFinal, TypeOK
  <1> PICK rc \in {ArchivedExit(a), "nonzero"} :
         thread' = [thread EXCEPT ![l].pc = "export", ![l].rc = rc]
    BY <1>1 DEF PullFinal
  <1>3. thread'[l].pc = "export" /\ thread'[l].rc = rc
    BY DEF TypeOK, Threads
  <1>4. RunOK(l)'
    BY <1>1, <1>2, <1>3 DEF OnceOK, RunOK
  <1>5. rc = "zero" => a \in {"good", "short"}
    BY DEF ArchivedExit
  <1>6. index[l].exit = "none" /\ index[l].status # "completed"
    BY <1>1 DEF OnceOK, ExitOK
  <1>7. ExitOK(l)'
    BY <1>1, <1>2, <1>3, <1>5, <1>6 DEF ExitOK
  <1>8. QED
    BY <1>4, <1>7 DEF OnceOK

\* What is here when the loop gives up is no archive.
LEMMA OnceGiveUp ==
  ASSUME TypeOK, NEW l \in Labels, LabelInv(l), OnceOK(l), GiveUp(l)
  PROVE  OnceOK(l)'
  <1>1. cloud' = cloud /\ ~Verified(l) /\ Recover(l)
    BY DEF GiveUp, LabelInv, PlaceOK
  <1>2. ~Verified(l)'
    BY <1>1 DEF GiveUp, TypeOK, Archives
  <1>3. /\ thread'[l].pc \notin {"hydrate", "dispatch", "export"}
        /\ index'[l].lease = index[l].lease /\ index'[l].exit = index[l].exit
        /\ index'[l].status # "completed"
    BY <1>1, FailEffect
  <1>4. QED
    BY <1>1, <1>2, <1>3 DEF OnceOK, RunOK, ExitOK

\* The exit code that is noted is that of the archive.
LEMMA OnceExport ==
  ASSUME TypeOK, NEW l \in Labels, LabelInv(l), OnceOK(l), Export(l)
  PROVE  OnceOK(l)'
  <1>1. UNCHANGED <<cloud, local>> /\ Verified(l) /\ At(l, "export")
    BY DEF Export, LabelInv, PlaceOK
  <1>2. /\ index'[l] = [index[l] EXCEPT !.status = "exported", !.exit = thread[l].rc]
        /\ thread'[l] = Thread(l, "stop")
    BY DEF Export, Goto, Thread, TypeOK
  <1>3. /\ index'[l].status = "exported" /\ index'[l].exit = thread[l].rc
        /\ index'[l].lease = index[l].lease
    BY <1>2 DEF TypeOK, Entries
  <1>4. thread'[l].pc = "stop"
    BY <1>2, ThreadType DEF Places
  <1>5. QED
    BY <1>1, <1>3, <1>4 DEF OnceOK, RunOK, ExitOK

-----------------------------------------------------------------------------
\* An exit code that is noted late is the archive's too.
LEMMA LateExit ==
  ASSUME NEW l \in Labels, OnceOK(l), Verified(l), ExitOf(l) = "zero"
  PROVE  local[l] \in {"good", "short"}
  BY DEF OnceOK, ExitOK, ExitOf, ArchivedExit

\* The machine is stopped after its archive came home (fleet.py:1253-1267).
LEMMA OnceStop ==
  ASSUME TypeOK, NEW l \in Labels, LabelInv(l), OnceOK(l), Stop(l)
  PROVE  OnceOK(l)'
  <1> DEFINE m == index[l].lease
             v == [cloud[l][m] EXCEPT !.state = IF @ = "up" THEN "stopped" ELSE @]
             Stopped == cloud' = [cloud EXCEPT ![l][m].state = IF @ = "up" THEN "stopped" ELSE @]
  <1>1. local' = local /\ index[l].status \in CleanupStatuses
    BY DEF Stop, LabelInv, PlaceOK
  <1>2. CASE CannotFinish(l)
    BY <1>1, <1>2, OnceFail DEF Stop
  <1>3. CASE ~CannotFinish(l)
    <2>1. Verified(l) /\ m \in Machines
      BY <1>3 DEF CannotFinish, TypeOK, Entries
    <2>2. \A n \in Machines : cloud'[l][n] = cloud[l][n] \/ (n = m /\ cloud'[l][n] = v)
      <3>1. CASE Stopped
        BY <2>1, <3>1 DEF TypeOK, Vms
      <3>2. CASE UNCHANGED cloud
        BY <3>2
      <3>3. QED
        BY <1>3, <3>1, <3>2 DEF Stop
    <2>3. /\ v.started = cloud[l][m].started /\ v.procs = cloud[l][m].procs
          /\ v.done = cloud[l][m].done /\ v.archive = cloud[l][m].archive
      BY <2>1 DEF TypeOK, Vms
    <2>4. cloud[l][m].procs = 0
      BY <2>1 DEF OnceOK, RunOK
    <2>5. /\ index'[l].lease = m /\ index'[l].status # "completed"
          /\ index'[l].exit \in {index[l].exit, ExitOf(l)}
          /\ thread'[l].pc \in {"settle", "done"}
      <3>1. CASE Goto(l, "settle") /\ UNCHANGED index
        <4>1. thread'[l] = Thread(l, "settle")
          BY <3>1 DEF Goto, Thread, TypeOK
        <4>2. QED
          BY <1>1, <3>1, <4>1, ThreadType DEF Places
      <3>2. CASE /\ index' = [index EXCEPT ![l].status = "stop_pending", ![l].exit = ExitOf(l)]
                 /\ Goto(l, "done")
        <4>1. /\ index'[l] = [index[l] EXCEPT !.status = "stop_pending", !.exit = ExitOf(l)]
              /\ thread'[l] = Thread(l, "done")
          BY <3>2 DEF Goto, Thread, TypeOK
        <4>2. thread'[l].pc = "done"
          BY <4>1, ThreadType DEF Places
        <4>3. QED
          BY <4>1, <4>2 DEF TypeOK, Entries
      <3>3. QED
        BY <1>3, <3>1, <3>2 DEF Stop
    <2>6. RunOK(l)'
      <3>1. ASSUME NEW n \in Machines
            PROVE  /\ cloud'[l][n].started = cloud[l][n].started
                   /\ cloud'[l][n].procs = cloud[l][n].procs
                   /\ cloud'[l][n].done = cloud[l][n].done
                   /\ cloud'[l][n].archive = cloud[l][n].archive
                   /\ cloud'[l][n].state = "stopped" => cloud[l][n].state = "stopped" \/ n = m
        BY <2>2, <2>3
      <3>2. index'[l].lease = index[l].lease /\ local'[l] = local[l]
            /\ thread'[l].pc \notin {"hydrate", "dispatch"}
        BY <1>1, <2>5
      <3>3. QED
        BY <2>1, <2>4, <3>1, <3>2 DEF OnceOK, RunOK
    <2>7. index'[l].exit = "zero" => local[l] \in {"good", "short"}
      BY <2>1, <2>5, LateExit DEF OnceOK, ExitOK
    <2>8. ExitOK(l)'
      BY <1>1, <2>1, <2>5, <2>7 DEF ExitOK
    <2>9. QED
      BY <2>6, <2>8 DEF OnceOK
  <1>4. QED
    BY <1>2, <1>3

\* Completed is only what ended with 0 and all results (fleet.py:1268-1348).
LEMMA OnceSettle ==
  ASSUME TypeOK, NEW l \in Labels, LabelInv(l), OnceOK(l), Settle(l)
  PROVE  OnceOK(l)'
  <1> DEFINE completed == ExitOf(l) = "zero" /\ HasAllResults(local[l])
             s == IF completed THEN "completed" ELSE "failed"
             p == IF completed THEN "done" ELSE "rerun"
  <1>1. UNCHANGED <<cloud, local>> /\ Verified(l)
    BY DEF Settle, LabelInv, PlaceOK
  <1>2. /\ index'[l] = [index[l] EXCEPT !.status = s, !.exit = ExitOf(l)]
        /\ thread'[l] = Thread(l, p)
    BY DEF Settle, Goto, Thread, TypeOK
  <1>3. index'[l].status = s /\ index'[l].exit = ExitOf(l) /\ index'[l].lease = index[l].lease
    BY <1>2 DEF TypeOK, Entries
  <1>4. thread'[l].pc \in {"done", "rerun"}
    BY <1>2, ThreadType DEF Places
  <1>5. ExitOf(l) = "zero" => local[l] \in {"good", "short"}
    BY <1>1, LateExit
  <1>6. s = "completed" => local[l] = "good"
    BY <1>5 DEF HasAllResults
  <1>7. RunOK(l)'
    BY <1>1, <1>3, <1>4 DEF OnceOK, RunOK
  <1>8. ExitOK(l)'
    BY <1>1, <1>3, <1>4, <1>5, <1>6 DEF ExitOK
  <1>9. QED
    BY <1>7, <1>8 DEF OnceOK

\* Deciding on a rerun touches no machine.
LEMMA OnceDecide ==
  ASSUME TypeOK, NEW l \in Labels, OnceOK(l), DecideRerun(l)
  PROVE  OnceOK(l)'
  <1>1. thread'[l].pc \in {"done", "append"} /\ UNCHANGED <<index, cloud, local>>
    BY DEF DecideRerun, TypeOK, Threads
  <1>2. QED
    BY <1>1, OnceFrame

-----------------------------------------------------------------------------
\* Every step of a thread keeps what is said of its label.
LEMMA OnceThread ==
  ASSUME TypeOK, RootsInv, ~AnswersMayBeLost, \A k \in Labels : LabelInv(k), OnceInv,
         NEW l \in Labels, ThreadStep(l)
  PROVE  OnceInv'
  <1>1. LabelInv(l) /\ \A k \in Labels : OnceOK(k)
    BY DEF OnceInv, OnceOK
  <1>2. CASE AppendRerun(l)
    <2>1. UNCHANGED <<cloud, local>> /\ At(l, "append")
      BY <1>2 DEF AppendRerun
    <2>2. ASSUME NEW k \in Labels PROVE OnceOK(k)'
      <3>1. CASE Fail(l)
        <4>1. k # l => index'[k] = index[k] /\ thread'[k] = thread[k]
          BY <3>1, FailNotes DEF Note, Goto, TypeOK
        <4>2. QED
          BY <1>1, <2>1, <3>1, <4>1, OnceFail, OnceFrame
      <3>2. ASSUME Goto(l, "done") \/ Goto(l, "raised"), index'[k] = index[k]
            PROVE  OnceOK(k)'
        <4>1. thread'[k].pc \notin {"hydrate", "dispatch", "export"} \/ thread'[k] = thread[k]
          BY <3>2 DEF Goto, TypeOK, Threads
        <4>2. QED
          BY <1>1, <2>1, <3>2, <4>1, OnceFrame
      <3>3. ASSUME k \notin Present, index'[k] = Planned, thread'[k] = thread[k]
            PROVE  OnceOK(k)'
        <4>1. index[k] = NoEntry
          BY <3>3 DEF Present, LabelInv, EntryOK
        <4>2. /\ Planned.status = "planned" /\ Planned.lease = NoEntry.lease
              /\ Planned.exit = NoEntry.exit
          BY DEF Planned, NoEntry
        <4>3. QED
          BY <1>1, <2>1, <3>3, <4>1, <4>2, OnceFrame
      <3>4. ASSUME <<l[1], thread[l].next>> \notin Present,
                   index' = [index EXCEPT ![<<l[1], thread[l].next>>] = Planned], Goto(l, "done")
            PROVE  OnceOK(k)'
        <4>1. CASE k = <<l[1], thread[l].next>>
          <5>1. l \in Present
            BY <1>1, <2>1, RunningIsPresent DEF Present
          <5>2. k # l /\ k \notin Present /\ index'[k] = Planned /\ thread'[k] = thread[k]
            BY <3>4, <4>1, <5>1 DEF Goto, TypeOK
          <5>3. QED
            BY <3>3, <5>2
        <4>2. CASE k # <<l[1], thread[l].next>>
          <5>1. index'[k] = index[k]
            BY <3>4, <4>2 DEF TypeOK
          <5>2. QED
            BY <3>2, <3>4, <5>1
        <4>3. QED
          BY <4>1, <4>2
      <3>5. QED
        BY <1>2, <3>1, <3>2, <3>4 DEF AppendRerun
    <2>3. QED
      BY <2>2 DEF OnceInv, OnceOK
  <1>3. CASE ~AppendRerun(l)
    <2>1. OnceOK(l)'
      <3>1. CASE Start(l) \/ Reattach(l) \/ RequestLease(l) \/ FindMachine(l) \/ WarmUpFails(l)
        BY <1>1, <3>1, OnceLeasing
      <3>2. CASE WarmUp(l) \/ BindLease(l) \/ Probe(l) \/ Hydrate(l)
        BY <1>1, <3>2, OnceWarmUp, OnceBind, OnceProbe, OnceHydrate
      <3>3. CASE Dispatch(l) \/ DispatchDies(l) \/ Attach(l) \/ PullCheckpoint(l)
        BY <1>1, <3>3, OnceDispatch, OnceDies, OnceAttach, OnceCheckpoint
      <3>4. CASE PullFinal(l) \/ GiveUp(l) \/ Export(l)
        BY <1>1, <3>4, OnceFinal, OnceGiveUp, OnceExport
      <3>5. CASE Stop(l) \/ Settle(l) \/ DecideRerun(l)
        BY <1>1, <3>5, OnceStop, OnceSettle, OnceDecide
      <3>6. QED
        BY <1>3, <3>1, <3>2, <3>3, <3>4, <3>5 DEF ThreadStep
    <2>2. \A k \in Labels \ {l} : OnceOK(k)'
      BY <1>1, <1>3, ThreadStepMoves, OnceFrame DEF Others, Same
    <2>3. QED
      BY <2>1, <2>2 DEF OnceInv, OnceOK
  <1>4. QED
    BY <1>2, <1>3

\* A run ends once, and a machine that is gone takes nothing back.
LEMMA OnceMachine ==
  ASSUME TypeOK, NEW l \in Labels, NEW m \in Machines, OnceOK(l), Up(l, m), NEW v,
         UNCHANGED <<index, local, thread>>, cloud' = [cloud EXCEPT ![l][m] = v],
         v.started = cloud[l][m].started, v.state # "stopped", v.done => v.procs = 0,
         v.started = 0 => ~v.done,
         \/ cloud[l][m].procs > 0 /\ v.archive \in {"none"} \cup Archives
         \/ v.archive = cloud[l][m].archive /\ v.procs = 0
  PROVE  OnceOK(l)'
  <1>1. cloud[l][m].procs \in Nat /\ cloud[l][m].started \in Nat
        /\ cloud[l][m].procs <= cloud[l][m].started
    BY DEF TypeOK, Vms
  <1>2. \A n \in Machines : cloud'[l][n] = IF n = m THEN v ELSE cloud[l][n]
    BY DEF TypeOK
  <1>3. CASE cloud[l][m].procs > 0
    <2>1. cloud[l][m].started = 1 /\ ~(Verified(l) /\ m = index[l].lease)
      BY <1>1, <1>3 DEF OnceOK, RunOK
    <2>2. RunOK(l)'
      BY <1>2, <2>1 DEF OnceOK, RunOK
    <2>3. QED
      BY <2>2 DEF OnceOK, ExitOK
  <1>4. CASE v.archive = cloud[l][m].archive /\ v.procs = 0
    <2>1. RunOK(l)'
      BY <1>2, <1>4 DEF OnceOK, RunOK
    <2>2. QED
      BY <2>1 DEF OnceOK, ExitOK
  <1>5. QED
    BY <1>3, <1>4

\* A run that ends or dies, and a lease that expires, keep it too.
LEMMA OnceMachineStep ==
  ASSUME TypeOK, NEW l \in Labels, NEW m \in Machines, OnceOK(l), MachineStep(l, m)
  PROVE  OnceOK(l)'
  <1> DEFINE c == cloud[l][m]
             V(d, a) == [c EXCEPT !.procs = @ - 1, !.done = d, !.archive = a]
             lost == [c EXCEPT !.state = "lost", !.procs = 0, !.done = FALSE]
  <1>1. c \in Vms /\ c.procs <= c.started /\ Up(l, m) /\ c.started <= 1
    BY DEF TypeOK, MachineStep, RunEnds, RunAborts, RunIsKilled, LeaseExpires, OnceOK, RunOK
  <1>2. UNCHANGED <<index, local, thread>>
    BY DEF MachineStep, RunEnds, RunAborts, RunIsKilled, LeaseExpires
  <1>3. ASSUME c.procs > 0, NEW d \in BOOLEAN, NEW a \in {"none"} \cup Archives,
               cloud' = [cloud EXCEPT ![l][m] = V(d, a)]
        PROVE  OnceOK(l)'
    <2>1. c.procs = 1 /\ c.started = 1
      BY <1>1, <1>3 DEF Vms
    <2>2. /\ V(d, a).started = 1 /\ V(d, a).procs = 0 /\ V(d, a).state = "up"
          /\ V(d, a).archive = a
      BY <1>1, <2>1 DEF Vms
    <2> PICK v : v = V(d, a)
      OBVIOUS
    <2>3. /\ cloud' = [cloud EXCEPT ![l][m] = v] /\ v.started = c.started /\ v.state # "stopped"
          /\ v.procs = 0 /\ v.started # 0 /\ v.archive \in {"none"} \cup Archives
      BY <1>3, <2>1, <2>2
    <2> HIDE DEF V
    <2>4. QED
      BY <1>1, <1>2, <1>3, <2>3, OnceMachine
  <1>4. CASE RunEnds(l, m)
    <2>1. PICK a \in Archives :
            cloud' = [cloud EXCEPT ![l][m].procs = @ - 1, ![l][m].done = TRUE, ![l][m].archive = a]
      BY <1>4 DEF RunEnds
    <2>2. cloud' = [cloud EXCEPT ![l][m] = V(TRUE, a)]
      BY <1>1, <2>1 DEF TypeOK, Vms
    <2>3. QED
      BY <1>3, <1>4, <2>2 DEF RunEnds
  <1>5. CASE RunAborts(l, m)
    <2>1. c.archive \in {"none"} \cup Archives
      BY <1>1 DEF Vms
    <2>2. V(TRUE, c.archive) = [c EXCEPT !.procs = @ - 1, !.done = TRUE]
      BY <1>1 DEF Vms
    <2>3. cloud' = [cloud EXCEPT ![l][m] = V(TRUE, c.archive)]
      BY <1>1, <1>5, <2>2 DEF RunAborts, TypeOK
    <2>4. QED
      BY <1>3, <1>5, <2>1, <2>3 DEF RunAborts
  <1>6. CASE RunIsKilled(l, m)
    <2>1. /\ cloud' = [cloud EXCEPT ![l][m] = V(c.done, c.archive)]
          /\ c.archive \in {"none"} \cup Archives /\ c.done \in BOOLEAN
      BY <1>1, <1>6 DEF RunIsKilled, TypeOK, Vms
    <2>2. QED
      BY <1>3, <1>6, <2>1 DEF RunIsKilled
  <1>7. CASE LeaseExpires(l, m)
    <2>1. cloud' = [cloud EXCEPT ![l][m] = lost]
      BY <1>1, <1>7 DEF LeaseExpires, TypeOK, Vms
    <2>2. /\ lost.started = c.started /\ lost.state = "lost" /\ lost.procs = 0 /\ ~lost.done
          /\ lost.archive = c.archive
      BY <1>1 DEF Vms
    <2>3. QED
      BY <1>1, <1>2, <2>1, <2>2, OnceMachine
  <1>8. QED
    BY <1>4, <1>5, <1>6, <1>7 DEF MachineStep

\* And so does every step of the fleet.
LEMMA OnceStep ==
  ASSUME Inv, OnceInv, ~AnswersMayBeLost, Next
  PROVE  OnceInv'
  <1>1. /\ TypeOK /\ MainInv /\ \A k \in Labels : LabelInv(k) /\ OnceOK(k)
        /\ RootsInv /\ (main.pc = "append" => main.next \in Labels)
    BY DEF Inv, FleetInv, OnceInv, OnceOK
  <1>2. CASE \E l \in Labels : ThreadStep(l)
    BY <1>1, <1>2, OnceThread
  <1>3. CASE \E l \in Labels, m \in Machines : MachineStep(l, m)
    BY <1>1, <1>3, OnceMachineStep, MachineStepKeeps, OnceFrame DEF Others, Same, OnceInv, OnceOK
  <1>4. ASSUME UNCHANGED <<cloud, local>>,
               \A k \in Labels :
                  /\ index'[k].lease = index[k].lease /\ index'[k].exit = index[k].exit
                  /\ index'[k].status = index[k].status \/ index'[k].status # "completed"
                  /\ \/ thread'[k].pc \notin {"hydrate", "dispatch", "export"}
                     \/ thread'[k] = thread[k]
        PROVE  OnceInv'
    <2>1. \A k \in Labels : OnceOK(k)'
      BY <1>1, <1>4, OnceFrame
    <2>2. QED
      BY <2>1 DEF OnceInv, OnceOK
  <1>5. CASE \E l \in Labels : ResumeEntry(l)
    <2> PICK l \in Labels : ResumeEntry(l)
      BY <1>5
    <2>1. PICK s \in Statuses \ {"completed"} : Note(l, s) /\ UNCHANGED <<cloud, local, thread>>
      BY DEF ResumeEntry, Statuses
    <2>2. \A k \in Labels : index'[k] = IF k = l THEN Entry(l, s) ELSE index[k]
      BY <1>1, <2>1 DEF Note, Entry, TypeOK
    <2>3. /\ Entry(l, s).status = s /\ Entry(l, s).lease = index[l].lease
          /\ Entry(l, s).exit = index[l].exit
      BY <1>1, EntryType DEF Entry, TypeOK, Entries
    <2>4. QED
      BY <1>4, <2>1, <2>2, <2>3
  <1>6. CASE AppendExisting
    <2>1. UNCHANGED <<cloud, local, thread>>
      BY <1>6 DEF AppendExisting
    <2>2. CASE main.next \in Present
      BY <1>4, <1>6, <2>1, <2>2 DEF AppendExisting
    <2>3. CASE main.next \notin Present
      <3>1. \A k \in Labels : index'[k] = IF k = main.next THEN Planned ELSE index[k]
        BY <1>1, <1>6, <2>3 DEF AppendExisting, TypeOK
      <3>2. main.next \in Labels /\ index[main.next] = NoEntry
        BY <1>1, <1>6, <2>3 DEF AppendExisting, Present, LabelInv, EntryOK
      <3>3. /\ Planned.status = "planned" /\ Planned.lease = NoEntry.lease
            /\ Planned.exit = NoEntry.exit
        BY DEF Planned, NoEntry
      <3>4. QED
        BY <1>4, <2>1, <3>1, <3>2, <3>3
    <2>4. QED
      BY <2>2, <2>3
  <1>7. CASE Collect
    <2>1. UNCHANGED <<cloud, local>>
      BY <1>7 DEF Collect
    <2>2. \A k \in Labels : thread'[k].pc = "idle" \/ thread'[k] = thread[k]
      BY <1>7, IdleType DEF Collect
    <2>3. \A k \in Labels : index'[k] \in {index[k], Entry(k, "recovery_required")}
      BY <1>7 DEF Collect, Entry
    <2>4. \A k \in Labels : /\ Entry(k, "recovery_required").status = "recovery_required"
                            /\ Entry(k, "recovery_required").lease = index[k].lease
                            /\ Entry(k, "recovery_required").exit = index[k].exit
      BY <1>1 DEF Entry, TypeOK, Entries
    <2>5. QED
      BY <1>4, <2>1, <2>2, <2>3, <2>4
  <1>8. CASE \/ StartController \/ ResumeDone \/ RerunsDone \/ FillDone
             \/ \E l \in Labels : DecideExisting(l)
    <2>1. UNCHANGED <<index, cloud, local, thread>>
      BY <1>8 DEF StartController, ResumeDone, RerunsDone, FillDone, DecideExisting
    <2>2. QED
      BY <1>4, <2>1
  <1>9. CASE LeavePool \/ Crash
    <2>1. UNCHANGED <<index, cloud, local>> /\ \A k \in Labels : thread'[k].pc = "idle"
      BY <1>9, IdleType DEF LeavePool, Crash
    <2>2. QED
      BY <1>4, <2>1
  <1>10. CASE \E l \in Labels : Submit(l)
    <2> PICK l \in Labels : Submit(l)
      BY <1>10
    <2>1. UNCHANGED <<index, cloud, local>> /\ thread' = [thread EXCEPT ![l] = [Idle EXCEPT !.pc = "start"]]
      BY DEF Submit
    <2>2. [Idle EXCEPT !.pc = "start"].pc = "start"
      BY DEF Idle
    <2>3. \A k \in Labels : thread'[k].pc = "start" \/ thread'[k] = thread[k]
      BY <1>1, <2>1, <2>2 DEF TypeOK
    <2>4. QED
      BY <1>4, <2>1, <2>3
  <1>11. QED
    BY <1>2, <1>3, <1>5, <1>6, <1>7, <1>8, <1>9, <1>10 DEF Next, MainStep

\* At first nothing was started.
LEMMA OnceStart ==
  ASSUME Init PROVE OnceInv
  <1> SUFFICES ASSUME NEW l \in Labels PROVE OnceOK(l)
    BY DEF OnceInv, OnceOK
  <1>1. /\ local[l] = "none" /\ thread[l].pc = "idle" /\ index[l] \in {Planned, NoEntry}
        /\ \A m \in Machines : cloud[l][m] = NoVm
    BY IdleType DEF Init
  <1>2. index[l].exit = "none" /\ index[l].status # "completed"
    BY <1>1 DEF Planned, NoEntry
  <1>3. /\ NoVm.started = 0 /\ NoVm.procs = 0 /\ ~NoVm.done /\ NoVm.archive = "none"
        /\ NoVm.state = "none"
    BY DEF NoVm
  <1>4. QED
    BY <1>1, <1>2, <1>3 DEF OnceOK, RunOK, ExitOK, Archives

\* What the machines did is what the index and the files say, where no answer of a dispatch is lost.
THEOREM OnceInvariance ==
  ASSUME ~AnswersMayBeLost
  PROVE  Spec => []OnceInv
  <1>1. Inv /\ OnceInv /\ [Next]_vars => OnceInv'
    <2> SUFFICES ASSUME Inv, OnceInv, UNCHANGED vars PROVE OnceInv'
      BY OnceStep
    <2>1. \A k \in Labels : OnceOK(k)'
      BY OnceFrame DEF OnceInv, OnceOK, vars
    <2>2. QED
      BY <2>1 DEF OnceInv, OnceOK
  <1>2. QED
    BY <1>1, OnceStart, Invariance, PTL DEF Spec

\* remote_run.sh is started once for a label, on one machine, by however many controllers the run is
\* taken up: _probe_remote and the order of notes and commands see to it (fleet.py:561-571).  A lost
\* answer of a dispatch breaks this, which is the hypothesis.
THEOREM Started ==
  ASSUME ~AnswersMayBeLost
  PROVE  Spec => []StartedOnce
  <1>1. Inv /\ OnceInv => StartedOnce
    <2> SUFFICES ASSUME Inv, OnceInv, NEW l \in Labels, NEW m \in Machines, cloud[l][m].started > 0
                 PROVE  cloud[l][m].started = 1 /\ \A n \in Machines : cloud[l][n].started > 0 => n = m
      BY DEF StartedOnce
    <2>1. \A n \in Machines : cloud[l][n].started \in Nat /\ cloud[l][n].started <= 1
      BY DEF Inv, FleetInv, TypeOK, Vms, OnceInv, RunOK
    <2>2. \A n \in Machines : cloud[l][n].started > 0 => cloud[l][n].started = 1 /\ n = index[l].lease
      BY <2>1 DEF OnceInv, RunOK
    <2>3. QED
      BY <2>2
  <1>2. QED
    BY <1>1, Invariance, OnceInvariance, PTL

\* No machine is stopped under its run or before the final archive is here (fleet.py:1253-1267).
THEOREM NotCut ==
  ASSUME ~AnswersMayBeLost
  PROVE  Spec => []RunsAreNotCut
  <1>1. OnceInv => RunsAreNotCut
    BY DEF OnceInv, RunOK, RunsAreNotCut
  <1>2. QED
    BY <1>1, OnceInvariance, PTL

\* A completed run ended with status 0 and all its results on the machine it was leased
\* (fleet.py:1268-1348).
THEOREM Genuine ==
  ASSUME ~AnswersMayBeLost
  PROVE  Spec => []CompletedIsGenuine
  <1>1. Inv /\ OnceInv => CompletedIsGenuine
    <2> SUFFICES ASSUME Inv, OnceInv, NEW l \in Labels, index[l].status = "completed"
                 PROVE  local[l] = "good" /\ cloud[l][index[l].lease].archive = "good"
      BY DEF CompletedIsGenuine, WithStatus, Present
    <2>1. local[l] = "good" /\ Verified(l)
      BY DEF OnceInv, ExitOK, Archives
    <2>2. index[l].lease \in Machines
      BY <2>1 DEF Inv, FleetInv, LabelInv, EntryOK, TypeOK, Entries
    <2>3. QED
      BY <2>1, <2>2 DEF OnceInv, RunOK
  <1>2. QED
    BY <1>1, Invariance, OnceInvariance, PTL

-----------------------------------------------------------------------------
\* The models' limits: whoever waits for a machine was counted when it was let in, and nothing but
\* that lets in another.
InUse == ActiveEntries \cup PendingReservations
IsOpen(k) == index[k].status \in OpenStatuses

\* In place of the sets: what one label is.
LEMMA InUseIs ==
  ASSUME TypeOK, NEW k \in Labels, LabelInv(k)
  PROVE  /\ k \in PendingReservations <=>
               thread[k].pc # "idle" /\ index[k].lease = NoMachine /\ IsOpen(k)
         /\ k \in ActiveEntries <=>
               index[k].lease # NoMachine /\ index[k].status \in ActiveRunStatuses
         /\ thread[k].pc # "idle" => (k \in InUse <=> IsOpen(k))
  BY DEF PendingReservations, ActiveEntries, InUse, IsOpen, InFlight, Leased, WithStatus, Present,
         LabelInv, EntryOK, TypeOK, Entries

\* There are finitely many labels.
LEMMA LabelsFinite == IsFiniteSet(Labels)
  <1>1. IsFiniteSet(0..MaxAttempts)
    BY FleetAssumption, FS_Interval
  <1>2. QED
    BY <1>1, FleetAssumption, FS_Product DEF Labels

\* And finitely many runs of a model.
LEMMA RunsOfFinite ==
  ASSUME NEW m
  PROVE  IsFiniteSet(RunsOf(m)) /\ RunsOf(m) \subseteq InUse /\ RunsOf(m) \subseteq Labels
  <1>1. RunsOf(m) \subseteq Labels /\ RunsOf(m) \subseteq InUse
    BY DEF RunsOf, ActiveEntries, PendingReservations, InUse, Leased, WithStatus, Present, InFlight
  <1>2. QED
    BY <1>1, LabelsFinite, FS_Subset

\* When no run is added, the limits are kept.
LEMMA ShrinkKeepsLimit ==
  ASSUME LimitInv, PendingReservations' \subseteq PendingReservations, InUse' \subseteq InUse
  PROVE  LimitInv'
  <1> SUFFICES ASSUME NEW l \in PendingReservations'
               PROVE  Cardinality(RunsOf(ModelOf[l[1]])') <= ModelMaxRuns[ModelOf[l[1]]]
    BY DEF LimitInv
  <1> DEFINE m == ModelOf[l[1]]
  <1>1. Cardinality(RunsOf(m)) <= ModelMaxRuns[m]
    BY DEF LimitInv
  <1>2. RunsOf(m)' \subseteq RunsOf(m)
    BY DEF RunsOf, InUse
  <1>3. Cardinality(RunsOf(m)') <= Cardinality(RunsOf(m)) /\ Cardinality(RunsOf(m)) \in Nat
        /\ Cardinality(RunsOf(m)') \in Nat
    BY <1>2, RunsOfFinite, FS_Subset, FS_CardinalityType
  <1>4. l[1] \in Roots
    BY DEF PendingReservations, WithStatus, Present, Labels
  <1>5. ModelMaxRuns[m] \in Nat
    BY <1>4, FleetAssumption
  <1>6. QED
    BY <1>1, <1>3, <1>5

\* No step of a thread opens an entry or takes a lease from it.
LEMMA OpenOnlyWas ==
  ASSUME TypeOK, NEW l \in Labels, LabelInv(l), ThreadStep(l)
  PROVE  /\ IsOpen(l)' => IsOpen(l)
         /\ index'[l].lease = NoMachine => index[l].lease = NoMachine
  <1>1. index[l] \in Entries /\ index[l].status \in Statuses
    BY DEF TypeOK, Entries
  <1>2. ASSUME Fail(l) \/ Recover(l) \/ LoseLease(l)
        PROVE  ~IsOpen(l)' /\ index'[l].lease = index[l].lease
    <2>1. PICK s \in {"recovery_required", "failed", "lease_lost"} : Note(l, s)
      BY <1>2 DEF Fail, Recover, LoseLease
    <2>2. index'[l] = [index[l] EXCEPT !.status = s]
      BY <2>1 DEF Note, TypeOK
    <2>3. QED
      BY <1>1, <2>2 DEF IsOpen, Entries
  <1>3. ASSUME index'[l] = index[l]
        PROVE  (IsOpen(l)' <=> IsOpen(l)) /\ index'[l].lease = index[l].lease
    BY <1>3 DEF IsOpen
  <1>4. CASE Start(l)
    <2>1. CASE Verified(l)
      <3>1. index'[l] = [index[l] EXCEPT !.status = "exported"]
        BY <1>4, <2>1 DEF Start, Note, TypeOK
      <3>2. QED
        BY <1>1, <3>1 DEF IsOpen, Entries
    <2>2. QED
      BY <1>3, <1>4, <2>1 DEF Start
  <1>5. CASE Reattach(l) \/ FindMachine(l) \/ WarmUpFails(l)
    BY <1>2, <1>3, <1>5 DEF Reattach, FindMachine, WarmUpFails
  <1>6. CASE RequestLease(l)
    BY <1>1, <1>6 DEF RequestLease, LabelInv, PlaceOK, IsOpen
  <1>7. CASE WarmUp(l)
    BY <1>2, <1>3, <1>7 DEF WarmUp
  <1>8. CASE BindLease(l)
    <2>1. CASE Up(l, thread[l].vm)
      BY <1>1, <1>8, <2>1 DEF BindLease, LabelInv, PlaceOK, IsOpen
    <2>2. QED
      BY <1>2, <1>8, <2>1 DEF BindLease
  <1>9. CASE Probe(l)
    BY <1>2, <1>3, <1>9 DEF Probe
  <1>10. CASE Hydrate(l)
    <2>1. CASE index' = [index EXCEPT ![l].status = "ready", ![l].boot = thread[l].vm]
      <3>1. index'[l] = [index[l] EXCEPT !.status = "ready", !.boot = thread[l].vm]
        BY <2>1 DEF TypeOK
      <3>2. index'[l].lease = index[l].lease
        BY <1>1, <3>1 DEF Entries
      <3>3. IsOpen(l)
        BY <1>10 DEF Hydrate, LabelInv, PlaceOK, IsOpen
      <3>4. QED
        BY <3>2, <3>3
    <2>2. QED
      BY <1>2, <1>10, <2>1 DEF Hydrate
  <1>11. CASE Dispatch(l) \/ DispatchDies(l)
    BY <1>2, <1>3, <1>11 DEF Dispatch, DispatchDies
  <1>12. CASE Attach(l)
    <2>1. index'[l] = [index[l] EXCEPT !.status = "running"]
      BY <1>12 DEF Attach, Note, TypeOK
    <2>2. QED
      BY <1>1, <1>12, <2>1 DEF Attach, Entries, LabelInv, PlaceOK, IsOpen
  <1>13. CASE PullCheckpoint(l) \/ PullFinal(l) \/ GiveUp(l) \/ DecideRerun(l)
    BY <1>2, <1>3, <1>13 DEF PullCheckpoint, PullFinal, GiveUp, DecideRerun
  <1>14. CASE Export(l)
    <2>1. index'[l] = [index[l] EXCEPT !.status = "exported", !.exit = thread[l].rc]
      BY <1>14 DEF Export, TypeOK
    <2>2. QED
      BY <1>1, <2>1 DEF Entries, IsOpen
  <1>15. CASE Stop(l)
    <2>1. CASE index' = [index EXCEPT ![l].status = "stop_pending", ![l].exit = ExitOf(l)]
      <3>1. index'[l] = [index[l] EXCEPT !.status = "stop_pending", !.exit = ExitOf(l)]
        BY <2>1 DEF TypeOK
      <3>2. QED
        BY <1>1, <3>1 DEF Entries, IsOpen
    <2>2. index' = index \/ Recover(l) \/ <2>1!1
      BY <1>15 DEF Stop
    <2>3. QED
      BY <1>2, <1>3, <2>1, <2>2
  <1>16. CASE Settle(l)
    <2> DEFINE s == IF ExitOf(l) = "zero" /\ HasAllResults(local[l]) THEN "completed" ELSE "failed"
    <2>1. index'[l] = [index[l] EXCEPT !.status = s, !.exit = ExitOf(l)]
      BY <1>16 DEF Settle, TypeOK
    <2>2. QED
      BY <1>1, <2>1 DEF Entries, IsOpen
  <1>17. CASE AppendRerun(l)
    <2> PICK r \in Labels : r = <<l[1], thread[l].next>>
      BY DEF Labels, TypeOK, Threads
    <2>1. l \in Present
      BY <1>17 DEF AppendRerun, Present, LabelInv, EntryOK
    <2>2. CASE r \notin Present
      <3>1. index' = [index EXCEPT ![r] = Planned] /\ r # l
        BY <1>17, <2>1, <2>2 DEF AppendRerun
      <3>2. QED
        BY <1>3, <3>1 DEF TypeOK
    <2>3. CASE r \in Present
      BY <1>2, <1>3, <1>17, <2>3 DEF AppendRerun
    <2>4. QED
      BY <2>2, <2>3
  <1>18. QED
    BY <1>4, <1>5, <1>6, <1>7, <1>8, <1>9, <1>10, <1>11, <1>12, <1>13, <1>14, <1>15, <1>16, <1>17
       DEF ThreadStep

\* One that is let in while its model has fewer runs than it may have.
LEMMA LetInKeepsLimit ==
  ASSUME LimitInv, NEW l \in Labels, ModelAvailable(l),
         PendingReservations' \subseteq PendingReservations \cup {l}, InUse' \subseteq InUse \cup {l},
         \A k \in Labels \ {l} : k \in InUse' => k \in InUse
  PROVE  LimitInv'
  <1> SUFFICES ASSUME NEW k \in PendingReservations'
               PROVE  Cardinality(RunsOf(ModelOf[k[1]])') <= ModelMaxRuns[ModelOf[k[1]]]
    BY DEF LimitInv
  <1> DEFINE m == ModelOf[k[1]]
  <1>1. k \in Labels /\ k[1] \in Roots
    BY DEF PendingReservations, WithStatus, Present, Labels
  <1>2. ModelMaxRuns[m] \in Nat
    BY <1>1, FleetAssumption
  <1>3. IsFiniteSet(RunsOf(m)) /\ Cardinality(RunsOf(m)) \in Nat
    BY RunsOfFinite, FS_CardinalityType
  <1>4. CASE ModelOf[l[1]] = m
    <2>1. RunsOf(m)' \subseteq RunsOf(m) \cup {l}
      BY <1>4 DEF RunsOf, InUse
    <2>2. IsFiniteSet(RunsOf(m) \cup {l}) /\ Cardinality(RunsOf(m) \cup {l}) <= Cardinality(RunsOf(m)) + 1
          /\ Cardinality(RunsOf(m) \cup {l}) \in Nat
      <3>1. /\ IsFiniteSet(RunsOf(m) \cup {l})
            /\ Cardinality(RunsOf(m) \cup {l}) =
                  IF l \in RunsOf(m) THEN Cardinality(RunsOf(m)) ELSE Cardinality(RunsOf(m)) + 1
        BY <1>3, FS_AddElement
      <3>2. QED
        BY <1>3, <3>1
    <2>3. Cardinality(RunsOf(m)') <= Cardinality(RunsOf(m) \cup {l}) /\ Cardinality(RunsOf(m)') \in Nat
      BY <2>1, <2>2, FS_Subset, FS_CardinalityType
    <2>4. Cardinality(RunsOf(m)) < ModelMaxRuns[m]
      BY <1>4 DEF ModelAvailable
    <2>5. QED
      BY <1>2, <1>3, <2>2, <2>3, <2>4
  <1>5. CASE ModelOf[l[1]] # m
    <2>1. k \in PendingReservations
      BY <1>5
    <2>2. RunsOf(m)' \subseteq RunsOf(m)
      BY <1>5 DEF RunsOf, InUse
    <2>3. Cardinality(RunsOf(m)') <= Cardinality(RunsOf(m)) /\ Cardinality(RunsOf(m)') \in Nat
      BY <1>3, <2>2, FS_Subset, FS_CardinalityType
    <2>4. Cardinality(RunsOf(m)) <= ModelMaxRuns[m]
      BY <2>1 DEF LimitInv
    <2>5. QED
      BY <1>2, <1>3, <2>3, <2>4
  <1>6. QED
    BY <1>4, <1>5

\* Steps after which every label is as open as it was, as leased, and has no new thread.
LEMMA LimitFrame ==
  ASSUME LimitInv, TypeOK, TypeOK', \A k \in Labels : LabelInv(k), \A k \in Labels : LabelInv(k)',
         \A k \in Labels :
            \/ /\ IsOpen(k)' => IsOpen(k)
               /\ index'[k].lease = index[k].lease
               /\ index'[k].status \in ActiveRunStatuses => index[k].status \in ActiveRunStatuses
               /\ thread'[k].pc # "idle" => thread[k].pc # "idle"
            \/ k \notin InUse'
  PROVE  LimitInv'
  <1>1. ASSUME NEW k \in Labels
        PROVE  /\ k \in PendingReservations' => k \in PendingReservations
               /\ k \in InUse' => k \in InUse
    <2>1. CASE k \in InUse'
      <3>1. LabelInv(k) /\ LabelInv(k)'
        OBVIOUS
      <3>2. /\ k \in PendingReservations <=>
                  thread[k].pc # "idle" /\ index[k].lease = NoMachine /\ IsOpen(k)
            /\ k \in ActiveEntries <=>
                  index[k].lease # NoMachine /\ index[k].status \in ActiveRunStatuses
        BY <3>1, InUseIs
      <3>3. /\ k \in PendingReservations' <=>
                  thread'[k].pc # "idle" /\ index'[k].lease = NoMachine /\ IsOpen(k)'
            /\ k \in ActiveEntries' <=>
                  index'[k].lease # NoMachine /\ index'[k].status \in ActiveRunStatuses
        BY <3>1 DEF PendingReservations, ActiveEntries, IsOpen, InFlight, Leased, WithStatus, Present,
                    LabelInv, EntryOK, TypeOK, Entries
      <3>4. QED
        BY <2>1, <3>2, <3>3 DEF InUse
    <2>2. QED
      BY <2>1 DEF InUse
  <1>2. PendingReservations' \subseteq Labels /\ InUse' \subseteq Labels
    BY DEF InUse, PendingReservations, ActiveEntries, Leased, WithStatus, Present, InFlight
  <1>3. QED
    BY <1>1, <1>2, ShrinkKeepsLimit

\* A thread adds no run to its model's: it was counted when it was submitted.
LEMMA LimitThread ==
  ASSUME Inv, Inv', LimitInv, NEW l \in Labels, ThreadStep(l)
  PROVE  LimitInv'
  <1>1. /\ TypeOK /\ RootsInv /\ (\A k \in Labels : LabelInv(k)) /\ LabelInv(l)
        /\ TypeOK' /\ \A k \in Labels : LabelInv(k)'
    BY DEF Inv, FleetInv
  <1>2. thread[l].pc # "idle"
    BY ThreadRuns
  <1>3. ASSUME NEW k \in Labels \ {l}, k \in InUse' PROVE k \in InUse
    <2>1. CASE ~AppendRerun(l)
      BY <1>1, <1>3, <2>1, ThreadStepMoves
         DEF Others, Same, InUse, PendingReservations, ActiveEntries, Leased, WithStatus, Present, InFlight
    <2>2. CASE AppendRerun(l)
      <3>1. CASE Fail(l)
        <4>1. index'[k] = index[k] /\ thread'[k] = thread[k]
          BY <1>1, <3>1, FailNotes DEF Note, Goto, TypeOK
        <4>2. QED
          BY <1>3, <4>1 DEF InUse, PendingReservations, ActiveEntries, Leased, WithStatus, Present, InFlight
      <3>2. CASE Goto(l, "raised") /\ UNCHANGED index
        <4>1. index'[k] = index[k] /\ thread'[k] = thread[k]
          BY <1>1, <3>2 DEF Goto, TypeOK
        <4>2. QED
          BY <1>3, <4>1 DEF InUse, PendingReservations, ActiveEntries, Leased, WithStatus, Present, InFlight
      <3>3. CASE /\ <<l[1], thread[l].next>> \notin Present
                 /\ index' = [index EXCEPT ![<<l[1], thread[l].next>>] = Planned] /\ Goto(l, "done")
        <4>1. thread'[k] = thread[k]
          BY <1>1, <3>3 DEF Goto, TypeOK
        <4>2. CASE k = <<l[1], thread[l].next>>
          <5>1. index'[k] = Planned /\ index[k].status = "absent"
            BY <1>1, <3>3, <4>2 DEF TypeOK, Present
          <5>2. thread[k].pc = "idle" /\ Planned.lease = NoMachine
            BY <1>1, <5>1 DEF LabelInv, EntryOK, Planned, NoEntry
          <5>3. QED
            BY <1>3, <4>1, <5>1, <5>2 DEF InUse, PendingReservations, ActiveEntries, Leased, InFlight
        <4>3. CASE k # <<l[1], thread[l].next>>
          <5>1. index'[k] = index[k]
            BY <1>1, <3>3, <4>3 DEF TypeOK
          <5>2. QED
            BY <1>3, <4>1, <5>1
               DEF InUse, PendingReservations, ActiveEntries, Leased, WithStatus, Present, InFlight
        <4>4. QED
          BY <4>2, <4>3
      <3>4. QED
        BY <2>2, <3>1, <3>2, <3>3 DEF AppendRerun
    <2>3. QED
      BY <2>1, <2>2
  <1>4. ASSUME NEW k \in Labels \ {l}, k \in PendingReservations' PROVE k \in PendingReservations
    <2>1. k \in InUse
      BY <1>3, <1>4 DEF InUse
    <2>2. index'[k] = index[k] /\ thread'[k] = thread[k]
      <3>1. CASE ~AppendRerun(l)
        BY <1>1, <3>1, ThreadStepMoves DEF Others, Same
      <3>2. CASE AppendRerun(l)
        <4>1. CASE Fail(l)
          BY <1>1, <4>1, FailNotes DEF Note, Goto, TypeOK
        <4>2. k \in Present
          BY <2>1 DEF InUse, PendingReservations, ActiveEntries, WithStatus
        <4>3. QED
          BY <1>1, <3>2, <4>1, <4>2 DEF AppendRerun, Goto, TypeOK
      <3>3. QED
        BY <3>1, <3>2
    <2>3. QED
      BY <1>4, <2>2 DEF PendingReservations, Leased, WithStatus, Present, InFlight
  <1>5. l \in InUse' => l \in InUse
    <2>1. IsOpen(l)' => IsOpen(l)
      BY <1>1, OpenOnlyWas
    <2>2. l \in InUse' => IsOpen(l)'
      BY DEF InUse, PendingReservations, ActiveEntries, WithStatus, IsOpen
    <2>3. QED
      BY <1>1, <1>2, <2>1, <2>2, InUseIs
  <1>6. l \in PendingReservations' => l \in PendingReservations
    <2>1. /\ IsOpen(l)' => IsOpen(l)
          /\ index'[l].lease = NoMachine => index[l].lease = NoMachine
      BY <1>1, OpenOnlyWas
    <2>2. l \in PendingReservations' => IsOpen(l)' /\ index'[l].lease = NoMachine
      BY DEF PendingReservations, Leased, WithStatus, Present, IsOpen
    <2>3. QED
      BY <1>1, <1>2, <2>1, <2>2, InUseIs
  <1>7. PendingReservations' \subseteq Labels /\ InUse' \subseteq Labels
    BY DEF InUse, PendingReservations, ActiveEntries, Leased, WithStatus, Present, InFlight
  <1>8. QED
    BY <1>3, <1>4, <1>5, <1>6, <1>7, ShrinkKeepsLimit

\* One more thread: an adopted one has its machine already, another was let in by the limit.
LEMMA LimitSubmit ==
  ASSUME Inv, LimitInv, NEW l \in Labels, Submit(l)
  PROVE  LimitInv'
  <1>1. TypeOK /\ LabelInv(l)
    BY DEF Inv, FleetInv
  <1>2. index' = index /\ \A k \in Labels \ {l} : thread'[k] = thread[k]
    BY <1>1 DEF Submit, TypeOK
  <1>3. \A k \in Labels \ {l} : /\ k \in PendingReservations' => k \in PendingReservations
                                /\ k \in InUse' => k \in InUse
    BY <1>2 DEF InUse, PendingReservations, ActiveEntries, Leased, WithStatus, Present, InFlight
  <1>4. PendingReservations' \subseteq Labels /\ InUse' \subseteq Labels
    BY DEF InUse, PendingReservations, ActiveEntries, Leased, WithStatus, Present, InFlight
  <1>5. CASE l \in Leased
    <2>1. l \notin PendingReservations' /\ (l \in InUse' => l \in InUse)
      BY <1>2, <1>5 DEF InUse, PendingReservations, ActiveEntries, Leased, WithStatus, Present
    <2>2. QED
      BY <1>3, <1>4, <2>1, ShrinkKeepsLimit
  <1>6. CASE l \notin Leased
    <2>1. ModelAvailable(l)
      BY <1>6 DEF Submit, Schedulable, Adopted
    <2>2. QED
      BY <1>3, <1>4, <2>1, LetInKeepsLimit
  <1>7. QED
    BY <1>5, <1>6

\* Every step of the fleet keeps the limits.
LEMMA LimitStep ==
  ASSUME Inv, Inv', LimitInv, Next
  PROVE  LimitInv'
  <1>1. /\ TypeOK /\ MainInv /\ (\A k \in Labels : LabelInv(k))
        /\ TypeOK' /\ \A k \in Labels : LabelInv(k)'
        /\ main.pc = "append" => main.next \in Labels
    BY DEF Inv, FleetInv
  <1>2. CASE \E l \in Labels : ThreadStep(l)
    BY <1>2, LimitThread
  <1>3. CASE \E l \in Labels : Submit(l)
    BY <1>3, LimitSubmit
  <1>4. ASSUME \A k \in Labels : index'[k] = index[k],
               \A k \in Labels : thread'[k].pc = "idle" \/ thread'[k] = thread[k]
        PROVE  LimitInv'
    BY <1>1, <1>4, LimitFrame DEF IsOpen
  <1>5. CASE \/ StartController \/ ResumeDone \/ RerunsDone \/ FillDone
             \/ \E l \in Labels : DecideExisting(l)
             \/ \E l \in Labels, m \in Machines : MachineStep(l, m)
    <2>1. CASE \E l \in Labels, m \in Machines : MachineStep(l, m)
      BY <1>4, <2>1 DEF MachineStep, RunEnds, RunAborts, RunIsKilled, LeaseExpires
    <2>2. CASE ~ \E l \in Labels, m \in Machines : MachineStep(l, m)
      BY <1>4, <1>5, <2>2 DEF StartController, ResumeDone, RerunsDone, FillDone, DecideExisting
    <2>3. QED
      BY <2>1, <2>2
  <1>6. CASE LeavePool \/ Crash
    <2>1. index' = index /\ \A k \in Labels : thread'[k].pc = "idle"
      BY <1>6, IdleType DEF LeavePool, Crash
    <2>2. QED
      BY <1>4, <2>1
  <1>7. CASE \E l \in Labels : ResumeEntry(l)
    <2>1. PendingReservations' = {}
      BY <1>1, <1>7 DEF ResumeEntry, MainInv, PendingReservations, InFlight
    <2>2. QED
      BY <2>1 DEF LimitInv
  <1>8. CASE AppendExisting
    <2>1. CASE main.next \in Present
      BY <1>4, <1>8, <2>1 DEF AppendExisting
    <2>2. CASE main.next \notin Present
      <3>1. PICK r \in Labels : r = main.next
        BY <1>1, <1>8 DEF AppendExisting
      <3>2. /\ \A k \in Labels : index'[k] = IF k = r THEN Planned ELSE index[k]
            /\ thread' = thread
        BY <1>1, <1>8, <2>2, <3>1 DEF AppendExisting, TypeOK
      <3>3. index[r].status = "absent"
        BY <2>2, <3>1 DEF Present
      <3>4. thread[r].pc = "idle" /\ Planned.lease = NoMachine
        BY <1>1, <3>3 DEF LabelInv, EntryOK, Planned, NoEntry
      <3>5. r \notin InUse'
        BY <3>2, <3>4 DEF InUse, PendingReservations, ActiveEntries, Leased, InFlight
      <3>6. QED
        BY <1>1, <3>2, <3>5, LimitFrame DEF IsOpen
    <2>3. QED
      BY <2>1, <2>2
  <1>9. CASE Collect
    <2>1. \A k \in Labels : thread'[k].pc = "idle" \/ thread'[k] = thread[k]
      BY <1>9, IdleType DEF Collect
    <2>2. \A k \in Labels : index'[k] \in {index[k], Entry(k, "recovery_required")}
      BY <1>9 DEF Collect, Entry
    <2>3. \A k \in Labels : /\ Entry(k, "recovery_required").status = "recovery_required"
                            /\ Entry(k, "recovery_required").lease = index[k].lease
      BY <1>1 DEF Entry, TypeOK, Entries
    <2>4. \A k \in Labels : /\ IsOpen(k)' => IsOpen(k)
                            /\ index'[k].lease = index[k].lease
                            /\ index'[k].status \in ActiveRunStatuses =>
                                  index[k].status \in ActiveRunStatuses
                            /\ thread'[k].pc # "idle" => thread[k].pc # "idle"
      BY <2>1, <2>2, <2>3 DEF IsOpen
    <2>5. QED
      BY <1>1, <2>4, LimitFrame
  <1>10. QED
    BY <1>2, <1>3, <1>5, <1>6, <1>7, <1>8, <1>9 DEF Next, MainStep

\* A run that waits for its machine was let in within its model's limit.
THEOREM LimitInvariance == Spec => []LimitInv
  <1>1. Init => LimitInv
    BY IdleType DEF Init, LimitInv, PendingReservations, InFlight
  <1>2. Inv /\ Inv' /\ LimitInv /\ [Next]_vars => LimitInv'
    <2>1. ASSUME Inv, LimitInv, UNCHANGED vars PROVE LimitInv'
      <3>1. PendingReservations' = PendingReservations /\ InUse' = InUse
        BY <2>1 DEF vars, InUse, PendingReservations, ActiveEntries, Leased, WithStatus, Present, InFlight
      <3>2. QED
        BY <2>1, <3>1, ShrinkKeepsLimit
    <2>2. QED
      BY <2>1, LimitStep
  <1>3. QED
    BY <1>1, <1>2, Invariance, PTL DEF Spec

\* No machine is leased for a model that has its --model-max-runs already, whatever threads, answers
\* and controllers are lost (_next_schedulable_label, fleet.py:1114-1166).
THEOREM WithinLimits == Spec => []ModelsWithinLimits
  <1>1. Inv /\ LimitInv => ModelsWithinLimits
    <2> SUFFICES ASSUME Inv, LimitInv, NEW l \in Labels, thread[l].pc \in {"warmup", "bind"}
                 PROVE  LET using == {k \in Labels : /\ ModelOf[k[1]] = ModelOf[l[1]]
                                                     /\ \/ thread[k].pc \in {"warmup", "bind"}
                                                        \/ k \in ActiveEntries}
                        IN Cardinality(using) <= ModelMaxRuns[ModelOf[l[1]]]
      BY DEF ModelsWithinLimits
    <2> DEFINE m == ModelOf[l[1]]
               using == {k \in Labels : /\ ModelOf[k[1]] = m
                                        /\ \/ thread[k].pc \in {"warmup", "bind"}
                                           \/ k \in ActiveEntries}
    <2>1. \A k \in Labels : thread[k].pc \in {"warmup", "bind"} => k \in PendingReservations
      BY InUseIs DEF Inv, FleetInv, LabelInv, PlaceOK, IsOpen
    <2>2. using \subseteq RunsOf(m)
      BY <2>1 DEF RunsOf, PendingReservations, ActiveEntries, Leased, WithStatus, Present
    <2>3. Cardinality(RunsOf(m)) <= ModelMaxRuns[m]
      BY <2>1 DEF LimitInv
    <2>4. Cardinality(using) <= Cardinality(RunsOf(m)) /\ Cardinality(using) \in Nat
          /\ Cardinality(RunsOf(m)) \in Nat
      BY <2>2, RunsOfFinite, FS_Subset, FS_CardinalityType
    <2>5. ModelMaxRuns[m] \in Nat
      BY FleetAssumption DEF Labels
    <2>6. QED
      BY <2>3, <2>4, <2>5
  <1>2. QED
    BY <1>1, Invariance, LimitInvariance, PTL

-----------------------------------------------------------------------------
\* With one lease at a time: there is one thread, the main thread waits for it, and what was
\* decided of a rerun still holds when it is appended.
AllFailed(r) == \A l \in Chain(r) : index[l].status \in RerunStatuses

\* The attempts of a run are numbered without gaps, and all but the last have failed.
ChainInv ==
    \A r \in Roots, n, j \in 0..MaxAttempts :
        j < n /\ index[<<r, n>>].status # "absent" => index[<<r, j>>].status \in RerunStatuses

SerialInv ==
    /\ \A k, l \in InFlight : k = l
    /\ InFlight # {} => main.pc \in {"fill", "wait"}
    /\ main.todo # {} => main.pc \in {"reruns", "append"}
    /\ \A l \in main.todo : index[l].status \in RerunStatuses
    /\ \A l \in Labels : At(l, "append") => thread[l].next = NextAttempt(l[1]) /\ thread[l].next # 0
    /\ \A l \in Labels : ~At(l, "raised")
    /\ main.pc = "append" =>
          \E r \in Roots : /\ NextAttempt(r) # 0 /\ main.next = <<r, NextAttempt(r)>>
                           /\ AllFailed(r)

\* The next attempt is new, and all before it have failed.
LEMMA NextIsNew ==
  ASSUME ChainInv, RootsInv, NEW r \in Roots, NextAttempt(r) # 0,
         \E l \in Chain(r) : index[l].status \in RerunStatuses
  PROVE  /\ NextAttempt(r) \in 1..(MaxAttempts - 1)
         /\ <<r, NextAttempt(r)>> \in Labels /\ <<r, NextAttempt(r)>> \notin Present
         /\ AllFailed(r)
         /\ \A l \in Chain(r) : l[2] < NextAttempt(r)
         /\ \A j \in 0..(NextAttempt(r) - 1) : index[<<r, j>>].status \in RerunStatuses
  <1> DEFINE S == {l[2] : l \in Chain(r)}
             top == Max(S)
  <1>1. MaxAttempts \in Nat /\ S \subseteq 0..MaxAttempts
    BY FleetAssumption DEF Chain, Present, Labels
  <1>2. S # {}
    OBVIOUS
  <1>3. top \in S /\ top \in 0..MaxAttempts /\ \A x \in S : x <= top
    BY <1>1, <1>2, MaxOfBounded
  <1> HIDE DEF top
  <1>4. /\ NextAttempt(r) = top + 1 /\ top + 1 < MaxAttempts
        /\ \A l \in Chain(r) : l[2] > 0 => index[l].status \in RerunStatuses
    <2>1. NextAttempt(r) = IF \/ \E l \in Chain(r) : l[2] > 0 /\ index[l].status \notin RerunStatuses
                              \/ top + 1 >= MaxAttempts
                           THEN 0 ELSE top + 1
      BY DEF NextAttempt, top
    <2>2. QED
      BY <1>1, <1>3, <2>1
  <1>5. \A l \in Chain(r) : l \in Labels /\ l = <<r, l[2]>> /\ l[2] \in S /\ l[2] <= top
    BY <1>3 DEF Chain, Present, Labels
  <1>6. <<r, top>> \in Chain(r)
    BY <1>3, <1>5
  <1>7. ASSUME NEW j \in 0..top
        PROVE  index[<<r, j>>].status \in RerunStatuses
    <2>1. CASE j < top
      <3>1. index[<<r, top>>].status # "absent"
        BY <1>6 DEF Chain, Present
      <3>2. QED
        BY <1>1, <1>3, <2>1, <3>1 DEF ChainInv
    <2>2. CASE j = top /\ top > 0
      BY <1>4, <1>6, <2>2
    <2>3. CASE j = top /\ top = 0
      <3>1. PICK l \in Chain(r) : index[l].status \in RerunStatuses
        OBVIOUS
      <3>2. l = <<r, 0>>
        BY <1>1, <1>5, <2>3
      <3>3. QED
        BY <2>3, <3>1, <3>2
    <2>4. QED
      BY <1>3, <1>7, <2>1, <2>2, <2>3
  <1>8. AllFailed(r)
    <2>1. \A l \in Chain(r) : l[2] \in 0..top
      BY <1>1, <1>5
    <2>2. QED
      BY <1>5, <1>7, <2>1 DEF AllFailed
  <1>9. <<r, top + 1>> \notin Present
    <2>1. <<r, top + 1>> \in Chain(r) => top + 1 <= top
      BY <1>5
    <2>2. QED
      BY <1>3, <2>1 DEF Chain, Present
  <1>10. <<r, top + 1>> \in Labels
    BY <1>1, <1>3, <1>4 DEF Labels
  <1>11. QED
    BY <1>1, <1>3, <1>4, <1>5, <1>7, <1>8, <1>9, <1>10

Settled(l) == index[l].status \in {"completed"} \cup RerunStatuses

\* What a step does to the index: one entry that is there changes, and not when it was settled; or
\* the next attempt of a run is appended, all of whose attempts have failed; or nothing.
Advances(l) ==
    /\ l \in Present
    /\ \A k \in Labels \ {l} : index'[k] = index[k]
    /\ index'[l].status # "absent"
    /\ Settled(l) => index'[l].status = index[l].status
Appends(r) ==
    /\ \E l \in Chain(r) : index[l].status \in RerunStatuses
    /\ NextAttempt(r) # 0
    /\ index' = [index EXCEPT ![<<r, NextAttempt(r)>>] = Planned]

\* A thread whose entry is settled has nothing to do but to decide on a rerun and to append it.
LEMMA ThreadAdvances ==
  ASSUME Inv, SerialInv, ChainInv, NEW l \in Labels, ThreadStep(l)
  PROVE  Advances(l) \/ Appends(l[1])
  <1>1. /\ TypeOK /\ RootsInv /\ LabelInv(l) /\ thread[l].pc # "idle" /\ l \in Present
    BY ThreadRuns, RunningIsPresent DEF Inv, FleetInv, Present
  <1>2. index'[l].status # "absent"
    BY <1>1, PresentStays DEF Next, Present
  <1>3. CASE ~AppendRerun(l)
    <2>1. \A k \in Labels \ {l} : index'[k] = index[k]
      BY <1>1, <1>3, ThreadStepMoves DEF Others, Same
    <2>2. ASSUME Settled(l) PROVE index'[l].status = index[l].status
      <3>1. thread[l].pc \in {"rerun", "append", "raised", "done"}
        BY <1>1, <2>2 DEF Settled, LabelInv, PlaceOK, TypeOK, Threads, Places
      <3>2. CASE Start(l) \/ Reattach(l) \/ RequestLease(l) \/ FindMachine(l) \/ WarmUp(l)
        BY <3>1, <3>2 DEF Start, Reattach, RequestLease, FindMachine, WarmUp
      <3>3. CASE WarmUpFails(l) \/ BindLease(l) \/ Probe(l) \/ Hydrate(l) \/ Dispatch(l)
        BY <3>1, <3>3 DEF WarmUpFails, BindLease, Probe, Hydrate, Dispatch
      <3>4. CASE DispatchDies(l) \/ Attach(l) \/ PullCheckpoint(l) \/ PullFinal(l) \/ GiveUp(l)
        BY <3>1, <3>4 DEF DispatchDies, Attach, PullCheckpoint, PullFinal, GiveUp
      <3>5. CASE Export(l) \/ Stop(l) \/ Settle(l)
        BY <3>1, <3>5 DEF Export, Stop, Settle
      <3>6. CASE DecideRerun(l)
        BY <3>6 DEF DecideRerun
      <3>7. QED
        BY <1>3, <3>2, <3>3, <3>4, <3>5, <3>6 DEF ThreadStep
    <2>3. QED
      BY <1>1, <1>2, <2>1, <2>2 DEF Advances
  <1>4. CASE AppendRerun(l)
    <2>1. /\ thread[l].next = NextAttempt(l[1]) /\ NextAttempt(l[1]) # 0
          /\ index[l].status \in RerunStatuses /\ l[1] \in Roots /\ l \in Chain(l[1])
      BY <1>1, <1>4 DEF AppendRerun, SerialInv, LabelInv, PlaceOK, Chain, Labels
    <2>2. <<l[1], NextAttempt(l[1])>> \notin Present
      BY <1>1, <2>1, NextIsNew
    <2>3. index' = [index EXCEPT ![<<l[1], NextAttempt(l[1])>>] = Planned]
      BY <1>4, <2>1, <2>2 DEF AppendRerun
    <2>4. QED
      BY <2>1, <2>3 DEF Appends
  <1>5. QED
    BY <1>3, <1>4

\* A step changes the index by one attempt that goes on, by one rerun, or not at all.
LEMMA StepAdvances ==
  ASSUME Inv, SerialInv, ChainInv, Next
  PROVE  \/ \E l \in Labels : Advances(l)
         \/ \E r \in Roots : Appends(r)
         \/ index' = index
  <1>1. TypeOK /\ RootsInv
    BY DEF Inv, FleetInv
  <1>2. CASE \E l \in Labels : ThreadStep(l)
    <2>1. \A l \in Labels : l[1] \in Roots
      BY DEF Labels
    <2>2. QED
      BY <1>2, <2>1, ThreadAdvances
  <1>3. ASSUME NEW l \in Labels, ResumeEntry(l)
        PROVE  Advances(l)
    <2>1. index[l].status = "recovery_required" /\ \A k \in Labels \ {l} : index'[k] = index[k]
      BY <1>1, <1>3 DEF ResumeEntry, Note, TypeOK
    <2>2. index'[l].status # "absent"
      BY <1>1, <1>3, <2>1, PresentStays DEF Next, MainStep
    <2>3. QED
      BY <2>1, <2>2 DEF Advances, Settled, Present
  <1>4. CASE AppendExisting
    <2>1. PICK r \in Roots : NextAttempt(r) # 0 /\ main.next = <<r, NextAttempt(r)>> /\ AllFailed(r)
      BY <1>4 DEF AppendExisting, SerialInv
    <2>2. <<r, 0>> \in Chain(r)
      BY <1>1, FleetAssumption DEF RootsInv, Chain, Present, Labels
    <2>3. \E l \in Chain(r) : index[l].status \in RerunStatuses
      BY <2>1, <2>2 DEF AllFailed
    <2>4. main.next \notin Present
      BY <1>1, <2>1, <2>3, NextIsNew
    <2>5. Appends(r)
      BY <1>4, <2>1, <2>3, <2>4 DEF AppendExisting, Appends
    <2>6. QED
      BY <2>5
  <1>5. CASE Collect
    <2>1. \A k \in Labels : index'[k] = index[k]
      BY <1>5 DEF Collect, SerialInv
    <2>2. index' = index
      BY <1>1, <1>5, <2>1 DEF TypeOK, Collect
    <2>3. QED
      BY <2>2
  <1>6. CASE \/ StartController \/ ResumeDone \/ RerunsDone \/ FillDone \/ LeavePool \/ Crash
             \/ \E l \in Labels : DecideExisting(l) \/ Submit(l)
    BY <1>6 DEF StartController, ResumeDone, RerunsDone, FillDone, LeavePool, Crash,
                DecideExisting, Submit
  <1>7. CASE \E l \in Labels, m \in Machines : MachineStep(l, m)
    BY <1>7 DEF MachineStep, RunEnds, RunAborts, RunIsKilled, LeaseExpires
  <1>8. QED
    BY <1>2, <1>3, <1>4, <1>5, <1>6, <1>7 DEF Next, MainStep

\* The chain keeps its form.
LEMMA ChainStep ==
  ASSUME Inv, SerialInv, ChainInv, Next
  PROVE  ChainInv'
  <1>1. TypeOK /\ RootsInv
    BY DEF Inv, FleetInv
  <1> SUFFICES ASSUME NEW r \in Roots, NEW n \in 0..MaxAttempts, NEW j \in 0..MaxAttempts, j < n,
                      index'[<<r, n>>].status # "absent"
               PROVE  index'[<<r, j>>].status \in RerunStatuses
    BY DEF ChainInv
  <1>2. <<r, n>> \in Labels /\ <<r, j>> \in Labels /\ <<r, n>> # <<r, j>>
    BY DEF Labels
  <1>3. ASSUME NEW l \in Labels, Advances(l)
        PROVE  index'[<<r, j>>].status \in RerunStatuses
    <2>1. index[<<r, n>>].status # "absent"
      BY <1>2, <1>3 DEF Advances, Present
    <2>2. index[<<r, j>>].status \in RerunStatuses
      BY <2>1 DEF ChainInv
    <2>3. index'[<<r, j>>].status = index[<<r, j>>].status
      BY <1>2, <1>3, <2>2 DEF Advances, Settled
    <2>4. QED
      BY <2>2, <2>3
  <1>4. ASSUME NEW q \in Roots, Appends(q)
        PROVE  index'[<<r, j>>].status \in RerunStatuses
    <2> DEFINE N == NextAttempt(q)
    <2>1. /\ N \in 1..(MaxAttempts - 1) /\ <<q, N>> \in Labels /\ <<q, N>> \notin Present
          /\ \A i \in 0..(N - 1) : index[<<q, i>>].status \in RerunStatuses
      BY <1>1, <1>4, NextIsNew DEF Appends
    <2>2. index' = [index EXCEPT ![<<q, N>>] = Planned]
      BY <1>4 DEF Appends
    <2> HIDE DEF N
    <2>3. \A k \in Labels : index'[k] = IF k = <<q, N>> THEN Planned ELSE index[k]
      BY <1>1, <2>2 DEF TypeOK
    <2>4. CASE r = q /\ n = N
      <3>1. j \in 0..(N - 1) /\ <<r, j>> # <<q, N>>
        BY <2>1, <2>4
      <3>2. index[<<r, j>>].status \in RerunStatuses
        BY <2>1, <2>4, <3>1
      <3>3. QED
        BY <1>2, <2>3, <3>1, <3>2
    <2>5. CASE ~(r = q /\ n = N)
      <3>1. <<r, n>> # <<q, N>>
        BY <2>5
      <3>2. index[<<r, n>>].status # "absent"
        BY <1>2, <2>3, <3>1
      <3>3. index[<<r, j>>].status \in RerunStatuses
        BY <3>2 DEF ChainInv
      <3>4. <<r, j>> # <<q, N>>
        BY <1>2, <2>1, <3>3 DEF Present
      <3>5. QED
        BY <1>2, <2>3, <3>3, <3>4
    <2>6. QED
      BY <2>4, <2>5
  <1>5. CASE index' = index
    BY <1>5 DEF ChainInv
  <1>6. QED
    BY <1>3, <1>4, <1>5, StepAdvances

\* As long as the index stands, so does what was decided.
LEMMA SameIndex ==
  ASSUME index' = index, NEW r
  PROVE  NextAttempt(r)' = NextAttempt(r) /\ (AllFailed(r)' <=> AllFailed(r))
  BY DEF NextAttempt, AllFailed, Chain, Present

\* A thread runs alone.
LEMMA SerialThread ==
  ASSUME Inv, SerialInv, ChainInv, NEW l \in Labels, ThreadStep(l)
  PROVE  SerialInv'
  <1>1. /\ TypeOK /\ RootsInv /\ LabelInv(l) /\ thread[l].pc # "idle" /\ l \in Present
        /\ main' = main /\ \A k \in Labels : LabelInv(k)
    BY ThreadRuns, RunningIsPresent DEF Inv, FleetInv, Present
  <1>2. \A k \in Labels \ {l} : thread[k].pc = "idle"
    BY <1>1 DEF SerialInv, InFlight
  <1>3. main.pc \in {"fill", "wait"} /\ main.todo = {}
    BY <1>1 DEF SerialInv, InFlight
  <1>4. /\ \A k \in Labels \ {l} : thread'[k].pc = "idle"
        /\ ~At(l, "raised")'
        /\ At(l, "append")' => thread'[l].next = NextAttempt(l[1])' /\ thread'[l].next # 0
    <2>1. CASE AppendRerun(l)
      <3>1. /\ thread[l].next = NextAttempt(l[1]) /\ NextAttempt(l[1]) # 0
            /\ index[l].status \in RerunStatuses /\ l[1] \in Roots /\ l \in Chain(l[1])
        BY <1>1, <2>1 DEF AppendRerun, SerialInv, LabelInv, PlaceOK, Chain, Labels
      <3>2. <<l[1], NextAttempt(l[1])>> \notin Present
        BY <3>1, <1>1, NextIsNew
      <3>3. Goto(l, "done")
        BY <2>1, <3>1, <3>2 DEF AppendRerun
      <3>4. QED
        BY <1>1, <1>2, <3>3 DEF Goto, TypeOK, Threads
    <2>2. CASE ~AppendRerun(l)
      <3>1. \A k \in Labels \ {l} : thread'[k] = thread[k]
        BY <1>1, <2>2, ThreadStepMoves DEF Others, Same
      <3>2. CASE DecideRerun(l)
        <4>1. index' = index /\ thread'[l].next = NextAttempt(l[1])
              /\ thread'[l].pc = IF NextAttempt(l[1]) = 0 THEN "done" ELSE "append"
          BY <1>1, <3>2 DEF DecideRerun, TypeOK, Threads
        <4>2. NextAttempt(l[1])' = NextAttempt(l[1])
          BY <4>1, SameIndex
        <4>3. QED
          BY <1>2, <3>1, <4>1, <4>2
      <3>3. CASE ~DecideRerun(l)
        <4>1. thread'[l].pc \notin {"append", "raised"}
          <5>1. ASSUME NEW p, Goto(l, p) PROVE thread'[l].pc = p
            BY <1>1, <5>1 DEF Goto, TypeOK, Threads
          <5>2. ASSUME Fail(l) \/ LoseLease(l) \/ Recover(l) PROVE thread'[l].pc \in {"done", "rerun"}
            BY <5>1, <5>2 DEF Fail, LoseLease, Recover
          <5>3. CASE Start(l) \/ RequestLease(l) \/ WarmUpFails(l) \/ BindLease(l)
            BY <5>1, <5>2, <5>3 DEF Start, RequestLease, WarmUpFails, BindLease
          <5>4. ASSUME NEW m, NEW p, thread' = [thread EXCEPT ![l].pc = p, ![l].vm = m]
                PROVE  thread'[l].pc = p
            BY <1>1, <5>4 DEF TypeOK, Threads
          <5>5. CASE Reattach(l) \/ FindMachine(l) \/ WarmUp(l)
            BY <5>2, <5>4, <5>5 DEF Reattach, FindMachine, WarmUp
          <5>6. CASE Probe(l) \/ Hydrate(l) \/ Attach(l) \/ GiveUp(l)
            BY <5>1, <5>2, <5>6 DEF Probe, Hydrate, Attach, GiveUp
          <5>7. CASE Dispatch(l) \/ DispatchDies(l)
            BY <5>1, <5>2, <5>7 DEF Dispatch, DispatchDies
          <5>8. CASE Export(l) \/ Stop(l) \/ Settle(l)
            BY <5>1, <5>2, <5>8 DEF Export, Stop, Settle
          <5>9. CASE PullCheckpoint(l)
            BY <5>9 DEF PullCheckpoint
          <5>10. CASE PullFinal(l)
            <6>1. PICK rc : thread' = [thread EXCEPT ![l].pc = "export", ![l].rc = rc]
              BY <5>10 DEF PullFinal
            <6>2. QED
              BY <1>1, <6>1 DEF TypeOK, Threads
          <5>11. QED
            BY <2>2, <3>3, <5>3, <5>5, <5>6, <5>7, <5>8, <5>9, <5>10 DEF ThreadStep
        <4>2. QED
          BY <1>2, <3>1, <4>1
      <3>4. QED
        BY <3>2, <3>3
    <2>3. QED
      BY <2>1, <2>2
  <1>5. \A k \in Labels : k # l => ~At(k, "append")' /\ ~At(k, "raised")' /\ k \notin InFlight'
    BY <1>4 DEF InFlight
  <1>6. InFlight' \subseteq {l}
    BY <1>5 DEF InFlight
  <1>7. QED
    BY <1>1, <1>3, <1>4, <1>5, <1>6 DEF SerialInv

\* With one lease there is a slot when nobody is in it.
LEMMA OneSlot ==
  ASSUME MaxLeases = 1, SlotIsFree
  PROVE  InFlight = {}
  <1>1. IsFiniteSet(InFlight)
    BY LabelsFinite, FS_Subset DEF InFlight
  <1>2. Cardinality(InFlight) = 0
    BY <1>1, FS_CardinalityType DEF SlotIsFree
  <1>3. QED
    BY <1>1, <1>2, FS_EmptySet

\* The main thread's steps that leave threads and index alone.
LEMMA SerialMain ==
  ASSUME SerialInv, UNCHANGED <<index, thread>>,
         InFlight # {} => main'.pc \in {"fill", "wait"},
         main'.todo # {} => main'.pc \in {"reruns", "append"},
         \A l \in main'.todo : index[l].status \in RerunStatuses,
         main'.pc = "append" =>
            \E r \in Roots : /\ NextAttempt(r) # 0 /\ main'.next = <<r, NextAttempt(r)>>
                             /\ AllFailed(r)
  PROVE  SerialInv'
  <1>1. \A r : NextAttempt(r)' = NextAttempt(r) /\ (AllFailed(r)' <=> AllFailed(r))
    BY SameIndex
  <1>2. InFlight' = InFlight
    BY DEF InFlight
  <1>3. QED
    BY <1>1, <1>2 DEF SerialInv

\* Steps after which there is no thread, and the main thread has not begun or begins again.
LEMMA SerialAlone ==
  ASSUME \A l \in Labels : thread'[l].pc = "idle", main'.pc \notin {"append"},
         main'.todo # {} => main'.pc = "reruns",
         \A l \in main'.todo : index'[l].status \in RerunStatuses
  PROVE  SerialInv'
  BY DEF SerialInv, InFlight

\* With one lease at a time no two parts of the controller decide on reruns at once.
LEMMA SerialStep ==
  ASSUME Inv, SerialInv, ChainInv, MaxLeases = 1, Next
  PROVE  SerialInv'
  <1>1. TypeOK /\ RootsInv /\ MainInv
    BY DEF Inv, FleetInv
  <1>2. CASE \E l \in Labels : ThreadStep(l)
    BY <1>2, SerialThread
  <1>3. CASE \E l \in Labels, m \in Machines : MachineStep(l, m)
    <2>1. UNCHANGED <<index, thread, main>>
      BY <1>3 DEF MachineStep, RunEnds, RunAborts, RunIsKilled, LeaseExpires
    <2>2. QED
      BY <2>1, SerialMain DEF SerialInv
  <1>4. CASE StartController
    <2>1. main'.pc = "resume" /\ main'.todo = main.todo /\ UNCHANGED <<index, thread>>
          /\ main.pc = "down"
      BY <1>1, <1>4 DEF StartController, TypeOK
    <2>2. QED
      BY <2>1, SerialMain DEF SerialInv
  <1>5. CASE \E l \in Labels : ResumeEntry(l)
    <2>1. UNCHANGED <<thread, main>> /\ main.pc = "resume"
      BY <1>5 DEF ResumeEntry
    <2>2. InFlight = {} /\ main.todo = {}
      BY <2>1 DEF SerialInv
    <2>3. QED
      BY <2>1, <2>2, SerialAlone DEF InFlight
  <1>6. CASE ResumeDone
    <2>1. /\ main'.todo = {l \in Labels : index'[l].status \in RerunStatuses}
          /\ main'.pc = "reruns" /\ UNCHANGED thread
      BY <1>6 DEF ResumeDone, LookForReruns
    <2>2. InFlight = {}
      BY <1>6 DEF ResumeDone, SerialInv
    <2>3. QED
      BY <2>1, <2>2, SerialAlone DEF InFlight
  <1>7. ASSUME NEW l \in Labels, DecideExisting(l)
        PROVE  SerialInv'
    <2> DEFINE n == NextAttempt(l[1])
    <2>1. /\ main.pc = "reruns" /\ l \in main.todo /\ UNCHANGED <<index, thread>>
          /\ main' = [pc |-> IF n = 0 THEN "reruns" ELSE "append", todo |-> main.todo \ {l},
                      next |-> IF n = 0 THEN <<>> ELSE <<l[1], n>>]
      BY <1>7 DEF DecideExisting
    <2>2. InFlight = {} /\ index[l].status \in RerunStatuses
      BY <2>1 DEF SerialInv
    <2>3. l[1] \in Roots /\ l \in Chain(l[1])
      BY <2>2 DEF Labels, Chain, Present
    <2>4. ASSUME n # 0 PROVE AllFailed(l[1])
      BY <1>1, <2>2, <2>3, <2>4, NextIsNew
    <2>5. main'.pc = "append" => n # 0 /\ main'.next = <<l[1], n>> /\ AllFailed(l[1])
      BY <2>1, <2>4
    <2>6. main'.pc \in {"reruns", "append"} /\ \A k \in main'.todo : index[k].status \in RerunStatuses
      BY <2>1 DEF SerialInv
    <2>7. QED
      BY <2>1, <2>2, <2>3, <2>5, <2>6, SerialMain
  <1>8. CASE AppendExisting
    <2>1. PICK r \in Roots : NextAttempt(r) # 0 /\ main.next = <<r, NextAttempt(r)>> /\ AllFailed(r)
      BY <1>8 DEF AppendExisting, SerialInv
    <2>2. <<r, 0>> \in Chain(r)
      BY <1>1, FleetAssumption DEF RootsInv, Chain, Present, Labels
    <2>3. main.next \notin Present /\ main.next \in Labels
      BY <1>1, <2>1, <2>2, NextIsNew DEF AllFailed
    <2>4. /\ index' = [index EXCEPT ![main.next] = Planned] /\ thread' = thread
          /\ main' = [main EXCEPT !.pc = "reruns", !.next = <<>>]
      BY <1>8, <2>3 DEF AppendExisting
    <2>5. main'.pc = "reruns" /\ main'.todo = main.todo
      BY <1>1, <2>4 DEF TypeOK
    <2>6. InFlight = {}
      BY <1>8 DEF AppendExisting, SerialInv
    <2>7. ASSUME NEW k \in main.todo PROVE index'[k].status \in RerunStatuses
      <3>1. index[k].status \in RerunStatuses /\ k \in Labels
        BY <1>1 DEF SerialInv, TypeOK
      <3>2. k # main.next
        BY <2>3, <3>1 DEF Present
      <3>3. QED
        BY <1>1, <2>4, <3>1, <3>2 DEF TypeOK
    <2>8. QED
      BY <2>4, <2>5, <2>6, <2>7, SerialAlone DEF InFlight
  <1>9. CASE RerunsDone
    <2>1. main.pc = "reruns" /\ main'.pc = "fill" /\ main'.todo = {} /\ UNCHANGED <<index, thread>>
      BY <1>1, <1>9 DEF RerunsDone, TypeOK
    <2>2. QED
      BY <2>1, SerialMain
  <1>10. CASE FillDone
    <2>1. /\ main.pc = "fill" /\ main'.pc = (IF InFlight = {} THEN "leave" ELSE "wait")
          /\ main'.todo = main.todo /\ UNCHANGED <<index, thread>>
      BY <1>1, <1>10 DEF FillDone, TypeOK
    <2>2. main.todo = {}
      BY <2>1 DEF SerialInv
    <2>3. QED
      BY <2>1, <2>2, SerialMain
  <1>11. ASSUME NEW l \in Labels, Submit(l)
         PROVE  SerialInv'
    <2>1. main' = main /\ main.pc = "fill" /\ index' = index /\ InFlight = {}
      BY <1>11, OneSlot DEF Submit
    <2>2. main.todo = {}
      BY <2>1 DEF SerialInv
    <2>3. [Idle EXCEPT !.pc = "start"].pc = "start"
      BY DEF Idle
    <2>4. thread'[l].pc = "start" /\ \A k \in Labels \ {l} : thread'[k].pc = "idle"
      BY <1>1, <1>11, <2>1, <2>3 DEF Submit, TypeOK, InFlight
    <2>5. InFlight' \subseteq {l} /\ \A k \in Labels : ~At(k, "append")' /\ ~At(k, "raised")'
      BY <2>4 DEF InFlight
    <2>6. QED
      BY <2>1, <2>2, <2>5 DEF SerialInv
  <1>12. CASE Collect
    <2>1. /\ main'.todo = {l \in Labels : index'[l].status \in RerunStatuses}
          /\ main'.pc = "reruns"
      BY <1>12 DEF Collect, LookForReruns
    <2>2. \A k \in Labels : thread'[k].pc = "idle"
      <3>1. PICK l \in Labels : l \in Returned
        BY <1>12 DEF Collect, Returned
      <3>2. \A k \in Labels \ {l} : thread[k].pc = "idle"
        BY <3>1 DEF Returned, SerialInv, InFlight
      <3>3. QED
        BY <1>12, <3>1, <3>2, IdleType DEF Collect
    <2>3. QED
      BY <2>1, <2>2, SerialAlone
  <1>13. CASE LeavePool \/ Crash
    <2>1. main'.pc = "down" /\ main'.todo = {} /\ \A k \in Labels : thread'[k].pc = "idle"
      BY <1>13, IdleType DEF LeavePool, Crash, Down
    <2>2. QED
      BY <2>1, SerialAlone
  <1>14. QED
    BY <1>2, <1>3, <1>4, <1>5, <1>6, <1>7, <1>8, <1>9, <1>10, <1>11, <1>12, <1>13 DEF Next, MainStep

\* At first nothing is decided.
LEMMA SerialStart ==
  ASSUME Init PROVE SerialInv /\ ChainInv
  <1>1. main.pc = "down" /\ main.todo = {} /\ \A l \in Labels : thread[l].pc = "idle"
    BY IdleType DEF Init, Down
  <1>2. SerialInv
    BY <1>1 DEF SerialInv, InFlight
  <1>3. ChainInv
    <2> SUFFICES ASSUME NEW r \in Roots, NEW n \in 0..MaxAttempts, NEW j \in 0..MaxAttempts, j < n,
                        index[<<r, n>>].status # "absent"
                 PROVE  FALSE
      BY DEF ChainInv
    <2>1. <<r, n>> \in Labels /\ <<r, n>>[2] # 0
      BY DEF Labels
    <2>2. index[<<r, n>>] = NoEntry
      BY <2>1 DEF Init
    <2>3. QED
      BY <2>2 DEF NoEntry
  <1>4. QED
    BY <1>2, <1>3

\* A step of no variable keeps it.
LEMMA SerialStutter ==
  ASSUME SerialInv, ChainInv, UNCHANGED vars
  PROVE  SerialInv' /\ ChainInv'
  <1>1. UNCHANGED <<index, thread, main>>
    BY DEF vars
  <1>2. SerialInv'
    BY <1>1, SerialMain DEF SerialInv
  <1>3. ChainInv'
    BY <1>1 DEF ChainInv
  <1>4. QED
    BY <1>2, <1>3

\* With one lease at a time a rerun is appended as it was decided, after attempts that all failed.
THEOREM SerialInvariance ==
  ASSUME MaxLeases = 1
  PROVE  Spec => [](SerialInv /\ ChainInv)
  <1>1. Inv /\ (SerialInv /\ ChainInv) /\ [Next]_vars => (SerialInv /\ ChainInv)'
    BY SerialStep, ChainStep, SerialStutter
  <1>2. Init => SerialInv /\ ChainInv
    BY SerialStart
  <1>3. QED
    BY <1>1, <1>2, Invariance, PTL DEF Spec

-----------------------------------------------------------------------------
\* What a run came to stands.
THEOREM Stays ==
  ASSUME MaxLeases = 1
  PROVE  Spec => SettledStays
  <1> DEFINE Keeps == \A l \in WithStatus({"failed", "completed"}) : index'[l].status = index[l].status
  <1>1. Inv /\ SerialInv /\ ChainInv /\ [Next]_vars => [Keeps]_vars
    <2> SUFFICES ASSUME Inv, SerialInv, ChainInv, Next, NEW l \in Labels,
                        index[l].status \in {"failed", "completed"}
                 PROVE  index'[l].status = index[l].status
      BY DEF WithStatus, Present
    <2>1. ASSUME NEW k \in Labels, Advances(k) PROVE index'[l].status = index[l].status
      BY <2>1 DEF Advances, Settled
    <2>2. ASSUME NEW r \in Roots, Appends(r) PROVE index'[l].status = index[l].status
      <3>1. TypeOK /\ RootsInv
        BY DEF Inv, FleetInv
      <3>2. <<r, NextAttempt(r)>> # l
        BY <2>2, <3>1, NextIsNew DEF Appends, Present
      <3>3. QED
        BY <2>2, <3>1, <3>2 DEF Appends, TypeOK
    <2>3. QED
      BY <2>1, <2>2, StepAdvances
  <1>2. QED
    BY <1>1, Invariance, SerialInvariance, PTL DEF Spec, SettledStays

-----------------------------------------------------------------------------
\* The attempts of RunAttempts are those of the index.
OutcomeOf(r) ==
    IF \E l \in Chain(r) : index[l].status \notin RerunStatuses \cup {"completed"} THEN "open"
    ELSE IF \E l \in Chain(r) : index[l].status = "completed" THEN "completed"
    ELSE "failed"

\* RunAttempts' outcome, run by run.
LEMMA OutcomeIs == Outcome = [r \in Roots |-> OutcomeOf(r)]
  BY DEF Outcome, OutcomeOf

\* A run has finitely many attempts.
LEMMA ChainFinite ==
  ASSUME NEW r
  PROVE  IsFiniteSet(Chain(r)) /\ Cardinality(Chain(r)) \in Nat
  BY LabelsFinite, FS_Subset, FS_CardinalityType DEF Chain, Present

\* Whose entries are what they were has the same attempts.
LEMMA SameChain ==
  ASSUME NEW r, \A l \in Labels : l[1] = r => index'[l].status = index[l].status
  PROVE  Chain(r)' = Chain(r) /\ OutcomeOf(r)' = OutcomeOf(r)
  <1>1. Chain(r)' = Chain(r)
    BY DEF Chain, Present
  <1>2. \A l \in Chain(r) : index'[l].status = index[l].status
    BY DEF Chain, Present
  <1>3. QED
    BY <1>1, <1>2 DEF OutcomeOf

\* An attempt comes to something, or it goes on.
LEMMA AdvanceAttempts ==
  ASSUME NEW l \in Labels, Advances(l)
  PROVE  [Attempts!Next]_<<Tries, Outcome>>
  <1> DEFINE r == l[1]
  <1>1. r \in Roots
    BY DEF Labels
  <1>2. \A q \in Roots : Chain(q)' = Chain(q)
    BY DEF Advances, Chain, Present
  <1>3. Tries' = Tries
    BY <1>2 DEF Tries
  <1>4. \A q \in Roots \ {r} : OutcomeOf(q)' = OutcomeOf(q)
    BY SameChain DEF Advances
  <1>5. CASE Settled(l)
    <2>1. OutcomeOf(r)' = OutcomeOf(r)
      BY <1>5, SameChain DEF Advances
    <2>2. Outcome' = Outcome
      BY <1>4, <2>1 DEF Outcome, OutcomeOf
    <2>3. QED
      BY <1>3, <2>2
  <1>6. CASE ~Settled(l)
    <2>1. OutcomeOf(r) = "open"
      BY <1>6 DEF OutcomeOf, Settled, Chain, Advances
    <2>2. OutcomeOf(r)' \in {"open", "completed", "failed"}
      BY DEF OutcomeOf
    <2>3. Outcome' = [Outcome EXCEPT ![r] = OutcomeOf(r)'] /\ Outcome[r] = "open"
      <3>1. Outcome' = [q \in Roots |-> OutcomeOf(q)']
        BY DEF Outcome, OutcomeOf
      <3>2. QED
        BY <1>1, <1>4, <2>1, <3>1, OutcomeIs
    <2>4. CASE OutcomeOf(r)' = "open"
      BY <1>1, <1>3, <2>3, <2>4 DEF Outcome
    <2>5. CASE OutcomeOf(r)' \in {"completed", "failed"}
      <3>1. Attempts!Attempt(r, OutcomeOf(r)')
        BY <1>3, <2>3 DEF Attempts!Attempt
      <3>2. QED
        BY <1>1, <2>5, <3>1 DEF Attempts!Next
    <2>6. QED
      BY <2>2, <2>4, <2>5
  <1>7. QED
    BY <1>5, <1>6

\* A run whose attempts have all failed is tried once more.
LEMMA AppendAttempts ==
  ASSUME TypeOK, RootsInv, ChainInv, NEW r \in Roots, Appends(r)
  PROVE  [Attempts!Next]_<<Tries, Outcome>>
  <1> DEFINE N == NextAttempt(r)
             new == <<r, N>>
  <1>1. /\ N \in 1..(MaxAttempts - 1) /\ new \in Labels /\ new \notin Present /\ AllFailed(r)
        /\ \A l \in Chain(r) : l[2] < N
    BY NextIsNew DEF Appends
  <1>2. \E l \in Chain(r) : index[l].status \in RerunStatuses
    BY DEF Appends
  <1>3. index' = [index EXCEPT ![new] = Planned] /\ Planned.status = "planned"
    BY DEF Appends, Planned, NoEntry
  <1> HIDE DEF N
  <1>4. \A l \in Labels : index'[l] = IF l = new THEN Planned ELSE index[l]
    BY <1>3 DEF TypeOK
  <1>5. Chain(r)' = Chain(r) \cup {new}
    BY <1>1, <1>3, <1>4 DEF Chain, Present
  <1>6. Cardinality(Chain(r)') = Cardinality(Chain(r)) + 1
    <2>1. IsFiniteSet(Chain(r)) /\ new \notin Chain(r)
      BY <1>1, ChainFinite DEF Chain
    <2>2. Cardinality(Chain(r) \cup {new}) = Cardinality(Chain(r)) + 1
      <3>1. Cardinality(Chain(r) \cup {new})
              = IF new \in Chain(r) THEN Cardinality(Chain(r)) ELSE Cardinality(Chain(r)) + 1
        BY <2>1, FS_AddElement
      <3>2. QED
        BY <2>1, <3>1
    <2>3. QED
      BY <1>5, <2>2
  <1>7. \A q \in Roots \ {r} : Chain(q)' = Chain(q) /\ OutcomeOf(q)' = OutcomeOf(q)
    BY <1>4, SameChain
  <1>8. Tries' = [Tries EXCEPT ![r] = @ + 1]
    BY <1>6, <1>7 DEF Tries
  <1>9. Tries[r] < MaxAttempts
    <2>1. Chain(r) \subseteq {r} \X (0..(N - 1))
      BY <1>1 DEF Chain, Present, Labels
    <2>2. /\ IsFiniteSet({r} \X (0..(N - 1)))
          /\ Cardinality({r} \X (0..(N - 1))) = Cardinality({r}) * Cardinality(0..(N - 1))
      <3>1. IsFiniteSet({r})
        BY FS_Singleton
      <3>2. 0 \in Int /\ N - 1 \in Int
        BY <1>1, FleetAssumption
      <3>3. IsFiniteSet(0..(N - 1))
        BY <3>2, FS_Interval
      <3>4. QED
        BY <3>1, <3>3, FS_Product
    <2>3. Cardinality({r}) = 1 /\ Cardinality(0..(N - 1)) = N
      <3>1. Cardinality({r}) = 1
        BY FS_Singleton
      <3>2. N \in Nat /\ N > 0 /\ 0 \in Int /\ N - 1 \in Int
        BY <1>1, FleetAssumption
      <3>3. Cardinality(0..(N - 1)) = IF 0 > N - 1 THEN 0 ELSE (N - 1) - 0 + 1
        BY <3>2, FS_Interval
      <3>4. QED
        BY <3>1, <3>2, <3>3
    <2>4. Cardinality(Chain(r)) <= N
      BY <1>1, <2>1, <2>2, <2>3, FS_Subset
    <2>5. QED
      BY <1>1, <2>4, ChainFinite, FleetAssumption DEF Tries
  <1>10. OutcomeOf(r) = "failed" /\ OutcomeOf(r)' = "open"
    <2>1. OutcomeOf(r) = "failed"
      BY <1>1, <1>2 DEF AllFailed, OutcomeOf
    <2>2. new \in Chain(r)' /\ index'[new].status \notin RerunStatuses \cup {"completed"}
      BY <1>1, <1>3, <1>4, <1>5
    <2>3. QED
      BY <2>1, <2>2 DEF OutcomeOf
  <1>11. Outcome' = [Outcome EXCEPT ![r] = "open"] /\ Outcome[r] = "failed"
    <2>1. Outcome' = [q \in Roots |-> OutcomeOf(q)']
      BY DEF Outcome, OutcomeOf
    <2>2. QED
      BY <1>7, <1>10, <2>1, OutcomeIs
  <1>12. Attempts!Rerun(r)
    BY <1>8, <1>9, <1>11 DEF Attempts!Rerun
  <1>13. QED
    BY <1>12 DEF Attempts!Next

\* The plan's runs are open, and tried once.
LEMMA StartAttempts ==
  Init => Attempts!Init
  <1> SUFFICES ASSUME Init, NEW r \in Roots
               PROVE  Cardinality(Chain(r)) = 1 /\ OutcomeOf(r) = "open"
    BY OutcomeIs DEF Attempts!Init, Tries
  <1>1. Planned.status = "planned" /\ NoEntry.status = "absent"
    BY DEF Planned, NoEntry
  <1>2. <<r, 0>> \in Labels /\ <<r, 0>>[1] = r /\ <<r, 0>>[2] = 0
    BY FleetAssumption DEF Labels
  <1>3. \A l \in Labels : index[l].status = IF l[2] = 0 THEN "planned" ELSE "absent"
    BY <1>1 DEF Init
  <1>4. Chain(r) = {<<r, 0>>}
    BY <1>2, <1>3 DEF Chain, Present, Labels
  <1>5. QED
    BY <1>2, <1>3, <1>4, FS_Singleton DEF OutcomeOf

\* With one lease at a time the fleet makes the attempts RunAttempts promises.
THEOREM ImplementsRunAttempts ==
  ASSUME MaxLeases = 1
  PROVE  Spec => ImplementsAttempts
  <1>1. Inv /\ SerialInv /\ ChainInv /\ [Next]_vars => [Attempts!Next]_<<Tries, Outcome>>
    <2>1. ASSUME Inv, SerialInv, ChainInv, Next
          PROVE  [Attempts!Next]_<<Tries, Outcome>>
      <3>1. CASE index' = index
        BY <3>1 DEF Tries, Outcome, Chain, Present
      <3>2. TypeOK /\ RootsInv
        BY <2>1 DEF Inv, FleetInv
      <3>3. QED
        BY <2>1, <3>1, <3>2, StepAdvances, AdvanceAttempts, AppendAttempts
    <2>2. ASSUME UNCHANGED vars PROVE UNCHANGED <<Tries, Outcome>>
      BY <2>2 DEF vars, Tries, Outcome, Chain, Present
    <2>3. QED
      BY <2>1, <2>2
  <1>2. QED
    BY <1>1, StartAttempts, Invariance, SerialInvariance, PTL
       DEF Spec, ImplementsAttempts, Attempts!Spec, Attempts!attempts
=============================================================================
