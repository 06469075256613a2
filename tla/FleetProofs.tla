---------------------------- MODULE FleetProofs ----------------------------
(***************************************************************************)
(* What FleetController keeps for every plan, every number of attempts,     *)
(* leases and machines, and every combination of faults.                    *)
(*                                                                         *)
(* Nearly everything is about one label at a time, and a step touches one   *)
(* label or a few in the same way.  So the invariant is stated per label,   *)
(* a label nothing happens to keeps it (the frame lemmas), and each action  *)
(* is looked at for the label it is about.                                  *)
(***************************************************************************)
EXTENDS FleetController, FiniteSetTheorems, TLAPS

OpenStatuses == {"planned"} \cup ActiveRunStatuses

\* An entry that is not there has nothing; a leased one was planned before, and only a run that
\* was followed on its lease has results.
EntryOK(l) ==
    /\ index[l].status = "absent" =>
          /\ index[l] = NoEntry /\ thread[l].pc = "idle" /\ local[l] = "none"
          /\ \A m \in Machines : cloud[l][m] = NoVm
    /\ index[l].lease # NoMachine => index[l].status # "planned"
    /\ Verified(l) => index[l].lease # NoMachine

\* The machines of a label are found by its slug or its lease, and there is one at a time.
MachinesOK(l) ==
    \A m \in Machines :
        /\ Up(l, m) => /\ index[l].slug
                       /\ index[l].lease \in {NoMachine, m}
                       /\ \A n \in Machines : Up(l, n) => n = m
                       /\ index[l].status \notin {"failed", "completed"}
        /\ cloud[l][m].state = "stopped" => m = index[l].lease

\* Where a thread is says what the index has of its label.
PlaceOK(l) ==
    /\ At(l, "start") => index[l].status \in ResumableStatuses
    /\ At(l, "lease") => index[l].status \in OpenStatuses /\ ~Verified(l)
    /\ thread[l].pc \in {"warmup", "bind"} =>
          index[l].status = "leasing" /\ index[l].slug /\ index[l].lease = NoMachine
    /\ At(l, "bind") =>
          thread[l].vm \in Machines /\ \A m \in Machines : Up(l, m) => m = thread[l].vm
    /\ thread[l].pc \in {"probe", "hydrate", "dispatch", "attach", "follow"} =>
          /\ index[l].status \in ActiveRunStatuses /\ ~Verified(l)
          /\ thread[l].vm = index[l].lease /\ index[l].lease \in Machines
    /\ At(l, "export") => index[l].status \in ActiveRunStatuses /\ Verified(l)
    /\ At(l, "stop") => index[l].status \in CleanupStatuses
    /\ At(l, "settle") =>
          index[l].status \in CleanupStatuses /\ Verified(l) /\ \A m \in Machines : ~Up(l, m)
    /\ thread[l].pc \in {"rerun", "append"} => index[l].status \in RerunStatuses
    /\ At(l, "raised") => index[l].status = "lease_lost"
    /\ At(l, "done") => index[l].status \notin {"absent"} \cup OpenStatuses

LabelInv(l) == EntryOK(l) /\ MachinesOK(l) /\ PlaceOK(l)

\* The controller starts with no thread, and leaves none.
MainInv == main.pc \in {"down", "resume"} => InFlight = {}

FleetInv == TypeOK /\ MainInv /\ \A l \in Labels : LabelInv(l)

-----------------------------------------------------------------------------
USE DEF At, Up, Verified, NoMachine, OpenStatuses, ActiveRunStatuses, CleanupStatuses,
        RerunStatuses, ResumableStatuses

Same(k) ==
    /\ index'[k] = index[k] /\ cloud'[k] = cloud[k]
    /\ local'[k] = local[k] /\ thread'[k] = thread[k]
Others(l) == \A k \in Labels \ {l} : Same(k)

\* A step in the thread of l: the entry of l becomes e, its thread t.
Moves(l, e, t) ==
    /\ index' = [index EXCEPT ![l] = e] /\ e \in Entries /\ e.status # "absent"
    /\ thread' = [thread EXCEPT ![l] = t] /\ t \in Threads
    /\ main' = main /\ attempted' = attempted /\ faults' \in 0..MaxFaults
Entry(l, status) == [index[l] EXCEPT !.status = status]
Thread(l, pc) == [thread[l] EXCEPT !.pc = pc]

\* What it did to the machines of l, if anything, and to the results of l.
SetsVm(l, m, v) == cloud' = [cloud EXCEPT ![l][m] = v] /\ v \in Vms /\ v.procs <= v.started
SetsLocal(l, x) == local' = [local EXCEPT ![l] = x] /\ x \in {"none", "some"} \cup Archives

\* A label keeps its invariant when nothing that it speaks of changed.
LEMMA SameLabel ==
  ASSUME NEW k \in Labels, LabelInv(k), Same(k)
  PROVE  LabelInv(k)'
  BY DEF LabelInv, EntryOK, MachinesOK, PlaceOK, Same

\* A command that changes one machine of a label leaves the machines of all others.
LEMMA VmEffect ==
  ASSUME TypeOK, NEW l \in Labels,
         cloud' = cloud \/ \E m \in Machines, v \in Vms : SetsVm(l, m, v)
  PROVE  /\ cloud' \in [Labels -> [Machines -> Vms]]
         /\ \A k \in Labels, m \in Machines : cloud'[k][m].procs <= cloud'[k][m].started
         /\ \A k \in Labels \ {l} : cloud'[k] = cloud[k]
  <1>1. CASE cloud' = cloud
    BY <1>1 DEF TypeOK
  <1>2. ASSUME NEW m \in Machines, NEW v \in Vms, SetsVm(l, m, v)
        PROVE  /\ cloud' \in [Labels -> [Machines -> Vms]]
               /\ \A k \in Labels, n \in Machines : cloud'[k][n].procs <= cloud'[k][n].started
               /\ \A k \in Labels \ {l} : cloud'[k] = cloud[k]
    <2>1. \A k \in Labels, n \in Machines :
              cloud'[k][n] = IF k = l /\ n = m THEN v ELSE cloud[k][n]
      BY <1>2 DEF TypeOK, SetsVm
    <2>2. QED
      BY <1>2, <2>1 DEF TypeOK, SetsVm
  <1>3. QED
    BY <1>1, <1>2

\* Pulling files for a label changes what is here of that label only.
LEMMA LocalEffect ==
  ASSUME TypeOK, NEW l \in Labels, local' = local \/ \E x : SetsLocal(l, x)
  PROVE  /\ local' \in [Labels -> {"none", "some"} \cup Archives]
         /\ \A k \in Labels \ {l} : local'[k] = local[k]
  BY DEF TypeOK, SetsLocal

\* Every step of a thread that notes an entry and goes on touches one label, and keeps the types.
LEMMA MoveEffect ==
  ASSUME TypeOK, NEW l \in Labels, NEW e, NEW t, Moves(l, e, t),
         cloud' = cloud \/ \E m \in Machines, v \in Vms : SetsVm(l, m, v),
         local' = local \/ \E x : SetsLocal(l, x)
  PROVE  TypeOK' /\ Others(l) /\ index'[l] = e /\ thread'[l] = t
  <1>1. /\ index' \in [Labels -> Entries] /\ thread' \in [Labels -> Threads]
        /\ index'[l] = e /\ thread'[l] = t
        /\ \A k \in Labels \ {l} : index'[k] = index[k] /\ thread'[k] = thread[k]
    BY DEF TypeOK, Moves
  <1>2. attempted' \subseteq Present'
    BY <1>1 DEF TypeOK, Moves, Present
  <1>3. TypeOK'
    BY <1>1, <1>2, VmEffect, LocalEffect DEF TypeOK, Moves
  <1>4. QED
    BY <1>1, <1>3, VmEffect, LocalEffect DEF Others, Same

\* An entry and a thread of their types stay in them.
LEMMA EntryType ==
  ASSUME TypeOK, NEW l \in Labels, NEW s \in Statuses
  PROVE  Entry(l, s) \in Entries /\ Entry(l, s).status = s
  BY DEF TypeOK, Entries, Entry

\* A thread that went to another place is still a thread.
LEMMA ThreadType ==
  ASSUME TypeOK, NEW l \in Labels, NEW p \in Places
  PROVE  Thread(l, p) \in Threads /\ Thread(l, p).pc = p
  BY DEF TypeOK, Threads, Thread

\* A label whose thread runs is there.
LEMMA RunningIsPresent ==
  ASSUME NEW l \in Labels, LabelInv(l), thread[l].pc # "idle"
  PROVE  index[l].status # "absent"
  BY DEF LabelInv, EntryOK

\* A step that notes a status and goes on.
LEMMA NoteAndGoto ==
  ASSUME TypeOK, NEW l \in Labels, NEW s \in Statuses \ {"absent"}, NEW p \in Places,
         Note(l, s), Goto(l, p), UNCHANGED <<main, attempted>>, faults' \in 0..MaxFaults
  PROVE  Moves(l, Entry(l, s), Thread(l, p))
  BY EntryType, ThreadType DEF Note, Goto, Moves, Entry, Thread, TypeOK

\* A step that goes on.
LEMMA GotoAlone ==
  ASSUME TypeOK, NEW l \in Labels, index[l].status # "absent", NEW p \in Places,
         index' = index, Goto(l, p), UNCHANGED <<main, attempted>>, faults' \in 0..MaxFaults
  PROVE  Moves(l, index[l], Thread(l, p))
  BY ThreadType DEF Goto, Moves, Thread, TypeOK

-----------------------------------------------------------------------------
\* An error that ends a thread leaves a run that may have a machine to the next controller.
LEMMA FailMoves ==
  ASSUME TypeOK, NEW l \in Labels, index[l].status # "absent", Fail(l),
         UNCHANGED <<main, attempted>>, faults' \in 0..MaxFaults
  PROVE  \/ Moves(l, Entry(l, "recovery_required"), Thread(l, "done"))
         \/ /\ index[l].lease = NoMachine /\ ~index[l].slug
            /\ Moves(l, Entry(l, "failed"), Thread(l, "rerun"))
  <1>1. {"recovery_required", "failed"} \subseteq Statuses \ {"absent"}
    BY DEF Statuses
  <1>2. {"done", "rerun"} \subseteq Places
    BY DEF Places
  <1>3. index[l].slug \in BOOLEAN
    BY DEF TypeOK, Entries
  <1>4. QED
    BY <1>1, <1>2, <1>3, NoteAndGoto DEF Fail, Recover

\* So do errors whatever else the step did, as long as the machines' states are what they were, or
\* the label keeps them.
LEMMA FailKeeps ==
  ASSUME TypeOK, NEW l \in Labels, LabelInv(l), index[l].status # "absent", Fail(l),
         UNCHANGED <<main, attempted>>, faults' \in 0..MaxFaults,
         cloud' = cloud \/ \E m \in Machines, v \in Vms : SetsVm(l, m, v),
         \A m \in Machines : cloud'[l][m].state = cloud[l][m].state,
         local' = local
  PROVE  TypeOK' /\ Others(l) /\ LabelInv(l)'
  <1>1. CASE Moves(l, Entry(l, "recovery_required"), Thread(l, "done"))
    <2>1. /\ TypeOK' /\ Others(l)
          /\ index'[l] = Entry(l, "recovery_required") /\ thread'[l] = Thread(l, "done")
      BY <1>1, MoveEffect
    <2>2. EntryOK(l)' /\ PlaceOK(l)'
      BY <2>1 DEF LabelInv, EntryOK, PlaceOK, Entry, Thread, TypeOK, Entries, Threads
    <2>3. \A m \in Machines : Up(l, m)' <=> Up(l, m)
      OBVIOUS
    <2>4. MachinesOK(l)'
      BY <2>1, <2>3 DEF LabelInv, MachinesOK, Entry, TypeOK, Entries
    <2>5. QED
      BY <2>1, <2>2, <2>4 DEF LabelInv
  <1>2. CASE /\ index[l].lease = NoMachine /\ ~index[l].slug
             /\ Moves(l, Entry(l, "failed"), Thread(l, "rerun"))
    <2>1. /\ TypeOK' /\ Others(l)
          /\ index'[l] = Entry(l, "failed") /\ thread'[l] = Thread(l, "rerun")
      BY <1>2, MoveEffect
    <2>2. LabelInv(l)'
      BY <1>2, <2>1 DEF LabelInv, EntryOK, MachinesOK, PlaceOK, Entry, Thread, TypeOK, Entries, Threads
    <2>3. QED
      BY <2>1, <2>2
  <1>3. QED
    BY <1>1, <1>2, FailMoves

\* _execute_entry begins: the results are here, or a machine is needed (fleet.py:575-644).
LEMMA StartStep ==
  ASSUME TypeOK, NEW l \in Labels, LabelInv(l), Start(l)
  PROVE  TypeOK' /\ Others(l) /\ LabelInv(l)'
  <1>1. /\ index[l].status \in ResumableStatuses /\ index[l].status # "absent"
        /\ UNCHANGED <<cloud, local, main, attempted, faults>> /\ faults' \in 0..MaxFaults
    BY RunningIsPresent DEF Start, LabelInv, PlaceOK, TypeOK
  <1>2. CASE Verified(l)
    <2>1. Moves(l, Entry(l, "exported"), Thread(l, "stop"))
      BY <1>1, <1>2, NoteAndGoto DEF Start, Statuses, Places
    <2>2. TypeOK' /\ Others(l) /\ index'[l] = Entry(l, "exported") /\ thread'[l] = Thread(l, "stop")
      BY <1>1, <2>1, MoveEffect
    <2>3. LabelInv(l)'
      BY <1>1, <1>2, <2>2 DEF LabelInv, EntryOK, MachinesOK, PlaceOK, Entry, Thread, TypeOK, Entries, Threads
    <2>4. QED
      BY <2>2, <2>3
  <1>3. CASE ~Verified(l)
    <2> DEFINE pc == IF index[l].status \in CleanupStatuses THEN "stop" ELSE "lease"
    <2>1. Moves(l, index[l], Thread(l, pc))
      BY <1>1, <1>3, GotoAlone DEF Start, Places
    <2>2. TypeOK' /\ Others(l) /\ index'[l] = index[l] /\ thread'[l] = Thread(l, pc)
      BY <1>1, <2>1, MoveEffect
    <2>3. LabelInv(l)'
      BY <1>1, <1>3, <2>2 DEF LabelInv, EntryOK, MachinesOK, PlaceOK, Thread, TypeOK, Threads
    <2>4. QED
      BY <2>2, <2>3
  <1>4. QED
    BY <1>2, <1>3

\* _ensure_lease for a run that has a machine, which is found again or given up.
LEMMA ReattachStep ==
  ASSUME TypeOK, NEW l \in Labels, LabelInv(l), Reattach(l)
  PROVE  TypeOK' /\ Others(l) /\ LabelInv(l)'
  <1>1. /\ index[l].status \in OpenStatuses /\ index[l].status \notin {"absent", "planned"}
        /\ index[l].lease \in Machines /\ ~Verified(l)
        /\ UNCHANGED <<cloud, local, main, attempted, faults>> /\ faults' \in 0..MaxFaults
    BY RunningIsPresent DEF Reattach, LabelInv, EntryOK, PlaceOK, TypeOK, Entries
  <1>2. CASE /\ thread' = [thread EXCEPT ![l].pc = "probe", ![l].vm = index[l].lease]
             /\ UNCHANGED index
    <2> DEFINE t == [thread[l] EXCEPT !.pc = "probe", !.vm = index[l].lease]
    <2>1. t \in Threads
      BY <1>1 DEF TypeOK, Threads, Places
    <2>2. Moves(l, index[l], t)
      BY <1>1, <1>2, <2>1 DEF Moves, TypeOK
    <2>3. TypeOK' /\ Others(l) /\ index'[l] = index[l] /\ thread'[l] = t
      BY <1>1, <2>2, MoveEffect
    <2>4. LabelInv(l)'
      BY <1>1, <2>3 DEF LabelInv, EntryOK, MachinesOK, PlaceOK, TypeOK, Threads
    <2>5. QED
      BY <2>3, <2>4
  <1>3. CASE LoseLease(l)
    <2>1. Moves(l, Entry(l, "lease_lost"), Thread(l, "rerun"))
      BY <1>1, <1>3, NoteAndGoto DEF LoseLease, Statuses, Places
    <2>2. TypeOK' /\ Others(l) /\ index'[l] = Entry(l, "lease_lost") /\ thread'[l] = Thread(l, "rerun")
      BY <1>1, <2>1, MoveEffect
    <2>3. LabelInv(l)'
      BY <1>1, <2>2 DEF LabelInv, EntryOK, MachinesOK, PlaceOK, Entry, Thread, TypeOK, Entries, Threads
    <2>4. QED
      BY <2>2, <2>3
  <1>4. CASE Fail(l)
    BY <1>1, <1>4, FailKeeps
  <1>5. QED
    BY <1>2, <1>3, <1>4 DEF Reattach

\* _ensure_lease for a run that has none: the slug is in the index before a machine is asked for.
LEMMA RequestLeaseStep ==
  ASSUME TypeOK, NEW l \in Labels, LabelInv(l), RequestLease(l)
  PROVE  TypeOK' /\ Others(l) /\ LabelInv(l)'
  <1> DEFINE e == [index[l] EXCEPT !.status = "leasing", !.slug = TRUE]
  <1>1. e \in Entries /\ e.status = "leasing"
    BY DEF TypeOK, Entries, Statuses
  <1>2. Moves(l, e, Thread(l, "warmup"))
    BY <1>1, ThreadType DEF RequestLease, Goto, Moves, Thread, TypeOK, Places
  <1>3. TypeOK' /\ Others(l) /\ index'[l] = e /\ thread'[l] = Thread(l, "warmup")
    BY <1>2, MoveEffect DEF RequestLease
  <1>4. LabelInv(l)'
    BY <1>3 DEF RequestLease, LabelInv, EntryOK, MachinesOK, PlaceOK, Thread, TypeOK, Entries, Threads
  <1>5. QED
    BY <1>3, <1>4

\* A machine that has the slug is the only one there is.
LEMMA FindMachineStep ==
  ASSUME TypeOK, NEW l \in Labels, LabelInv(l), FindMachine(l)
  PROVE  TypeOK' /\ Others(l) /\ LabelInv(l)'
  <1> PICK m \in Machines :
        Up(l, m) /\ thread' = [thread EXCEPT ![l].pc = "bind", ![l].vm = m]
    BY DEF FindMachine
  <1> DEFINE t == [thread[l] EXCEPT !.pc = "bind", !.vm = m]
  <1>1. t \in Threads
    BY DEF TypeOK, Threads, Places
  <1>2. Moves(l, index[l], t)
    BY <1>1, RunningIsPresent DEF FindMachine, Moves, TypeOK
  <1>3. TypeOK' /\ Others(l) /\ index'[l] = index[l] /\ thread'[l] = t
    BY <1>2, MoveEffect DEF FindMachine
  <1>4. LabelInv(l)'
    BY <1>3 DEF FindMachine, LabelInv, EntryOK, MachinesOK, PlaceOK, TypeOK, Threads
  <1>5. QED
    BY <1>3, <1>4

\* A label that has no lease has machines that were never used or are gone: one of them is next.
LEMMA SomeMachineIsUnused ==
  ASSUME TypeOK, NEW l \in Labels, LabelInv(l), index[l].lease = NoMachine,
         \A m \in Machines : ~Up(l, m)
  PROVE  Min(Unused(l)) \in Machines
  <1>1. Machines \subseteq Int /\ 1 \in Machines /\ \A m \in Machines : 1 <= m /\ m # NoMachine
    BY FleetAssumption DEF Machines
  <1>2. \A m \in Machines : cloud[l][m].state \in {"none", "lost"}
    BY <1>1 DEF LabelInv, MachinesOK, TypeOK, Vms
  <1>3. Unused(l) = Machines
    BY <1>2 DEF Unused
  <1>4. QED
    BY <1>1, <1>3 DEF Min

\* The machine that is warmed up is the only one, also if the command fails after all.
LEMMA WarmUpStep ==
  ASSUME TypeOK, NEW l \in Labels, LabelInv(l), WarmUp(l)
  PROVE  TypeOK' /\ Others(l) /\ LabelInv(l)'
  <1> DEFINE m == Min(Unused(l))
             v == [NoVm EXCEPT !.state = "up"]
             t == [thread[l] EXCEPT !.pc = "bind", !.vm = m]
  <1>1. /\ index[l].lease = NoMachine /\ index[l].status = "leasing" /\ index[l].slug
        /\ UNCHANGED <<local, main, attempted, faults>> /\ faults' \in 0..MaxFaults
        /\ \A n \in Machines : ~Up(l, n)
    BY DEF WarmUp, LabelInv, PlaceOK, TypeOK
  <1>2. m \in Machines
    BY <1>1, SomeMachineIsUnused
  <1>3. SetsVm(l, m, v) /\ v \in Vms
    <2>1. NoVm \in Vms /\ NoVm.procs = 0 /\ NoVm.started = 0
      BY DEF NoVm, Vms
    <2>2. v \in Vms /\ v.procs <= v.started
      BY <2>1 DEF Vms
    <2>3. QED
      BY <2>2 DEF WarmUp, SetsVm
  <1>4. \A n \in Machines : cloud'[l][n] = IF n = m THEN v ELSE cloud[l][n]
    BY <1>2, <1>3 DEF SetsVm, TypeOK
  <1>5. \A n \in Machines : Up(l, n)' <=> n = m
    BY <1>1, <1>2, <1>4 DEF NoVm, Machines
  <1>6. \A n \in Machines : cloud'[l][n].state # "stopped"
    BY <1>1, <1>4 DEF NoVm, LabelInv, MachinesOK, Machines
  <1>7. ASSUME thread' = [thread EXCEPT ![l].pc = "bind", ![l].vm = m], UNCHANGED index
        PROVE  TypeOK' /\ Others(l) /\ LabelInv(l)'
    <2>1. t \in Threads
      BY <1>2 DEF TypeOK, Threads, Places
    <2>2. Moves(l, index[l], t)
      BY <1>1, <1>7, <2>1 DEF Moves, TypeOK
    <2>3. TypeOK' /\ Others(l) /\ index'[l] = index[l] /\ thread'[l] = t
      BY <1>1, <1>2, <1>3, <2>2, MoveEffect
    <2>4. EntryOK(l)' /\ PlaceOK(l)'
      BY <1>1, <1>2, <1>5, <2>3 DEF LabelInv, EntryOK, PlaceOK, TypeOK, Threads
    <2>5. MachinesOK(l)'
      BY <1>1, <1>5, <1>6, <2>3 DEF MachinesOK
    <2>6. QED
      BY <2>3, <2>4, <2>5 DEF LabelInv
  <1>8. ASSUME Fail(l)
        PROVE  TypeOK' /\ Others(l) /\ LabelInv(l)'
    <2>1. Moves(l, Entry(l, "recovery_required"), Thread(l, "done"))
      BY <1>1, <1>8, FailMoves
    <2>2. /\ TypeOK' /\ Others(l)
          /\ index'[l] = Entry(l, "recovery_required") /\ thread'[l] = Thread(l, "done")
      BY <1>1, <1>2, <1>3, <2>1, MoveEffect
    <2>3. EntryOK(l)' /\ PlaceOK(l)'
      BY <1>1, <2>2 DEF LabelInv, EntryOK, PlaceOK, Entry, Thread, TypeOK, Entries, Threads
    <2>4. MachinesOK(l)'
      BY <1>1, <1>5, <1>6, <2>2 DEF MachinesOK, Entry, TypeOK, Entries
    <2>5. QED
      BY <2>2, <2>3, <2>4 DEF LabelInv
  <1>9. QED
    BY <1>7, <1>8 DEF WarmUp

\* A warm-up that failed before there was a machine.
LEMMA WarmUpFailsStep ==
  ASSUME TypeOK, NEW l \in Labels, LabelInv(l), WarmUpFails(l)
  PROVE  TypeOK' /\ Others(l) /\ LabelInv(l)'
  BY RunningIsPresent, FailKeeps DEF WarmUpFails, TypeOK

\* The lease is noted: as there is one machine, it is the lease's.
LEMMA BindLeaseStep ==
  ASSUME TypeOK, NEW l \in Labels, LabelInv(l), BindLease(l)
  PROVE  TypeOK' /\ Others(l) /\ LabelInv(l)'
  <1> DEFINE e == [index[l] EXCEPT !.status = "bootstrapping", !.lease = thread[l].vm]
  <1>1. /\ index[l].lease = NoMachine /\ index[l].status = "leasing" /\ index[l].slug
        /\ thread[l].vm \in Machines /\ ~Verified(l)
        /\ \A m \in Machines : Up(l, m) => m = thread[l].vm
        /\ UNCHANGED <<cloud, local, main, attempted, faults>> /\ faults' \in 0..MaxFaults
    BY DEF BindLease, LabelInv, EntryOK, PlaceOK, TypeOK
  <1>2. CASE Up(l, thread[l].vm)
    <2>1. e \in Entries /\ e.status = "bootstrapping"
      <3>1. "bootstrapping" \in Statuses
        BY DEF Statuses
      <3>2. QED
        BY <1>1, <3>1 DEF TypeOK, Entries
    <2>2. Moves(l, e, Thread(l, "probe"))
      <3>1. index' = [index EXCEPT ![l] = e] /\ thread' = [thread EXCEPT ![l] = Thread(l, "probe")]
        BY <1>2 DEF BindLease, Goto, Thread, TypeOK
      <3>2. Thread(l, "probe") \in Threads
        BY ThreadType DEF Places
      <3>3. QED
        BY <1>1, <2>1, <3>1, <3>2 DEF Moves
    <2>3. TypeOK' /\ Others(l) /\ index'[l] = e /\ thread'[l] = Thread(l, "probe")
      BY <1>1, <2>2, MoveEffect
    <2>4. EntryOK(l)' /\ PlaceOK(l)'
      BY <1>1, <1>2, <2>3 DEF LabelInv, EntryOK, PlaceOK, Thread, TypeOK, Entries, Threads
    <2>5. MachinesOK(l)'
      BY <1>1, <1>2, <2>3 DEF LabelInv, MachinesOK, TypeOK, Entries, Machines
    <2>6. QED
      BY <2>3, <2>4, <2>5 DEF LabelInv
  <1>3. CASE ~Up(l, thread[l].vm)
    <2>1. Moves(l, Entry(l, "lease_lost"), Thread(l, "rerun"))
      BY <1>1, <1>3, NoteAndGoto DEF BindLease, LoseLease, Statuses, Places
    <2>2. TypeOK' /\ Others(l) /\ index'[l] = Entry(l, "lease_lost") /\ thread'[l] = Thread(l, "rerun")
      BY <1>1, <2>1, MoveEffect
    <2>3. LabelInv(l)'
      BY <1>1, <2>2 DEF LabelInv, EntryOK, MachinesOK, PlaceOK, Entry, Thread, TypeOK, Entries, Threads
    <2>4. QED
      BY <2>2, <2>3
  <1>4. QED
    BY <1>2, <1>3

\* A step that goes on with the run, on the machine it has.
LEMMA GoOn ==
  ASSUME TypeOK, NEW l \in Labels, LabelInv(l),
         thread[l].pc \in {"probe", "hydrate", "dispatch", "attach"}, index' = index, local' = local,
         NEW p \in {"hydrate", "dispatch", "attach"}, Goto(l, p),
         UNCHANGED <<main, attempted>>, faults' \in 0..MaxFaults,
         cloud' = cloud \/ \E m \in Machines, v \in Vms : SetsVm(l, m, v),
         \A m \in Machines : cloud'[l][m].state = cloud[l][m].state
  PROVE  TypeOK' /\ Others(l) /\ LabelInv(l)'
  <1>1. Moves(l, index[l], Thread(l, p))
    BY RunningIsPresent, GotoAlone DEF Places
  <1>2. TypeOK' /\ Others(l) /\ index'[l] = index[l] /\ thread'[l] = Thread(l, p)
    BY <1>1, MoveEffect
  <1>3. EntryOK(l)' /\ PlaceOK(l)'
    BY <1>2, RunningIsPresent DEF LabelInv, EntryOK, PlaceOK, Thread, TypeOK, Threads
  <1>4. MachinesOK(l)'
    BY <1>2 DEF LabelInv, MachinesOK
  <1>5. QED
    BY <1>2, <1>3, <1>4 DEF LabelInv

\* _probe_remote sends the thread to attach, to hydrate or to dispatch, or fails.
LEMMA ProbeStep ==
  ASSUME TypeOK, NEW l \in Labels, LabelInv(l), Probe(l)
  PROVE  TypeOK' /\ Others(l) /\ LabelInv(l)'
  <1>1. /\ UNCHANGED <<cloud, local, main, attempted, faults>> /\ faults' \in 0..MaxFaults
        /\ index[l].status # "absent" /\ At(l, "probe")
    BY RunningIsPresent DEF Probe, TypeOK
  <1>2. \/ Fail(l)
        \/ \E p \in {"hydrate", "dispatch", "attach"} : Goto(l, p) /\ UNCHANGED index
    BY DEF Probe
  <1>3. QED
    BY <1>1, <1>2, FailKeeps, GoOn

\* The machine is bootstrapped, which the index notes, or it is not.
LEMMA HydrateStep ==
  ASSUME TypeOK, NEW l \in Labels, LabelInv(l), Hydrate(l)
  PROVE  TypeOK' /\ Others(l) /\ LabelInv(l)'
  <1> DEFINE e == [index[l] EXCEPT !.status = "ready", !.boot = thread[l].vm]
  <1>1. /\ UNCHANGED <<cloud, local, main, attempted, faults>> /\ faults' \in 0..MaxFaults
        /\ index[l].status # "absent"
    BY RunningIsPresent DEF Hydrate, TypeOK
  <1>2. CASE index' = [index EXCEPT ![l].status = "ready", ![l].boot = thread[l].vm] /\ Goto(l, "dispatch")
    <2>1. e \in Entries /\ e.status = "ready"
      <3>1. "ready" \in Statuses /\ thread[l].vm \in Machines \cup {NoMachine}
        BY DEF Statuses, TypeOK, Threads
      <3>2. QED
        BY <3>1 DEF TypeOK, Entries
    <2>2. Moves(l, e, Thread(l, "dispatch"))
      BY <1>1, <1>2, <2>1, ThreadType DEF Goto, Moves, Thread, TypeOK, Places
    <2>3. TypeOK' /\ Others(l) /\ index'[l] = e /\ thread'[l] = Thread(l, "dispatch")
      BY <1>1, <2>2, MoveEffect
    <2>4. LabelInv(l)'
      BY <1>1, <2>3 DEF Hydrate, LabelInv, EntryOK, MachinesOK, PlaceOK, Thread, TypeOK, Entries, Threads
    <2>5. QED
      BY <2>3, <2>4
  <1>3. CASE Fail(l)
    BY <1>1, <1>3, FailKeeps
  <1>4. QED
    BY <1>2, <1>3 DEF Hydrate

\* The machines' states are not touched by what is started on them.
LEMMA StartsEffect ==
  ASSUME TypeOK, NEW l \in Labels, NEW m \in Machines, NEW v \in Vms, v.procs <= v.started,
         v.state = cloud[l][m].state, cloud' = [cloud EXCEPT ![l][m] = v]
  PROVE  /\ \E n \in Machines, u \in Vms : SetsVm(l, n, u)
         /\ \A n \in Machines : cloud'[l][n].state = cloud[l][n].state
  BY DEF SetsVm, TypeOK

\* Starting the run on a machine leaves a machine.
LEMMA StartedVm ==
  ASSUME NEW c \in Vms, c.procs <= c.started, NEW n \in {1, 2}
  PROVE  LET v == [c EXCEPT !.started = @ + n, !.procs = @ + n] IN
         v \in Vms /\ v.procs <= v.started /\ v.state = c.state
  <1>1. c.started + n \in Nat /\ c.procs + n \in Nat /\ c.procs + n <= c.started + n
    BY DEF Vms
  <1>2. QED
    BY <1>1 DEF Vms

\* So does a run that is over at once.
LEMMA OverVm ==
  ASSUME NEW c \in Vms, c.procs <= c.started, NEW over \in BOOLEAN
  PROVE  LET v == [c EXCEPT !.started = @ + 1, !.done = over] IN
         v \in Vms /\ v.procs <= v.started /\ v.state = c.state
  <1>1. c.started + 1 \in Nat /\ c.procs <= c.started + 1
    BY DEF Vms
  <1>2. QED
    BY <1>1 DEF Vms

\* The run is started once, or twice when an answer was lost, or not at all.
LEMMA DispatchStep ==
  ASSUME TypeOK, NEW l \in Labels, LabelInv(l), Dispatch(l)
  PROVE  TypeOK' /\ Others(l) /\ LabelInv(l)'
  <1> DEFINE m == thread[l].vm
             Started(n) == [cloud[l][m] EXCEPT !.started = @ + n, !.procs = @ + n]
  <1>1. /\ UNCHANGED <<local, main, attempted>>
        /\ index[l].status # "absent" /\ At(l, "dispatch") /\ m \in Machines
    BY RunningIsPresent DEF Dispatch, LabelInv, PlaceOK
  <1>2. faults' \in 0..MaxFaults
    BY FleetAssumption DEF Dispatch, TypeOK
  <1>3. ASSUME NEW n \in {1, 2}, cloud' = [cloud EXCEPT ![l][m].started = @ + n, ![l][m].procs = @ + n]
        PROVE  /\ \E k \in Machines, u \in Vms : SetsVm(l, k, u)
               /\ \A k \in Machines : cloud'[l][k].state = cloud[l][k].state
    <2>1. cloud[l][m] \in Vms /\ cloud[l][m].procs <= cloud[l][m].started
      BY <1>1 DEF TypeOK
    <2>2. Started(n) \in Vms /\ Started(n).procs <= Started(n).started /\ Started(n).state = cloud[l][m].state
      BY <2>1, StartedVm
    <2>3. cloud' = [cloud EXCEPT ![l][m] = Started(n)]
      BY <1>1, <1>3, <2>1 DEF TypeOK, Vms
    <2>4. QED
      BY <1>1, <2>2, <2>3, StartsEffect
  <1>4. \/ \E n \in {1, 2} : cloud' = [cloud EXCEPT ![l][m].started = @ + n, ![l][m].procs = @ + n]
        \/ cloud' = cloud
    <2>1. \/ cloud' = [cloud EXCEPT ![l][m].started = @ + 1, ![l][m].procs = @ + 1]
          \/ cloud' = [cloud EXCEPT ![l][m].started = @ + 2, ![l][m].procs = @ + 2]
          \/ cloud' = cloud
      BY Zenon DEF Dispatch
    <2>2. QED
      BY <2>1
  <1>5. /\ cloud' = cloud \/ \E k \in Machines, u \in Vms : SetsVm(l, k, u)
        /\ \A k \in Machines : cloud'[l][k].state = cloud[l][k].state
    BY <1>3, <1>4
  <1>6. Fail(l) \/ (Goto(l, "attach") /\ UNCHANGED index)
    BY DEF Dispatch
  <1>7. QED
    BY <1>1, <1>2, <1>5, <1>6, FailKeeps, GoOn

\* The run is over before the script looks at it.
LEMMA DispatchDiesStep ==
  ASSUME TypeOK, NEW l \in Labels, LabelInv(l), DispatchDies(l)
  PROVE  TypeOK' /\ Others(l) /\ LabelInv(l)'
  <1> DEFINE m == thread[l].vm
             Left(over) == [cloud[l][m] EXCEPT !.started = @ + 1, !.done = over]
  <1>1. /\ UNCHANGED <<local, main, attempted>> /\ faults' \in 0..MaxFaults
        /\ index[l].status # "absent" /\ m \in Machines /\ Fail(l)
    BY RunningIsPresent DEF DispatchDies, LabelInv, PlaceOK, TypeOK
  <1>2. cloud[l][m] \in Vms /\ cloud[l][m].procs <= cloud[l][m].started
    BY <1>1 DEF TypeOK
  <1>3. CASE UNCHANGED cloud
    BY <1>1, <1>3, FailKeeps
  <1>4. ASSUME NEW over \in BOOLEAN, cloud' = [cloud EXCEPT ![l][m].started = @ + 1, ![l][m].done = over]
        PROVE  TypeOK' /\ Others(l) /\ LabelInv(l)'
    <2>1. Left(over) \in Vms /\ Left(over).procs <= Left(over).started /\ Left(over).state = cloud[l][m].state
      BY <1>2, OverVm
    <2>2. cloud' = [cloud EXCEPT ![l][m] = Left(over)]
      BY <1>1, <1>2, <1>4 DEF TypeOK, Vms
    <2>3. QED
      BY <1>1, <2>1, <2>2, StartsEffect, FailKeeps
  <1>5. QED
    BY <1>3, <1>4 DEF DispatchDies

\* The index notes that the run is followed.
LEMMA AttachStep ==
  ASSUME TypeOK, NEW l \in Labels, LabelInv(l), Attach(l)
  PROVE  TypeOK' /\ Others(l) /\ LabelInv(l)'
  <1>1. Moves(l, Entry(l, "running"), Thread(l, "follow"))
    BY RunningIsPresent, NoteAndGoto DEF Attach, Statuses, Places, TypeOK
  <1>2. TypeOK' /\ Others(l) /\ index'[l] = Entry(l, "running") /\ thread'[l] = Thread(l, "follow")
    BY <1>1, MoveEffect DEF Attach
  <1>3. LabelInv(l)'
    BY <1>2 DEF Attach, LabelInv, EntryOK, MachinesOK, PlaceOK, Entry, Thread, TypeOK, Entries, Threads
  <1>4. QED
    BY <1>2, <1>3

\* A checkpoint comes home.
LEMMA PullCheckpointStep ==
  ASSUME TypeOK, NEW l \in Labels, LabelInv(l), PullCheckpoint(l)
  PROVE  TypeOK' /\ Others(l) /\ LabelInv(l)'
  <1>1. SetsLocal(l, "some")
    BY DEF PullCheckpoint, SetsLocal
  <1>2. TypeOK' /\ Others(l)
    BY <1>1, LocalEffect DEF PullCheckpoint, Others, Same, TypeOK, Present
  <1>3. LabelInv(l)'
    BY RunningIsPresent DEF PullCheckpoint, LabelInv, EntryOK, MachinesOK, PlaceOK, TypeOK, Archives
  <1>4. QED
    BY <1>2, <1>3

\* The final archive comes home.
LEMMA PullFinalStep ==
  ASSUME TypeOK, NEW l \in Labels, LabelInv(l), PullFinal(l)
  PROVE  TypeOK' /\ Others(l) /\ LabelInv(l)'
  <1> DEFINE x == cloud[l][thread[l].vm].archive
  <1> PICK rc \in ExitCodes : thread' = [thread EXCEPT ![l].pc = "export", ![l].rc = rc]
    BY DEF PullFinal, ArchivedExit, ExitCodes
  <1> DEFINE t == [thread[l] EXCEPT !.pc = "export", !.rc = rc]
  <1>1. t \in Threads
    BY DEF TypeOK, Threads, Places
  <1>2. Moves(l, index[l], t)
    BY <1>1, RunningIsPresent DEF PullFinal, Moves, TypeOK
  <1>3. SetsLocal(l, x) /\ x \in Archives
    BY DEF PullFinal, SetsLocal
  <1>4. TypeOK' /\ Others(l) /\ index'[l] = index[l] /\ thread'[l] = t
    BY <1>2, <1>3, MoveEffect DEF PullFinal
  <1>5. local'[l] \in Archives
    BY <1>3 DEF SetsLocal, TypeOK
  <1>6. LabelInv(l)'
    BY <1>4, <1>5 DEF PullFinal, LabelInv, EntryOK, MachinesOK, PlaceOK, TypeOK, Threads, Machines
  <1>7. QED
    BY <1>4, <1>6

\* The checkpoint loop gives up with what is here.
LEMMA GiveUpStep ==
  ASSUME TypeOK, NEW l \in Labels, LabelInv(l), GiveUp(l)
  PROVE  TypeOK' /\ Others(l) /\ LabelInv(l)'
  <1> DEFINE x == IF local[l] = "none" THEN "some" ELSE local[l]
  <1>1. Moves(l, Entry(l, "recovery_required"), Thread(l, "done"))
    BY NoteAndGoto DEF GiveUp, Recover, Statuses, Places, TypeOK
  <1>2. SetsLocal(l, x) /\ (x \in Archives <=> local[l] \in Archives)
    BY DEF GiveUp, SetsLocal, TypeOK, Archives
  <1>3. /\ TypeOK' /\ Others(l)
        /\ index'[l] = Entry(l, "recovery_required") /\ thread'[l] = Thread(l, "done")
    BY <1>1, <1>2, MoveEffect DEF GiveUp
  <1>4. local'[l] \in Archives <=> local[l] \in Archives
    BY <1>2 DEF SetsLocal, TypeOK
  <1>5. LabelInv(l)'
    BY <1>3, <1>4 DEF GiveUp, LabelInv, EntryOK, MachinesOK, PlaceOK, Entry, Thread, TypeOK, Entries, Threads
  <1>6. QED
    BY <1>3, <1>5

\* What the loop came to is noted.
LEMMA ExportStep ==
  ASSUME TypeOK, NEW l \in Labels, LabelInv(l), Export(l)
  PROVE  TypeOK' /\ Others(l) /\ LabelInv(l)'
  <1> DEFINE e == [index[l] EXCEPT !.status = "exported", !.exit = thread[l].rc]
  <1>1. e \in Entries /\ e.status = "exported"
    <2>1. "exported" \in Statuses /\ thread[l].rc \in ExitCodes
      BY DEF Statuses, TypeOK, Threads
    <2>2. QED
      BY <2>1 DEF TypeOK, Entries
  <1>2. Moves(l, e, Thread(l, "stop"))
    BY <1>1, ThreadType DEF Export, Goto, Moves, Thread, TypeOK, Places
  <1>3. TypeOK' /\ Others(l) /\ index'[l] = e /\ thread'[l] = Thread(l, "stop")
    BY <1>2, MoveEffect DEF Export
  <1>4. LabelInv(l)'
    BY <1>3 DEF Export, LabelInv, EntryOK, MachinesOK, PlaceOK, Thread, TypeOK, Entries, Threads
  <1>5. QED
    BY <1>3, <1>4

-----------------------------------------------------------------------------
\* _finish_exported takes the exit code that was noted or the archive's.
LEMMA ExitIsCode ==
  ASSUME TypeOK, NEW l \in Labels
  PROVE  ExitOf(l) \in ExitCodes
  BY DEF ExitOf, ArchivedExit, ExitCodes, TypeOK, Entries

\* An entry with a new status and exit code is an entry.
LEMMA SettledEntry ==
  ASSUME TypeOK, NEW l \in Labels, NEW s \in Statuses, NEW x \in ExitCodes
  PROVE  [index[l] EXCEPT !.status = s, !.exit = x] \in Entries
  BY DEF TypeOK, Entries

\* A machine that is stopped was the label's only one.
LEMMA StopEffect ==
  ASSUME TypeOK, NEW l \in Labels, LabelInv(l), index[l].lease # NoMachine,
         cloud' = [cloud EXCEPT ![l][index[l].lease].state = IF @ = "up" THEN "stopped" ELSE @]
  PROVE  /\ \E n \in Machines, u \in Vms : SetsVm(l, n, u)
         /\ \A n \in Machines : ~Up(l, n)'
         /\ \A n \in Machines : cloud'[l][n].state = "stopped" => n = index[l].lease
  <1> DEFINE m == index[l].lease
             v == [cloud[l][m] EXCEPT !.state = IF @ = "up" THEN "stopped" ELSE @]
  <1>1. m \in Machines
    BY DEF TypeOK, Entries
  <1>2. cloud[l][m] \in Vms /\ cloud[l][m].procs <= cloud[l][m].started
    BY <1>1 DEF TypeOK
  <1>3. v \in Vms /\ v.procs <= v.started /\ v.state # "up"
    BY <1>2 DEF Vms
  <1>4. cloud' = [cloud EXCEPT ![l][m] = v]
    BY <1>1, <1>2 DEF TypeOK, Vms
  <1>5. \A n \in Machines : cloud'[l][n] = IF n = m THEN v ELSE cloud[l][n]
    BY <1>1, <1>4 DEF TypeOK
  <1>6. \A n \in Machines : n # m => ~Up(l, n)
    BY <1>1 DEF LabelInv, MachinesOK
  <1>7. \A n \in Machines : ~Up(l, n)'
    BY <1>3, <1>5, <1>6
  <1>8. \A n \in Machines : cloud'[l][n].state = "stopped" => n = m
    BY <1>5 DEF LabelInv, MachinesOK
  <1>9. QED
    BY <1>1, <1>3, <1>4, <1>7, <1>8 DEF SetsVm

\* _finish_exported stops the leased machine, postpones that, or cannot (fleet.py:1279-1352).
LEMMA StopStep ==
  ASSUME TypeOK, NEW l \in Labels, LabelInv(l), Stop(l)
  PROVE  TypeOK' /\ Others(l) /\ LabelInv(l)'
  <1>1. /\ UNCHANGED <<local, main, attempted>> /\ faults' \in 0..MaxFaults
        /\ index[l].status \in CleanupStatuses /\ At(l, "stop")
    BY DEF Stop, LabelInv, PlaceOK, TypeOK
  <1> DEFINE m == index[l].lease
             Stopped == cloud' = [cloud EXCEPT ![l][m].state = IF @ = "up" THEN "stopped" ELSE @]
             e == [index[l] EXCEPT !.status = "stop_pending", !.exit = ExitOf(l)]
  <1>2. CASE CannotFinish(l)
    <2>1. Moves(l, Entry(l, "recovery_required"), Thread(l, "done")) /\ UNCHANGED cloud
      BY <1>1, <1>2, NoteAndGoto DEF Stop, Recover, Statuses, Places
    <2>2. /\ TypeOK' /\ Others(l)
          /\ index'[l] = Entry(l, "recovery_required") /\ thread'[l] = Thread(l, "done")
      BY <1>1, <2>1, MoveEffect
    <2>3. LabelInv(l)'
      BY <1>1, <2>1, <2>2 DEF LabelInv, EntryOK, MachinesOK, PlaceOK, Entry, Thread, TypeOK, Entries, Threads
    <2>4. QED
      BY <2>2, <2>3
  <1>3. CASE ~CannotFinish(l)
    <2>1. Verified(l) /\ m # NoMachine
      BY <1>3 DEF CannotFinish
    <2>2. ASSUME Stopped, Goto(l, "settle"), UNCHANGED index
          PROVE  TypeOK' /\ Others(l) /\ LabelInv(l)'
      <3>1. Moves(l, index[l], Thread(l, "settle"))
        BY <1>1, <2>2, GotoAlone DEF Places
      <3>2. TypeOK' /\ Others(l) /\ index'[l] = index[l] /\ thread'[l] = Thread(l, "settle")
        BY <1>1, <2>1, <2>2, <3>1, StopEffect, MoveEffect
      <3>3. /\ \A n \in Machines : ~Up(l, n)'
            /\ \A n \in Machines : cloud'[l][n].state = "stopped" => n = index[l].lease
        BY <2>1, <2>2, StopEffect
      <3>4. EntryOK(l)' /\ PlaceOK(l)'
        BY <1>1, <2>1, <3>2, <3>3 DEF LabelInv, EntryOK, PlaceOK, Thread, TypeOK, Threads
      <3>5. MachinesOK(l)'
        BY <3>2, <3>3 DEF MachinesOK
      <3>6. QED
        BY <3>2, <3>4, <3>5 DEF LabelInv
    <2>3. ASSUME index' = [index EXCEPT ![l].status = "stop_pending", ![l].exit = ExitOf(l)],
                 Goto(l, "done"), Stopped \/ UNCHANGED cloud
          PROVE  TypeOK' /\ Others(l) /\ LabelInv(l)'
      <3>1. e \in Entries /\ e.status = "stop_pending" /\ e.lease = m /\ e.slug = index[l].slug
        <4>1. "stop_pending" \in Statuses
          BY DEF Statuses
        <4>2. e \in Entries
          BY <4>1, ExitIsCode, SettledEntry
        <4>3. QED
          BY <4>2 DEF TypeOK, Entries
      <3>2. Moves(l, e, Thread(l, "done"))
        BY <1>1, <2>3, <3>1, ThreadType DEF Goto, Moves, Thread, TypeOK, Places
      <3>3. TypeOK' /\ Others(l) /\ index'[l] = e /\ thread'[l] = Thread(l, "done")
        BY <1>1, <2>1, <2>3, <3>2, StopEffect, MoveEffect
      <3>4. EntryOK(l)' /\ PlaceOK(l)'
        BY <1>1, <2>1, <3>1, <3>3 DEF LabelInv, EntryOK, PlaceOK, Thread, TypeOK, Threads
      <3>5. MachinesOK(l)'
        <4>1. CASE Stopped
          BY <2>1, <3>1, <3>3, <4>1, StopEffect DEF MachinesOK
        <4>2. CASE UNCHANGED cloud
          BY <3>1, <3>3, <4>2 DEF LabelInv, MachinesOK
        <4>3. QED
          BY <2>3, <4>1, <4>2
      <3>6. QED
        BY <3>3, <3>4, <3>5 DEF LabelInv
    <2>4. QED
      BY <1>3, <2>2, <2>3 DEF Stop
  <1>4. QED
    BY <1>2, <1>3

\* A run whose machine is stopped is completed or failed.
LEMMA SettleStep ==
  ASSUME TypeOK, NEW l \in Labels, LabelInv(l), Settle(l)
  PROVE  TypeOK' /\ Others(l) /\ LabelInv(l)'
  <1> DEFINE completed == ExitOf(l) = "zero" /\ HasAllResults(local[l])
             s == IF completed THEN "completed" ELSE "failed"
             p == IF completed THEN "done" ELSE "rerun"
             e == [index[l] EXCEPT !.status = s, !.exit = ExitOf(l)]
  <1>1. /\ UNCHANGED <<cloud, local, main, attempted, faults>> /\ faults' \in 0..MaxFaults
        /\ Verified(l) /\ \A n \in Machines : ~Up(l, n)
        /\ index[l].lease # NoMachine
    BY DEF Settle, LabelInv, EntryOK, PlaceOK, TypeOK
  <1>2. s \in Statuses /\ p \in Places
    BY DEF Statuses, Places
  <1>3. e \in Entries /\ e.status = s /\ e.lease = index[l].lease
    BY <1>2, ExitIsCode, SettledEntry DEF TypeOK, Entries
  <1>4. Moves(l, e, Thread(l, p))
    <2>1. index' = [index EXCEPT ![l] = e]
      BY DEF Settle, TypeOK
    <2>2. thread' = [thread EXCEPT ![l] = Thread(l, p)]
      BY DEF Settle, Goto, Thread, TypeOK
    <2>3. QED
      BY <1>1, <1>2, <1>3, <2>1, <2>2, ThreadType DEF Moves
  <1>5. TypeOK' /\ Others(l) /\ index'[l] = e /\ thread'[l] = Thread(l, p)
    BY <1>1, <1>4, MoveEffect
  <1>6. EntryOK(l)' /\ PlaceOK(l)'
    BY <1>1, <1>3, <1>5 DEF LabelInv, EntryOK, PlaceOK, Thread, TypeOK, Threads
  <1>7. MachinesOK(l)'
    BY <1>1, <1>3, <1>5 DEF LabelInv, MachinesOK
  <1>8. QED
    BY <1>5, <1>6, <1>7 DEF LabelInv

-----------------------------------------------------------------------------
\* Numbers that are bounded have a greatest one.
LEMMA MaxOfBounded ==
  ASSUME NEW N \in Nat, NEW S, S \subseteq 0..N, S # {}
  PROVE  Max(S) \in S /\ \A x \in S : x <= Max(S)
  <1> DEFINE T == {N - x : x \in S}
  <1>1. T \subseteq Nat /\ T # {}
    <2>1. \A x \in S : N - x \in Nat
      OBVIOUS
    <2>2. PICK x \in S : TRUE
      OBVIOUS
    <2>3. N - x \in T
      OBVIOUS
    <2>4. QED
      BY <2>1, <2>3
  <1>2. PICK t \in T : \A u \in T : ~(<<u, t>> \in OpToRel(<, Nat))
    BY <1>1, WFMin, NatLessThanWellFounded
  <1>3. PICK x \in S : t = N - x
    OBVIOUS
  <1>4. \A y \in S : x >= y
    <2> SUFFICES ASSUME NEW y \in S PROVE x >= y
      OBVIOUS
    <2>1. N - y \in T /\ N - y \in Nat /\ t \in Nat
      BY <1>1
    <2>2. ~(N - y < t)
      BY <1>2, <2>1 DEF OpToRel
    <2>3. QED
      BY <1>3, <2>2
  <1>5. QED
    BY <1>4 DEF Max

RootsInv == \A r \in Roots : index[<<r, 0>>].status # "absent"

\* The attempt that is decided on has a label.
LEMMA NextAttemptType ==
  ASSUME NEW r \in Roots, index[<<r, 0>>].status # "absent"
  PROVE  NextAttempt(r) \in 0..MaxAttempts
  <1> DEFINE S == {l[2] : l \in Chain(r)}
  <1>1. MaxAttempts \in Nat
    BY FleetAssumption
  <1>2. S \subseteq 0..MaxAttempts
    BY DEF Chain, Present, Labels
  <1>3. <<r, 0>> \in Chain(r)
    BY <1>1 DEF Chain, Present, Labels
  <1>4. 0 \in S
    <2>1. <<r, 0>>[2] = 0
      OBVIOUS
    <2>2. QED
      BY <1>3, <2>1
  <1>5. Max(S) \in 0..MaxAttempts
    BY <1>1, <1>2, <1>4, MaxOfBounded
  <1>6. QED
    BY <1>1, <1>5 DEF NextAttempt

\* _schedule_rerun reads the index (fleet.py:1417-1466).
LEMMA DecideRerunStep ==
  ASSUME TypeOK, RootsInv, NEW l \in Labels, LabelInv(l), DecideRerun(l)
  PROVE  TypeOK' /\ Others(l) /\ LabelInv(l)'
  <1> DEFINE n == NextAttempt(l[1])
             p == IF n = 0 THEN "done" ELSE "append"
             t == [thread[l] EXCEPT !.pc = p, !.next = n]
  <1>1. n \in 0..MaxAttempts
    BY NextAttemptType DEF RootsInv, Labels
  <1>2. t \in Threads
    <2>1. p \in Places
      BY DEF Places
    <2>2. QED
      BY <1>1, <2>1 DEF TypeOK, Threads
  <1>3. Moves(l, index[l], t)
    BY <1>2, RunningIsPresent DEF DecideRerun, Moves, TypeOK
  <1>4. TypeOK' /\ Others(l) /\ index'[l] = index[l] /\ thread'[l] = t
    BY <1>3, MoveEffect DEF DecideRerun
  <1>5. thread'[l].pc \in {"done", "append"} /\ index[l].status \in RerunStatuses
    BY <1>4 DEF DecideRerun, LabelInv, PlaceOK, TypeOK, Threads
  <1>6. LabelInv(l)'
    BY <1>4, <1>5 DEF DecideRerun, LabelInv, EntryOK, MachinesOK, PlaceOK
  <1>7. QED
    BY <1>4, <1>6

\* An entry that is not there yet becomes a planned one; nothing else knows of it.
LEMMA AppendEffect ==
  ASSUME TypeOK, NEW k \in Labels, LabelInv(k), k \notin Present,
         index' = [index EXCEPT ![k] = Planned],
         UNCHANGED <<cloud, local, attempted, faults>>,
         main' \in [pc : MainPlaces, todo : SUBSET Labels, next : Labels \cup {<<>>}],
         thread' \in [Labels -> Threads], thread'[k] = thread[k]
  PROVE  /\ TypeOK' /\ LabelInv(k)'
         /\ \A j \in Labels \ {k} : index'[j] = index[j]
  <1>1. Planned \in Entries /\ Planned.status = "planned" /\ Planned.lease = NoMachine
    BY DEF Planned, NoEntry, Entries, Statuses, ExitCodes
  <1>2. /\ index' \in [Labels -> Entries] /\ index'[k] = Planned
        /\ \A j \in Labels \ {k} : index'[j] = index[j]
    BY <1>1 DEF TypeOK
  <1>3. attempted' \subseteq Present'
    BY <1>2 DEF TypeOK, Present
  <1>4. TypeOK'
    BY <1>2, <1>3 DEF TypeOK
  <1>5. /\ thread[k].pc = "idle" /\ local[k] = "none"
        /\ \A m \in Machines : cloud[k][m].state = "none"
    BY DEF Present, LabelInv, EntryOK, NoVm
  <1>6. EntryOK(k)' /\ PlaceOK(k)'
    BY <1>1, <1>2, <1>5 DEF EntryOK, PlaceOK, Archives
  <1>7. MachinesOK(k)'
    BY <1>2, <1>5 DEF MachinesOK
  <1>8. QED
    BY <1>2, <1>4, <1>6, <1>7 DEF LabelInv

\* _schedule_rerun appends an entry that was not there, or finds it there.
LEMMA AppendRerunStep ==
  ASSUME TypeOK, \A k \in Labels : LabelInv(k), NEW l \in Labels, AppendRerun(l)
  PROVE  TypeOK' /\ \A k \in Labels : LabelInv(k)'
  <1> DEFINE rerun == <<l[1], thread[l].next>>
  <1>1. /\ index[l].status \in RerunStatuses /\ index[l].status # "absent" /\ LabelInv(l)
        /\ UNCHANGED <<cloud, local, main, attempted, faults>> /\ faults' \in 0..MaxFaults
    BY DEF AppendRerun, LabelInv, PlaceOK, TypeOK
  <1>2. rerun \in Labels
    BY DEF Labels, TypeOK, Threads
  <1>3. ASSUME rerun \notin Present, index' = [index EXCEPT ![rerun] = Planned], Goto(l, "done")
        PROVE  TypeOK' /\ \A k \in Labels : LabelInv(k)'
    <2> PICK r \in Labels : r = rerun
      BY <1>2
    <2>1. r # l /\ LabelInv(r) /\ r \notin Present /\ index' = [index EXCEPT ![r] = Planned]
      BY <1>1, <1>3 DEF Present
    <2> HIDE DEF rerun
    <2>2. /\ thread' \in [Labels -> Threads] /\ thread'[l] = Thread(l, "done")
          /\ \A k \in Labels \ {l} : thread'[k] = thread[k]
      <3>1. thread' = [thread EXCEPT ![l] = Thread(l, "done")]
        BY <1>3 DEF Goto, Thread, TypeOK
      <3>2. Thread(l, "done") \in Threads
        BY ThreadType DEF Places
      <3>3. QED
        BY <3>1, <3>2 DEF TypeOK
    <2>3. main' \in [pc : MainPlaces, todo : SUBSET Labels, next : Labels \cup {<<>>}]
      BY <1>1 DEF TypeOK
    <2>4. TypeOK' /\ LabelInv(r)' /\ \A j \in Labels \ {r} : index'[j] = index[j]
      BY <1>1, <2>1, <2>2, <2>3, AppendEffect
    <2>5. index'[l] = index[l] /\ thread'[l].pc = "done"
      BY <2>1, <2>2, <2>4, ThreadType DEF Places
    <2>6. LabelInv(l)'
      BY <1>1, <2>5 DEF LabelInv, EntryOK, MachinesOK, PlaceOK
    <2>7. \A k \in Labels \ {l, r} : LabelInv(k)'
      BY <1>1, <2>2, <2>4, SameLabel DEF Same
    <2>8. QED
      BY <2>4, <2>6, <2>7
  <1>4. ASSUME index[l].status = "lease_lost", Goto(l, "raised"), UNCHANGED index
        PROVE  TypeOK' /\ \A k \in Labels : LabelInv(k)'
    <2>1. Moves(l, index[l], Thread(l, "raised"))
      BY <1>1, <1>4, GotoAlone DEF Places
    <2>2. TypeOK' /\ Others(l) /\ index'[l] = index[l] /\ thread'[l] = Thread(l, "raised")
      BY <1>1, <2>1, MoveEffect
    <2>3. thread'[l].pc = "raised"
      BY <2>2, ThreadType DEF Places
    <2>4. LabelInv(l)'
      BY <1>1, <1>4, <2>2, <2>3 DEF LabelInv, EntryOK, MachinesOK, PlaceOK
    <2>5. QED
      BY <2>2, <2>4, SameLabel DEF Others
  <1>5. ASSUME Fail(l)
        PROVE  TypeOK' /\ \A k \in Labels : LabelInv(k)'
    <2>1. TypeOK' /\ Others(l) /\ LabelInv(l)'
      BY <1>1, <1>5, FailKeeps
    <2>2. QED
      BY <2>1, SameLabel DEF Others
  <1>6. QED
    BY <1>3, <1>4, <1>5 DEF AppendRerun

-----------------------------------------------------------------------------
\* The thread of one label, unless it appends another, touches its own.
LEMMA ThreadStepMoves ==
  ASSUME TypeOK, RootsInv, NEW l \in Labels, LabelInv(l), ThreadStep(l), ~AppendRerun(l)
  PROVE  TypeOK' /\ Others(l) /\ LabelInv(l)'
  <1>1. CASE Start(l) \/ Reattach(l) \/ RequestLease(l) \/ FindMachine(l)
    BY <1>1, StartStep, ReattachStep, RequestLeaseStep, FindMachineStep
  <1>2. CASE WarmUp(l) \/ WarmUpFails(l) \/ BindLease(l) \/ Probe(l) \/ Hydrate(l)
    BY <1>2, WarmUpStep, WarmUpFailsStep, BindLeaseStep, ProbeStep, HydrateStep
  <1>3. CASE Dispatch(l) \/ DispatchDies(l) \/ Attach(l) \/ PullCheckpoint(l)
    BY <1>3, DispatchStep, DispatchDiesStep, AttachStep, PullCheckpointStep
  <1>4. CASE PullFinal(l) \/ GiveUp(l) \/ Export(l)
    BY <1>4, PullFinalStep, GiveUpStep, ExportStep
  <1>5. CASE Stop(l) \/ Settle(l) \/ DecideRerun(l)
    BY <1>5, StopStep, SettleStep, DecideRerunStep
  <1>6. QED
    BY <1>1, <1>2, <1>3, <1>4, <1>5 DEF ThreadStep

\* Whatever a thread does, all labels keep their invariant.
LEMMA ThreadStepKeeps ==
  ASSUME TypeOK, RootsInv, \A k \in Labels : LabelInv(k), NEW l \in Labels, ThreadStep(l)
  PROVE  TypeOK' /\ \A k \in Labels : LabelInv(k)'
  <1>1. CASE AppendRerun(l)
    BY <1>1, AppendRerunStep
  <1>2. CASE ~AppendRerun(l)
    BY <1>2, ThreadStepMoves, SameLabel DEF Others
  <1>3. QED
    BY <1>1, <1>2

-----------------------------------------------------------------------------
\* A machine's own steps start none and stop none.
LEMMA MachineEffect ==
  ASSUME TypeOK, NEW l \in Labels, NEW m \in Machines, LabelInv(l), Up(l, m), NEW v \in Vms,
         v.procs <= v.started, v.state \in {"up", "lost"}, cloud' = [cloud EXCEPT ![l][m] = v],
         UNCHANGED <<index, local, thread, main, attempted, faults>>
  PROVE  TypeOK' /\ Others(l) /\ LabelInv(l)'
  <1>1. SetsVm(l, m, v)
    BY DEF SetsVm
  <1>2. TypeOK' /\ Others(l)
    BY <1>1, VmEffect DEF TypeOK, Others, Same, Present
  <1>3. \A n \in Machines : cloud'[l][n] = IF n = m THEN v ELSE cloud[l][n]
    BY DEF TypeOK
  <1>4. \A n \in Machines : Up(l, n)' => Up(l, n)
    BY <1>3
  <1>5. \A n \in Machines : cloud'[l][n].state = "stopped" => cloud[l][n].state = "stopped"
    BY <1>3
  <1>6. index[l].status # "absent"
    BY DEF LabelInv, EntryOK, NoVm
  <1>7. EntryOK(l)' /\ PlaceOK(l)'
    BY <1>4, <1>6 DEF LabelInv, EntryOK, PlaceOK
  <1>8. MachinesOK(l)'
    BY <1>4, <1>5 DEF LabelInv, MachinesOK
  <1>9. QED
    BY <1>2, <1>7, <1>8 DEF LabelInv

\* One run fewer on a machine, or none, and what it left.
LEMMA VmAfterRun ==
  ASSUME NEW c \in Vms, c.procs <= c.started, c.procs > 0, c.state = "up",
         NEW d \in BOOLEAN, NEW a \in {"none"} \cup Archives
  PROVE  LET v == [c EXCEPT !.procs = @ - 1, !.done = d, !.archive = a] IN
         v \in Vms /\ v.procs <= v.started /\ v.state = "up"
  <1>1. c.procs - 1 \in Nat /\ c.procs - 1 <= c.started
    BY DEF Vms
  <1>2. QED
    BY <1>1 DEF Vms

\* A machine whose lease ended runs nothing.
LEMMA LostVm ==
  ASSUME NEW c \in Vms
  PROVE  LET v == [c EXCEPT !.state = "lost", !.procs = 0, !.done = FALSE] IN
         v \in Vms /\ v.procs <= v.started /\ v.state = "lost"
  <1> DEFINE v == [c EXCEPT !.state = "lost", !.procs = 0, !.done = FALSE]
  <1>1. v.state = "lost" /\ v.procs = 0 /\ v.started = c.started /\ c.started \in Nat
    BY DEF Vms
  <1>2. v \in Vms
    <2>1. {"none", "up", "lost", "stopped"} # {} /\ 0 \in Nat /\ FALSE \in BOOLEAN
      OBVIOUS
    <2>2. "lost" \in {"none", "up", "lost", "stopped"}
      OBVIOUS
    <2>3. QED
      BY <2>1, <2>2 DEF Vms
  <1>3. QED
    BY <1>1, <1>2

\* So do they when a run ends or dies on its machine, or a lease expires.
LEMMA MachineStepKeeps ==
  ASSUME TypeOK, NEW l \in Labels, NEW m \in Machines, LabelInv(l), MachineStep(l, m)
  PROVE  TypeOK' /\ Others(l) /\ LabelInv(l)'
  <1> DEFINE c == cloud[l][m]
             V(d, a) == [c EXCEPT !.procs = @ - 1, !.done = d, !.archive = a]
             lost == [c EXCEPT !.state = "lost", !.procs = 0, !.done = FALSE]
  <1>1. c \in Vms /\ c.procs <= c.started /\ Up(l, m)
    BY DEF TypeOK, MachineStep, RunEnds, RunAborts, RunIsKilled, LeaseExpires
  <1>2. UNCHANGED <<index, local, thread, main, attempted, faults>>
    BY DEF MachineStep, RunEnds, RunAborts, RunIsKilled, LeaseExpires
  <1>3. ASSUME c.procs > 0, NEW d \in BOOLEAN, NEW a \in {"none"} \cup Archives,
               cloud' = [cloud EXCEPT ![l][m] = V(d, a)]
        PROVE  TypeOK' /\ Others(l) /\ LabelInv(l)'
    <2>1. V(d, a) \in Vms /\ V(d, a).procs <= V(d, a).started /\ V(d, a).state = "up"
      BY <1>1, <1>3, VmAfterRun
    <2>2. QED
      BY <1>1, <1>2, <1>3, <2>1, MachineEffect
  <1>4. CASE RunEnds(l, m)
    <2>1. PICK a \in Archives :
            cloud' = [cloud EXCEPT ![l][m].procs = @ - 1, ![l][m].done = TRUE, ![l][m].archive = a]
      BY <1>4 DEF RunEnds
    <2>2. cloud' = [cloud EXCEPT ![l][m] = V(TRUE, a)]
      BY <1>1, <2>1 DEF TypeOK, Vms
    <2>3. QED
      BY <1>3, <1>4, <2>2 DEF RunEnds
  <1>5. CASE RunAborts(l, m)
    <2>1. c.archive \in {"none"} \cup Archives
      BY <1>1 DEF Vms
    <2>2. V(TRUE, c.archive) = [c EXCEPT !.procs = @ - 1, !.done = TRUE]
      BY <1>1 DEF Vms
    <2>3. cloud' = [cloud EXCEPT ![l][m] = V(TRUE, c.archive)]
      BY <1>1, <1>5, <2>2 DEF RunAborts, TypeOK
    <2>4. QED
      BY <1>3, <1>5, <2>1, <2>3 DEF RunAborts
  <1>6. CASE RunIsKilled(l, m)
    <2>1. /\ cloud' = [cloud EXCEPT ![l][m] = V(c.done, c.archive)]
          /\ c.archive \in {"none"} \cup Archives /\ c.done \in BOOLEAN
      BY <1>1, <1>6 DEF RunIsKilled, TypeOK, Vms
    <2>2. QED
      BY <1>3, <1>6, <2>1 DEF RunIsKilled
  <1>7. CASE LeaseExpires(l, m)
    <2>1. cloud' = [cloud EXCEPT ![l][m] = lost]
      BY <1>1, <1>7 DEF LeaseExpires, TypeOK, Vms
    <2>2. lost \in Vms /\ lost.procs <= lost.started /\ lost.state = "lost"
      BY <1>1, LostVm
    <2>3. QED
      BY <1>1, <1>2, <2>1, <2>2, MachineEffect
  <1>8. QED
    BY <1>4, <1>5, <1>6, <1>7 DEF MachineStep

-----------------------------------------------------------------------------
\* The steps of run(), with no thread, beside the threads, and over all of them.
MainType == [pc : MainPlaces, todo : SUBSET Labels, next : Labels \cup {<<>>}]

\* Steps that touch the main thread alone.
LEMMA MainAlone ==
  ASSUME TypeOK, \A k \in Labels : LabelInv(k), main' \in MainType, attempted' \subseteq Present',
         UNCHANGED <<index, cloud, local, thread>>, faults' \in 0..MaxFaults
  PROVE  TypeOK' /\ \A k \in Labels : LabelInv(k)'
  <1>1. TypeOK'
    BY DEF TypeOK, MainType
  <1>2. \A k \in Labels : LabelInv(k)'
    BY SameLabel DEF Same
  <1>3. QED
    BY <1>1, <1>2

\* What the main thread's variables hold, from the types.
LEMMA MainFields ==
  ASSUME TypeOK
  PROVE  main \in MainType /\ attempted \subseteq Present /\ faults \in 0..MaxFaults
  BY DEF TypeOK, MainType

\* A run a controller left is taken up, by what the index has of its machine and its results.
LEMMA ResumeEntryStep ==
  ASSUME TypeOK, MainInv, \A k \in Labels : LabelInv(k), NEW l \in Labels, ResumeEntry(l)
  PROVE  TypeOK' /\ \A k \in Labels : LabelInv(k)'
  <1> DEFINE s == IF index[l].lease # NoMachine
                  THEN IF Verified(l) THEN "exported" ELSE "running"
                  ELSE IF index[l].slug THEN "planned" ELSE "failed"
  <1>1. /\ UNCHANGED <<cloud, local, thread, main, attempted, faults>> /\ faults' \in 0..MaxFaults
        /\ index[l].status = "recovery_required" /\ thread[l].pc = "idle" /\ LabelInv(l)
    BY DEF ResumeEntry, MainInv, InFlight, TypeOK
  <1>2. s \in Statuses /\ s # "absent"
    BY DEF Statuses
  <1>3. index' = [index EXCEPT ![l] = Entry(l, s)]
    BY DEF ResumeEntry, Note, Entry, TypeOK
  <1>4. Entry(l, s) \in Entries /\ Entry(l, s).status = s
    BY <1>2, EntryType
  <1>5. thread' = [thread EXCEPT ![l] = thread[l]] /\ thread[l] \in Threads
    BY <1>1 DEF TypeOK
  <1>6. Moves(l, Entry(l, s), thread[l])
    BY <1>1, <1>2, <1>3, <1>4, <1>5 DEF Moves
  <1>7. TypeOK' /\ Others(l) /\ index'[l] = Entry(l, s) /\ thread'[l] = thread[l]
    BY <1>1, <1>6, MoveEffect
  <1>8. /\ index'[l].status = s /\ index'[l].lease = index[l].lease
        /\ index'[l].slug = index[l].slug
    BY <1>4, <1>7 DEF Entry, TypeOK, Entries
  <1>9. EntryOK(l)' /\ PlaceOK(l)'
    BY <1>1, <1>8 DEF LabelInv, EntryOK, PlaceOK
  <1>10. MachinesOK(l)'
    BY <1>1, <1>8 DEF LabelInv, MachinesOK
  <1>11. QED
    BY <1>7, <1>9, <1>10, SameLabel DEF Others, LabelInv

\* The entries the main thread looks at are labels.
LEMMA ReruneesAreLabels ==
  ASSUME LookForReruns
  PROVE  main' \in MainType /\ main'.pc = "reruns"
  BY DEF LookForReruns, MainType, MainPlaces

\* _schedule_existing_reruns reads the index in the main thread.
LEMMA DecideExistingStep ==
  ASSUME TypeOK, RootsInv, \A k \in Labels : LabelInv(k), NEW l \in Labels, DecideExisting(l)
  PROVE  TypeOK' /\ \A k \in Labels : LabelInv(k)'
  <1> DEFINE n == NextAttempt(l[1])
             next == IF n = 0 THEN <<>> ELSE <<l[1], n>>
             pc == IF n = 0 THEN "reruns" ELSE "append"
  <1>1. l[1] \in Roots /\ n \in 0..MaxAttempts
    BY NextAttemptType DEF RootsInv, Labels
  <1>2. next \in Labels \cup {<<>>}
    BY <1>1 DEF Labels
  <1>3. pc \in MainPlaces /\ main.todo \ {l} \subseteq Labels
    BY DEF MainPlaces, TypeOK
  <1>4. main' = [pc |-> pc, todo |-> main.todo \ {l}, next |-> next]
    BY DEF DecideExisting
  <1> HIDE DEF n, next, pc
  <1>5. main' \in MainType
    BY <1>2, <1>3, <1>4 DEF MainType
  <1>6. QED
    BY <1>5, MainFields, MainAlone DEF DecideExisting, Present

\* And appends to it.
LEMMA AppendExistingStep ==
  ASSUME TypeOK, \A k \in Labels : LabelInv(k), main.pc = "append" => main.next \in Labels,
         AppendExisting
  PROVE  TypeOK' /\ \A k \in Labels : LabelInv(k)'
  <1>1. main.next \in Labels
    BY DEF AppendExisting
  <1>2. CASE main.next \notin Present
    <2> PICK r \in Labels : r = main.next
      BY <1>1
    <2>1. main' \in MainType
      BY <1>2 DEF AppendExisting, TypeOK, MainType, MainPlaces
    <2>2. /\ r \notin Present /\ index' = [index EXCEPT ![r] = Planned]
          /\ UNCHANGED <<cloud, local, thread, attempted, faults>>
      BY <1>2 DEF AppendExisting
    <2>3. TypeOK' /\ LabelInv(r)' /\ \A j \in Labels \ {r} : index'[j] = index[j]
      BY <2>1, <2>2, AppendEffect DEF MainType, TypeOK
    <2>4. QED
      BY <2>2, <2>3, SameLabel DEF Same
  <1>3. CASE main.next \in Present
    <2>1. main' \in MainType
      BY <1>3 DEF AppendExisting, Down, MainType, MainPlaces
    <2>2. QED
      BY <1>3, <2>1, MainFields, MainAlone DEF AppendExisting, Present
  <1>4. QED
    BY <1>2, <1>3

\* A label gets a thread only when it has none and can be resumed (fleet.py:1114-1166).
LEMMA SubmitStep ==
  ASSUME TypeOK, \A k \in Labels : LabelInv(k), NEW l \in Labels, Submit(l)
  PROVE  TypeOK' /\ \A k \in Labels : LabelInv(k)'
  <1> DEFINE t == [Idle EXCEPT !.pc = "start"]
  <1>1. /\ l \in Present /\ index[l].status \in ResumableStatuses /\ LabelInv(l)
        /\ UNCHANGED <<index, cloud, local, main, faults>>
    BY DEF Submit, Schedulable, Adopted, Candidates, Pending, WithStatus
  <1>2. t \in Threads /\ t.pc = "start"
    <2>1. 0 \in 0..MaxAttempts
      BY FleetAssumption
    <2>2. QED
      BY <2>1 DEF Idle, Threads, Places, ExitCodes
  <1>3. /\ thread' \in [Labels -> Threads] /\ thread'[l] = t
        /\ \A k \in Labels \ {l} : thread'[k] = thread[k]
    BY <1>2 DEF Submit, TypeOK
  <1>4. TypeOK'
    BY <1>1, <1>3 DEF TypeOK, Submit, Present
  <1>5. LabelInv(l)'
    BY <1>1, <1>2, <1>3 DEF Present, LabelInv, EntryOK, MachinesOK, PlaceOK
  <1>6. QED
    BY <1>1, <1>3, <1>4, <1>5, SameLabel DEF Same

\* No thread is a thread.
LEMMA IdleType ==
  Idle \in Threads /\ Idle.pc = "idle" /\ Down \in MainType
  <1>1. 0 \in 0..MaxAttempts
    BY FleetAssumption
  <1>2. QED
    BY <1>1 DEF Idle, Threads, Places, ExitCodes, Down, MainType, MainPlaces

\* A thread that is gone leaves its label as the index has it.
LEMMA GoneThread ==
  ASSUME NEW k \in Labels, LabelInv(k), index'[k] = index[k], cloud'[k] = cloud[k],
         local'[k] = local[k], thread'[k].pc = "idle"
  PROVE  LabelInv(k)'
  BY DEF LabelInv, EntryOK, MachinesOK, PlaceOK

\* The main thread takes what the threads returned.
LEMMA CollectStep ==
  ASSUME TypeOK, \A k \in Labels : LabelInv(k), Collect
  PROVE  TypeOK' /\ \A k \in Labels : LabelInv(k)'
  <1>1. UNCHANGED <<cloud, local, attempted, faults>> /\ main' \in MainType
    BY ReruneesAreLabels DEF Collect
  <1>2. \A k \in Labels : thread'[k] = IF k \in Returned THEN Idle ELSE thread[k]
    BY DEF Collect
  <1>3. thread' \in [Labels -> Threads]
    BY IdleType DEF Collect, TypeOK
  <1>4. "recovery_required" \in Statuses
    BY DEF Statuses
  <1>5. \A k \in Labels : /\ thread[k].pc = "raised" => index'[k] = Entry(k, "recovery_required")
                          /\ thread[k].pc # "raised" => index'[k] = index[k]
    BY DEF Collect, Entry
  <1>6. index' \in [Labels -> Entries]
    <2>1. \A k \in Labels : index'[k] \in Entries
      BY <1>4, <1>5, EntryType DEF TypeOK
    <2>2. QED
      BY <2>1 DEF Collect
  <1>7. \A k \in Labels : index[k].status # "absent" => index'[k].status # "absent"
    BY <1>4, <1>5, EntryType
  <1>8. TypeOK'
    BY <1>1, <1>3, <1>6, <1>7 DEF TypeOK, MainType, Present
  <1>9. ASSUME NEW k \in Labels
        PROVE  LabelInv(k)'
    <2>1. CASE k \notin Returned
      BY <1>1, <1>2, <1>5, <2>1, SameLabel DEF Same, Returned
    <2>2. CASE thread[k].pc = "done"
      BY <1>1, <1>2, <1>5, <2>2, GoneThread, IdleType DEF Returned
    <2>3. CASE thread[k].pc = "raised"
      <3>1. thread'[k].pc = "idle" /\ index[k].status = "lease_lost"
        BY <1>2, <2>3, IdleType DEF Returned, LabelInv, PlaceOK
      <3>2. /\ index'[k].status = "recovery_required" /\ index'[k].slug = index[k].slug
            /\ index'[k].lease = index[k].lease
        BY <1>4, <1>5, <2>3, EntryType DEF Entry, TypeOK, Entries
      <3>3. EntryOK(k)' /\ PlaceOK(k)'
        BY <1>1, <3>1, <3>2 DEF LabelInv, EntryOK, PlaceOK
      <3>4. MachinesOK(k)'
        BY <1>1, <3>2 DEF LabelInv, MachinesOK
      <3>5. QED
        BY <3>3, <3>4 DEF LabelInv
    <2>4. QED
      BY <2>1, <2>2, <2>3 DEF Returned
  <1>10. QED
    BY <1>8, <1>9

\* The pool is left, or the controller dies: no thread is left.
LEMMA AllGone ==
  ASSUME TypeOK, \A k \in Labels : LabelInv(k), thread' = [l \in Labels |-> Idle], main' = Down,
         UNCHANGED <<index, cloud, local, attempted>>, faults' \in 0..MaxFaults
  PROVE  TypeOK' /\ InFlight' = {} /\ \A k \in Labels : LabelInv(k)'
  <1>1. thread' \in [Labels -> Threads] /\ \A k \in Labels : thread'[k].pc = "idle"
    BY IdleType
  <1>2. TypeOK'
    BY <1>1, IdleType DEF TypeOK, MainType, Present
  <1>3. \A k \in Labels : LabelInv(k)'
    BY <1>1, GoneThread
  <1>4. QED
    BY <1>1, <1>2, <1>3 DEF InFlight

-----------------------------------------------------------------------------
\* The whole invariant.
Inv == FleetInv /\ RootsInv /\ (main.pc = "append" => main.next \in Labels)

\* The plan as it is written: no machine, no thread, no result.
LEMMA InitInv ==
  Init => Inv
  <1> SUFFICES ASSUME Init PROVE Inv
    OBVIOUS
  <1>1. NoEntry \in Entries /\ Planned \in Entries /\ Planned.status = "planned"
    BY DEF NoEntry, Planned, Entries, Statuses, ExitCodes
  <1>2. NoVm \in Vms /\ NoVm.procs <= NoVm.started /\ NoVm.state = "none"
    BY DEF NoVm, Vms
  <1>3. TypeOK
    <2>1. index \in [Labels -> Entries] /\ cloud \in [Labels -> [Machines -> Vms]]
      BY <1>1, <1>2 DEF Init
    <2>2. \A l \in Labels, m \in Machines : cloud[l][m].procs <= cloud[l][m].started
      BY <1>2 DEF Init
    <2>3. /\ local \in [Labels -> {"none", "some"} \cup Archives] /\ thread \in [Labels -> Threads]
          /\ main \in MainType /\ attempted \subseteq Present /\ faults \in 0..MaxFaults
      BY IdleType, FleetAssumption DEF Init
    <2>4. QED
      BY <2>1, <2>2, <2>3 DEF TypeOK, MainType
  <1>4. ASSUME NEW l \in Labels
        PROVE  LabelInv(l)
    <2>1. /\ thread[l].pc = "idle" /\ local[l] = "none" /\ index[l] \in {NoEntry, Planned}
          /\ \A m \in Machines : cloud[l][m] = NoVm
      BY IdleType DEF Init
    <2>2. index[l].lease = NoMachine /\ Planned.status # "absent"
      BY <2>1 DEF NoEntry, Planned
    <2>3. QED
      BY <1>2, <2>1, <2>2 DEF LabelInv, EntryOK, MachinesOK, PlaceOK, Archives
  <1>5. MainInv /\ main.pc = "down"
    BY IdleType DEF Init, MainInv, InFlight, Down
  <1>6. RootsInv
    <2>1. \A r \in Roots : <<r, 0>> \in Labels /\ <<r, 0>>[2] = 0
      BY FleetAssumption DEF Labels
    <2>2. QED
      BY <1>1, <2>1 DEF Init, RootsInv
  <1>7. QED
    BY <1>3, <1>4, <1>5, <1>6 DEF Inv, FleetInv

\* The planned runs stay in the index, since no entry is ever removed.
LEMMA AbsentNeverAgain ==
  ASSUME RootsInv, \A k \in Labels : index[k].status # "absent" => index'[k].status # "absent"
  PROVE  RootsInv'
  <1>1. \A r \in Roots : <<r, 0>> \in Labels
    BY FleetAssumption DEF Labels
  <1>2. QED
    BY <1>1 DEF RootsInv

\* An entry of the index is never taken out.
LEMMA PresentStays ==
  ASSUME TypeOK, Next, NEW k \in Labels, index[k].status # "absent"
  PROVE  index'[k].status # "absent"
  <1>1. ASSUME NEW l \in Labels, NEW s \in Statuses \ {"absent"}, Note(l, s)
        PROVE  index'[k].status # "absent"
    BY <1>1 DEF Note, TypeOK, Entries
  <1>2. ASSUME NEW l \in Labels, Fail(l) \/ Recover(l) \/ LoseLease(l)
        PROVE  index'[k].status # "absent"
    BY <1>1, <1>2 DEF Fail, Recover, LoseLease, Statuses
  <1>3. ASSUME NEW l \in Labels, index' = [index EXCEPT ![l] = Planned]
        PROVE  index'[k].status # "absent"
    BY <1>3 DEF TypeOK, Planned, NoEntry
  <1>4. ASSUME NEW l \in Labels, Start(l) \/ Reattach(l) \/ RequestLease(l) \/ FindMachine(l)
        PROVE  index'[k].status # "absent"
    BY <1>1, <1>2, <1>4 DEF Start, Reattach, RequestLease, FindMachine, TypeOK, Entries, Statuses
  <1>5. ASSUME NEW l \in Labels, WarmUp(l) \/ WarmUpFails(l) \/ BindLease(l) \/ Probe(l) \/ Hydrate(l)
        PROVE  index'[k].status # "absent"
    <2>1. CASE WarmUp(l)
      BY <1>2, <2>1 DEF WarmUp
    <2>2. CASE WarmUpFails(l)
      BY <1>2, <2>2 DEF WarmUpFails
    <2>3. CASE BindLease(l)
      BY <1>2, <2>3 DEF BindLease, TypeOK, Entries
    <2>4. CASE Probe(l)
      BY <1>2, <2>4 DEF Probe
    <2>5. CASE Hydrate(l)
      <3>1. CASE index' = [index EXCEPT ![l].status = "ready", ![l].boot = thread[l].vm]
        <4>1. index'[k] = IF k = l THEN [index[l] EXCEPT !.status = "ready", !.boot = thread[l].vm]
                          ELSE index[k]
          BY <3>1 DEF TypeOK
        <4>2. index[l] \in Entries
          BY DEF TypeOK
        <4>3. QED
          BY <4>1, <4>2 DEF Entries
      <3>2. QED
        BY <1>2, <2>5, <3>1 DEF Hydrate
    <2>6. QED
      BY <1>5, <2>1, <2>2, <2>3, <2>4, <2>5
  <1>6. ASSUME NEW l \in Labels, Dispatch(l) \/ DispatchDies(l) \/ Attach(l) \/ PullCheckpoint(l)
        PROVE  index'[k].status # "absent"
    BY <1>1, <1>2, <1>6 DEF Dispatch, DispatchDies, Attach, PullCheckpoint, Statuses
  <1>7. ASSUME NEW l \in Labels, PullFinal(l) \/ GiveUp(l) \/ Export(l)
        PROVE  index'[k].status # "absent"
    BY <1>2, <1>7 DEF PullFinal, GiveUp, Export, TypeOK, Entries
  <1>8. ASSUME NEW l \in Labels, Stop(l) \/ Settle(l) \/ DecideRerun(l)
        PROVE  index'[k].status # "absent"
    <2>1. CASE Stop(l)
      <3>1. CASE CannotFinish(l)
        BY <1>2, <2>1, <3>1 DEF Stop
      <3>2. CASE ~CannotFinish(l)
        <4>1. \/ index' = index
              \/ index' = [index EXCEPT ![l].status = "stop_pending", ![l].exit = ExitOf(l)]
          BY <2>1, <3>2 DEF Stop
        <4>2. ASSUME index' = [index EXCEPT ![l].status = "stop_pending", ![l].exit = ExitOf(l)]
              PROVE  index'[k].status # "absent"
          <5>1. index'[k] = IF k = l
                            THEN [index[l] EXCEPT !.status = "stop_pending", !.exit = ExitOf(l)]
                            ELSE index[k]
            BY <4>2 DEF TypeOK
          <5>2. index[l] \in Entries
            BY DEF TypeOK
          <5>3. QED
            BY <5>1, <5>2 DEF Entries
        <4>3. QED
          BY <4>1, <4>2
      <3>3. QED
        BY <3>1, <3>2
    <2>2. CASE Settle(l)
      BY <2>2 DEF Settle, TypeOK, Entries
    <2>3. CASE DecideRerun(l)
      BY <2>3 DEF DecideRerun
    <2>4. QED
      BY <1>8, <2>1, <2>2, <2>3
  <1>9. ASSUME NEW l \in Labels, AppendRerun(l)
        PROVE  index'[k].status # "absent"
    <2>1. <<l[1], thread[l].next>> \in Labels
      BY DEF Labels, TypeOK, Threads
    <2>2. QED
      BY <1>2, <1>3, <1>9, <2>1 DEF AppendRerun
  <1>10. ASSUME NEW l \in Labels, ResumeEntry(l)
         PROVE  index'[k].status # "absent"
    BY <1>1, <1>10 DEF ResumeEntry, Statuses
  <1>11. CASE AppendExisting
    <2>1. CASE index' = [index EXCEPT ![main.next] = Planned]
      <3>1. Planned.status # "absent"
        BY DEF Planned, NoEntry
      <3>2. index'[k] = IF k = main.next THEN Planned ELSE index[k]
        BY <2>1 DEF TypeOK
      <3>3. QED
        BY <3>1, <3>2
    <2>2. QED
      BY <1>11, <2>1 DEF AppendExisting
  <1>12. CASE Collect
    BY <1>12 DEF Collect, TypeOK, Entries
  <1>13. CASE \/ StartController \/ ResumeDone \/ RerunsDone \/ FillDone \/ LeavePool \/ Crash
              \/ \E l \in Labels : DecideExisting(l) \/ Submit(l)
              \/ \E l \in Labels, m \in Machines : MachineStep(l, m)
    <2>1. CASE StartController \/ ResumeDone \/ RerunsDone \/ FillDone \/ LeavePool \/ Crash
      BY <2>1 DEF StartController, ResumeDone, RerunsDone, FillDone, LeavePool, Crash
    <2>2. CASE \E l \in Labels : DecideExisting(l) \/ Submit(l)
      BY <2>2 DEF DecideExisting, Submit
    <2>3. CASE \E l \in Labels, m \in Machines : MachineStep(l, m)
      BY <2>3 DEF MachineStep, RunEnds, RunAborts, RunIsKilled, LeaseExpires
    <2>4. QED
      BY <1>13, <2>1, <2>2, <2>3
  <1>14. QED
    <2>1. CASE \E l \in Labels : ThreadStep(l)
      BY <1>4, <1>5, <1>6, <1>7, <1>8, <1>9, <2>1 DEF ThreadStep
    <2>2. CASE ~ \E l \in Labels : ThreadStep(l)
      BY <1>10, <1>11, <1>12, <1>13, <2>2 DEF Next, MainStep
    <2>3. QED
      BY <2>1, <2>2

\* Only a label in flight takes a step of a thread, which leaves the main thread alone.
LEMMA ThreadRuns ==
  ASSUME NEW l \in Labels, ThreadStep(l)
  PROVE  thread[l].pc # "idle" /\ main' = main /\ attempted' = attempted
  <1>1. CASE Start(l) \/ Reattach(l) \/ RequestLease(l) \/ FindMachine(l) \/ WarmUp(l)
    BY <1>1 DEF Start, Reattach, RequestLease, FindMachine, WarmUp
  <1>2. CASE WarmUpFails(l) \/ BindLease(l) \/ Probe(l) \/ Hydrate(l) \/ Dispatch(l)
    BY <1>2 DEF WarmUpFails, BindLease, Probe, Hydrate, Dispatch
  <1>3. CASE DispatchDies(l) \/ Attach(l) \/ PullCheckpoint(l) \/ PullFinal(l) \/ GiveUp(l)
    BY <1>3 DEF DispatchDies, Attach, PullCheckpoint, PullFinal, GiveUp
  <1>4. CASE Export(l) \/ Stop(l) \/ Settle(l) \/ DecideRerun(l) \/ AppendRerun(l)
    BY <1>4 DEF Export, Stop, Settle, DecideRerun, AppendRerun
  <1>5. QED
    BY <1>1, <1>2, <1>3, <1>4 DEF ThreadStep

\* Every step of the fleet keeps the invariant.
LEMMA StepInv ==
  ASSUME Inv, Next
  PROVE  Inv'
  <1>1. /\ TypeOK /\ MainInv /\ \A k \in Labels : LabelInv(k)
        /\ RootsInv /\ (main.pc = "append" => main.next \in Labels)
    BY DEF Inv, FleetInv
  <1>2. RootsInv'
    BY <1>1, PresentStays, AbsentNeverAgain
  <1>3. CASE StartController
    <2>1. main' \in MainType /\ main'.pc = "resume" /\ main.pc = "down"
      BY <1>1, <1>3 DEF StartController, TypeOK, MainType, MainPlaces
    <2>2. TypeOK' /\ \A k \in Labels : LabelInv(k)'
      BY <1>1, <1>3, <2>1, MainFields, MainAlone DEF StartController
    <2>3. QED
      BY <1>1, <1>2, <1>3, <2>1, <2>2 DEF StartController, Inv, FleetInv, MainInv, InFlight
  <1>4. CASE \E l \in Labels : ThreadStep(l)
    <2>1. TypeOK' /\ \A k \in Labels : LabelInv(k)'
      BY <1>1, <1>4, ThreadStepKeeps
    <2>2. main' = main /\ InFlight # {}
      BY <1>4, ThreadRuns DEF InFlight
    <2>3. QED
      BY <1>1, <1>2, <2>1, <2>2 DEF Inv, FleetInv, MainInv
  <1>5. CASE \E l \in Labels, m \in Machines : MachineStep(l, m)
    <2>1. TypeOK' /\ \A k \in Labels : LabelInv(k)'
      BY <1>1, <1>5, MachineStepKeeps, SameLabel DEF Others
    <2>2. main' = main /\ thread' = thread
      BY <1>5 DEF MachineStep, RunEnds, RunAborts, RunIsKilled, LeaseExpires
    <2>3. QED
      BY <1>1, <1>2, <2>1, <2>2 DEF Inv, FleetInv, MainInv, InFlight
  <1>6. CASE \E l \in Labels : ResumeEntry(l)
    <2>1. TypeOK' /\ \A k \in Labels : LabelInv(k)'
      BY <1>1, <1>6, ResumeEntryStep
    <2>2. main' = main /\ thread' = thread
      BY <1>6 DEF ResumeEntry
    <2>3. QED
      BY <1>1, <1>2, <2>1, <2>2 DEF Inv, FleetInv, MainInv, InFlight
  <1>7. ASSUME NEW l \in Labels, DecideExisting(l)
        PROVE  Inv'
    <2>1. TypeOK' /\ \A k \in Labels : LabelInv(k)'
      BY <1>1, <1>7, DecideExistingStep
    <2>2. main'.pc \in {"reruns", "append"}
      BY <1>7 DEF DecideExisting
    <2>3. main'.pc = "append" => main'.next \in Labels
      <3>1. l[1] \in Roots /\ NextAttempt(l[1]) \in 0..MaxAttempts
        BY <1>1, NextAttemptType DEF RootsInv, Labels
      <3>2. <<l[1], NextAttempt(l[1])>> \in Labels
        BY <3>1 DEF Labels
      <3>3. main'.pc = "append" => main'.next = <<l[1], NextAttempt(l[1])>>
        BY <1>7 DEF DecideExisting
      <3>4. QED
        BY <3>2, <3>3
    <2>4. QED
      BY <1>2, <2>1, <2>2, <2>3 DEF Inv, FleetInv, MainInv
  <1>8. CASE AppendExisting
    <2>1. TypeOK' /\ \A k \in Labels : LabelInv(k)'
      BY <1>1, <1>8, AppendExistingStep
    <2>2. main'.pc \in {"reruns", "leave"}
      BY <1>1, <1>8 DEF AppendExisting, Down, TypeOK
    <2>3. QED
      BY <1>2, <2>1, <2>2 DEF Inv, FleetInv, MainInv
  <1>9. CASE \E l \in Labels : Submit(l)
    <2>1. TypeOK' /\ \A k \in Labels : LabelInv(k)'
      BY <1>1, <1>9, SubmitStep
    <2>2. main' = main /\ main.pc = "fill"
      BY <1>9 DEF Submit
    <2>3. QED
      BY <1>1, <1>2, <2>1, <2>2 DEF Inv, FleetInv, MainInv
  <1>10. CASE ResumeDone \/ RerunsDone \/ FillDone
    <2>1. main' \in MainType /\ main'.pc \in {"reruns", "fill", "leave", "wait"}
      BY <1>1, <1>10, ReruneesAreLabels DEF ResumeDone, RerunsDone, FillDone, TypeOK, MainType, MainPlaces
    <2>2. UNCHANGED <<index, cloud, local, thread, attempted, faults>>
      BY <1>10 DEF ResumeDone, RerunsDone, FillDone
    <2>3. TypeOK' /\ \A k \in Labels : LabelInv(k)'
      BY <1>1, <2>1, <2>2, MainFields, MainAlone DEF Present
    <2>4. QED
      BY <1>2, <2>1, <2>3 DEF Inv, FleetInv, MainInv
  <1>11. CASE Collect
    <2>1. TypeOK' /\ \A k \in Labels : LabelInv(k)'
      BY <1>1, <1>11, CollectStep
    <2>2. main'.pc = "reruns"
      BY <1>11, ReruneesAreLabels DEF Collect
    <2>3. QED
      BY <1>2, <2>1, <2>2 DEF Inv, FleetInv, MainInv
  <1>12. CASE LeavePool \/ Crash
    <2>1. faults' \in 0..MaxFaults
      BY <1>1, <1>12, FleetAssumption DEF LeavePool, Crash, TypeOK
    <2>2. TypeOK' /\ InFlight' = {} /\ (\A k \in Labels : LabelInv(k)') /\ main' = Down
      BY <1>1, <1>12, <2>1, AllGone DEF LeavePool, Crash
    <2>3. QED
      BY <1>2, <2>2 DEF Inv, FleetInv, MainInv, Down
  <1>13. QED
    BY <1>3, <1>4, <1>5, <1>6, <1>7, <1>8, <1>9, <1>10, <1>11, <1>12 DEF Next, MainStep

\* As does a step of none of these variables.
LEMMA StutterInv ==
  ASSUME Inv, UNCHANGED vars
  PROVE  Inv'
  <1>1. UNCHANGED <<index, cloud, local, thread, main, attempted, faults>>
    BY DEF vars
  <1>2. TypeOK' /\ RootsInv'
    BY <1>1 DEF Inv, FleetInv, TypeOK, RootsInv, Present
  <1>3. \A k \in Labels : LabelInv(k)'
    BY <1>1, SameLabel DEF Inv, FleetInv, Same
  <1>4. QED
    BY <1>1, <1>2, <1>3 DEF Inv, FleetInv, MainInv, InFlight

\* What the fleet keeps, for any plan and any faults: the index, the threads and the machines agree.
THEOREM Invariance == Spec => []Inv
  <1>1. Inv /\ [Next]_vars => Inv'
    BY StepInv, StutterInv
  <1>2. QED
    BY <1>1, InitInv, PTL DEF Spec

\* The variables hold what the code can put there (TypeOK).
THEOREM TypeCorrect == Spec => []TypeOK
  BY Invariance, PTL DEF Inv, FleetInv

\* No run ever has two machines, and the index knows the one it has, however late a warm-up fails and
\* wherever the controller dies (_ensure_lease, fleet.py:645-681).
THEOREM OneMachine == Spec => []OneMachinePerRun
  <1>1. Inv => OneMachinePerRun
    BY DEF Inv, FleetInv, LabelInv, MachinesOK, OneMachinePerRun
  <1>2. QED
    BY <1>1, Invariance, PTL

\* A run that its results settled has no machine left, although stops fail, take effect and fail, and
\* are cut short (_finish_exported, fleet.py:1279-1352).
THEOREM Released == Spec => []MachinesReleased
  <1>1. Inv => MachinesReleased
    BY DEF Inv, FleetInv, LabelInv, MachinesOK, MachinesReleased
  <1>2. QED
    BY <1>1, Invariance, PTL
=============================================================================
