------------------------- MODULE GatewayLanesProofs -------------------------
(***************************************************************************)
(* What the lanes of a job keep, for every list of tasks, every number of   *)
(* lanes, runs and jobs, and any faults.                                    *)
(*                                                                         *)
(* GatewaysStop and FreshGateway are not inductive. That an earlier job's   *)
(* gateway is gone rests on who may still start one: a lane that starts     *)
(* belongs to the job at hand, and a run of an earlier job that goes on was *)
(* left behind by one that raised (LaneOf). That a gateway is fresh rests   *)
(* on what last_task_id says of the runs it served (FreshOf), and on the    *)
(* data: the runs of a lane are runs of the job's tasks, which their ids    *)
(* name (ItemsType, TasksAssumption).                                       *)
(*                                                                         *)
(* That browser runs do not meet is not in the invariant at all: it rests   *)
(* on the plan, which has one lane for all browser tasks (PlanSerializes),  *)
(* and on a lane's runs being runs of that lane's tasks (ItemOfLane).       *)
(***************************************************************************)
EXTENDS GatewayLanes, AlgorithmProofs

\* The lane has not come to its runs yet.
Before == {"waiting", "staggered", "booting", "preflight"}

\* Only the lanes of the job at hand start, and what goes on of an earlier one was left behind.
LaneOf(a) ==
    /\ a[1] > job => lane[a] = "waiting"
    /\ a[1] < job => lane[a] \in {"done", "failed"}
    /\ lane[a] \in Before => step[a] = "none" /\ item[a] = 0 /\ last[a] = NoTask
    /\ step[a] # "none" => item[a] \in 1..NumberOfRuns(a[2]) /\ (lane[a] = "running" \/ a \in raised)

\* The gateway that lane a has, and the run it has come to.
FreshOf(a) ==
    LET used == gateway[a[2]].used IN
    /\ \A x, y \in used : x = y \/ (x[2].task = y[2].task /\ ~NeedsFreshGateway(x[2].task))
    /\ lane[a] \in Before \/ step[a] \in {"staggered", "booting"} => used = {}
    /\ step[a] = "staggered" => ~gateway[a[2]].alive
    /\ \A x \in used : x[2].task.id = last[a]
    /\ step[a] = "announcing" =>
          /\ last[a] = Item(a).task.id
          /\ \A x \in used : x[2].task = Item(a).task /\ ~NeedsFreshGateway(x[2].task)

\* Both, for every actor, and for every lane without runs left behind.
LaneInv == \A a \in Actors : LaneOf(a)
FreshInv ==
    \A l \in Lanes : ~Haunted(job, l) =>
        IF job <= Jobs THEN FreshOf(<<job, l>>) ELSE gateway[l].used = {}

\* All of it.
Inv == TypeOK /\ LaneInv /\ GatewaysStop /\ FreshInv

-----------------------------------------------------------------------------
\* The runs of a sequence of tasks, in their order.
LEMMA RunsOfType ==
  ASSUME NEW tasks \in Seq(Range(Tasks))
  PROVE  RunsOf(tasks) \in Seq(AllRuns)
  <1>1. Len(tasks) \in Nat /\ Runs \in Nat \ {0} /\ Len(tasks) * Runs \in Nat
    BY JobsAssumption
  <1>2. ASSUME NEW n \in 1..(Len(tasks) * Runs)
        PROVE  [task |-> tasks[((n - 1) \div Runs) + 1], run |-> (n - 1) % Runs] \in AllRuns
    <2> DEFINE q == (n - 1) \div Runs
    <2>1. n - 1 \in Nat /\ n - 1 < Len(tasks) * Runs
      BY <1>1
    <2>2. q \in Nat /\ q * Runs <= n - 1 /\ (n - 1) % Runs \in 0..(Runs - 1)
      BY <2>1, <1>1
    <2>3. q < Len(tasks)
      <3> HIDE DEF q
      <3>1. SUFFICES ASSUME q >= Len(tasks) PROVE FALSE
        BY <1>1, <2>2
      <3>2. q * Runs >= Len(tasks) * Runs
        BY <3>1, <2>2, <1>1
      <3> QED BY <3>2, <2>1, <2>2, <1>1
    <2>4. q + 1 \in 1..Len(tasks)
      BY <2>2, <2>3, <1>1
    <2>5. tasks[q + 1] \in Range(Tasks)
      <3> HIDE DEF q
      <3> QED BY <2>4
    <2> QED BY <2>2, <2>5 DEF AllRuns
  <1> DEFINE e(n) == [task |-> tasks[((n - 1) \div Runs) + 1], run |-> (n - 1) % Runs]
             N == Len(tasks) * Runs
  <1>3. RunsOf(tasks) = [n \in 1..N |-> e(n)]
    BY DEF RunsOf
  <1>4. N \in Nat /\ \A n \in 1..N : e(n) \in AllRuns
    BY <1>1, <1>2
  <1> HIDE DEF e, N
  <1>5. [n \in 1..N |-> e(n)] \in Seq(AllRuns)
    BY <1>4
  <1> QED BY <1>3, <1>5

\* Every lane has a sequence of runs of the job's tasks.
LEMMA ItemsType == \A l \in Lanes : Items[l] \in Seq(AllRuns) /\ NumberOfRuns(l) \in Nat
  <1> SUFFICES ASSUME NEW l \in Lanes PROVE Items[l] \in Seq(AllRuns) /\ NumberOfRuns(l) \in Nat
    OBVIOUS
  <1>1. LoadedTasks(l) \in Seq(Range(Tasks))
    BY TasksAssumption, AmongType DEF LoadedTasks
  <1>2. \A kept : RunsOf(Among(LoadedTasks(l), kept)) \in Seq(AllRuns)
    BY <1>1, AmongType, RunsOfType
  <1>3. Items[l] = RunsOf(Among(LoadedTasks(l), BrowserTasks)) \o RunsOf(Among(LoadedTasks(l), Range(Tasks) \ BrowserTasks))
    BY DEF Items
  <1>4. Items[l] \in Seq(AllRuns)
    BY <1>2, <1>3
  <1> QED BY <1>4 DEF NumberOfRuns

\* The run at hand is a run of one of the job's tasks, which its id names.
LEMMA ItemFacts ==
  ASSUME Inv, NEW a \in Actors, step[a] # "none"
  PROVE  /\ a[1] <= job /\ a[1] \in 1..Jobs /\ a[2] \in Lanes /\ (a[1] < job => Haunted(job, a[2]))
         /\ Item(a) \in AllRuns /\ Item(a).task \in Range(Tasks) /\ Item(a).task.id # NoTask
         /\ item[a] \in 1..NumberOfRuns(a[2])
  <1>1. a[1] \in 1..Jobs /\ a[2] \in Lanes
    BY DEF Actors
  <1>2. /\ item[a] \in 1..NumberOfRuns(a[2]) /\ (lane[a] = "running" \/ a \in raised)
        /\ a[1] > job => lane[a] = "waiting" /\ step[a] = "none"
        /\ a[1] < job => lane[a] # "running"
    BY DEF Inv, LaneInv, LaneOf, Before
  <1>3. Item(a) \in AllRuns
    BY <1>1, <1>2, ItemsType DEF Item, NumberOfRuns
  <1>4. Item(a).task \in Range(Tasks)
    BY <1>3 DEF AllRuns
  <1>5. job \in Nat /\ a[1] \in Nat
    BY <1>1, JobsAssumption DEF Inv, TypeOK
  <1>6. a[1] <= job
    BY <1>2, <1>5
  <1> QED BY <1>1, <1>2, <1>3, <1>4, <1>6, TasksAssumption DEF Haunted

\* A step of one lane's actor: what it leaves for that lane is all there is to see to.
LEMMA ActorStep ==
  ASSUME Inv, NEW a \in Actors, job' = job, raised \subseteq raised', TypeOK',
         \A b \in Actors \ {a} :
            lane'[b] = lane[b] /\ item'[b] = item[b] /\ step'[b] = step[b] /\ last'[b] = last[b],
         \A l \in Lanes \ {a[2]} : gateway'[l] = gateway[l],
         a[1] = job \/ (a[1] < job /\ Haunted(job, a[2])),
         LaneOf(a)',
         gateway'[a[2]].alive => gateway'[a[2]].id[1] = job \/ Haunted(job, a[2]),
         a[1] = job /\ ~Haunted(job, a[2]) => FreshOf(a)'
  PROVE  Inv'
  <1>1. a = <<a[1], a[2]>> /\ a[1] \in 1..Jobs /\ a[2] \in Lanes
    BY DEF Actors
  <1>2. \A l : Haunted(job, l) => Haunted(job, l)'
    BY DEF Haunted
  <1>3. LaneInv'
    <2> SUFFICES ASSUME NEW b \in Actors, b # a PROVE LaneOf(b)'
      BY DEF LaneInv
    <2>1. LaneOf(b) /\ lane'[b] = lane[b] /\ item'[b] = item[b] /\ step'[b] = step[b] /\ last'[b] = last[b]
      BY DEF Inv, LaneInv
    <2> QED BY <2>1 DEF LaneOf, NumberOfRuns
  <1>4. GatewaysStop'
    BY <1>2 DEF GatewaysStop, Inv
  <1>5. FreshInv'
    <2> SUFFICES ASSUME NEW l \in Lanes, ~Haunted(job, l)'
                 PROVE  (IF job <= Jobs THEN FreshOf(<<job, l>>) ELSE gateway[l].used = {})'
      BY DEF FreshInv
    <2>1. ~Haunted(job, l)
      BY <1>2
    <2>2. CASE l = a[2]
      <3>1. a[1] = job /\ a = <<job, l>> /\ job <= Jobs
        BY <1>1, <2>1, <2>2
      <3>2. FreshOf(a)' /\ a = <<job', l>> /\ job' <= Jobs
        BY <2>1, <2>2, <3>1
      <3> QED BY <3>2
    <2>3. CASE l # a[2]
      <3>1. gateway'[l] = gateway[l]
        BY <2>3
      <3>2. CASE job <= Jobs
        <4>1. job \in Nat /\ job >= 1
          BY JobsAssumption DEF Inv, TypeOK
        <4>2. <<job, l>> \in Actors \ {a}
          BY <1>1, <2>3, <3>2, <4>1, JobsAssumption DEF Actors
        <4>3. FreshOf(<<job, l>>)
          BY <2>1, <3>2 DEF Inv, FreshInv
        <4> DEFINE b == <<job, l>>
        <4>4. lane'[b] = lane[b] /\ item'[b] = item[b] /\ step'[b] = step[b] /\ last'[b] = last[b]
              /\ b[2] = l
          BY <4>2
        <4> HIDE DEF b
        <4>5. FreshOf(b)'
          BY <3>1, <4>3, <4>4 DEF b, FreshOf, Item
        <4> QED BY <3>2, <4>5 DEF b
      <3>3. CASE ~(job <= Jobs)
        BY <2>1, <3>1, <3>3 DEF Inv, FreshInv
      <3> QED BY <3>2, <3>3
    <2> QED BY <2>2, <2>3
  <1> QED BY <1>3, <1>4, <1>5 DEF Inv

\* What is known of an actor and its lane's gateway before it takes a step.
LEMMA ActorFacts ==
  ASSUME Inv, NEW a \in Actors
  PROVE  /\ a[1] \in 1..Jobs /\ a[2] \in Lanes /\ a \in DOMAIN lane /\ a \in DOMAIN step
         /\ TypeOK /\ LaneOf(a) /\ job \in 1..(Jobs + 1) /\ Jobs \in Nat
         /\ gateway[a[2]] \in Processes /\ item[a] \in Nat /\ NumberOfRuns(a[2]) \in Nat
         /\ item[a] <= NumberOfRuns(a[2]) + 1
         /\ gateway[a[2]].alive => gateway[a[2]].id[1] = job \/ Haunted(job, a[2])
         /\ a[1] = job => FreshOf(a) \/ Haunted(job, a[2])
  <1>1. a = <<a[1], a[2]>> /\ a[1] \in 1..Jobs /\ a[2] \in Lanes
    BY DEF Actors
  <1>2. TypeOK /\ LaneOf(a) /\ GatewaysStop /\ FreshInv
    BY DEF Inv, LaneInv
  <1>3. NumberOfRuns(a[2]) \in Nat
    BY <1>1, ItemsType
  <1>4. a[1] = job => FreshOf(a) \/ Haunted(job, a[2])
    BY <1>1, <1>2, JobsAssumption DEF FreshInv
  <1>5. gateway[a[2]] \in Processes /\ item[a] \in Nat /\ item[a] <= NumberOfRuns(a[2]) + 1
        /\ a \in DOMAIN lane /\ a \in DOMAIN step
    BY <1>1, <1>2 DEF TypeOK, NumberOfRuns
  <1>6. gateway[a[2]].alive => gateway[a[2]].id[1] = job \/ Haunted(job, a[2])
    BY <1>1, <1>2 DEF GatewaysStop
  <1>7. job \in 1..(Jobs + 1) /\ Jobs \in Nat
    BY <1>2, JobsAssumption DEF TypeOK
  <1> QED BY <1>1, <1>2, <1>3, <1>4, <1>5, <1>6, <1>7

\* Faults are counted up to their bound.
LEMMA FaultFacts == ASSUME TypeOK, Fine \/ Fault PROVE faults' \in 0..MaxFaults
  BY JobsAssumption DEF TypeOK, Fine, Fault

\* A process that was just started has talked to nobody, and no process is no live one.
LEMMA ProcessFacts ==
  ASSUME TypeOK, NEW a \in Actors
  PROVE  /\ Process(a) \in Processes /\ Process(a).id[1] = a[1] /\ Process(a).used = {}
         /\ NoProcess \in Processes /\ ~NoProcess.alive /\ NoProcess.used = {} /\ NoProcess.id \in ProcessIds
  <1>1. a[1] \in Nat /\ a[2] \in Lanes /\ item[a] \in Nat
    BY JobsAssumption DEF Actors, TypeOK
  <1>2. <<a[1], a[2], item[a]>> \in ProcessIds /\ <<0, 0, 0>> \in ProcessIds
    BY <1>1 DEF ProcessIds
  <1> QED BY <1>2 DEF Process, NoProcess, Processes

\* _ensure_parallel_gateway for a lane: it has no gateway that talked to anyone.
LEMMA LaneStartsStep ==
  ASSUME Inv, NEW a \in Actors, LaneStarts(a) PROVE Inv'
  <1>1. /\ lane[a] = "staggered" /\ LaneOf(a) /\ TypeOK /\ a[1] \in 1..Jobs /\ a[2] \in Lanes
        /\ UNCHANGED <<job, item, step, last, talking, cache, raised>>
    BY ActorFacts DEF LaneStarts
  <1>2. a[1] = job /\ step[a] = "none" /\ item[a] = 0 /\ last[a] = NoTask
    <2>1. job \in Nat /\ a[1] \in Nat
      BY <1>1 DEF TypeOK
    <2> QED BY <1>1, <2>1 DEF LaneOf, Before
  <1>3. /\ Process(a) \in Processes /\ Process(a).id[1] = job /\ Process(a).used = {}
        /\ gateway \in [Lanes -> Processes] /\ lane \in [Actors -> LaneStates]
    BY <1>1, <1>2, ProcessFacts DEF TypeOK
  <1>4. /\ lane' \in {[lane EXCEPT ![a] = s] : s \in {"preflight", "booting", "failed"}}
        /\ gateway' = gateway \/ gateway' = [gateway EXCEPT ![a[2]] = Process(a)]
        /\ faults' \in 0..MaxFaults
    BY <1>1, FaultFacts DEF LaneStarts, StartProcess
  <1>5. PICK s \in {"preflight", "booting", "failed"} : lane' = [lane EXCEPT ![a] = s]
    BY <1>4
  <1>6. lane' \in [Actors -> LaneStates] /\ lane'[a] = s /\ \A b \in Actors \ {a} : lane'[b] = lane[b]
    BY <1>3, <1>5 DEF LaneStates
  <1>7. /\ gateway' \in [Lanes -> Processes] /\ \A l \in Lanes \ {a[2]} : gateway'[l] = gateway[l]
        /\ gateway'[a[2]] = gateway[a[2]] \/ gateway'[a[2]] = Process(a)
    BY <1>1, <1>3, <1>4
  <1>8. TypeOK'
    BY <1>1, <1>4, <1>6, <1>7 DEF TypeOK, NumberOfRuns
  <1>9. LaneOf(a)'
    BY <1>1, <1>2, <1>6 DEF LaneOf
  <1>10. ~Haunted(job, a[2]) => FreshOf(a)'
    <2> SUFFICES ASSUME ~Haunted(job, a[2]) PROVE FreshOf(a)'
      OBVIOUS
    <2>1. FreshOf(a) /\ gateway[a[2]].used = {}
      <3>1. FreshOf(a)
        BY <1>2, ActorFacts
      <3> QED BY <3>1, <1>1 DEF FreshOf, Before
    <2>2. gateway'[a[2]].used = {}
      BY <1>3, <1>7, <2>1
    <2> QED BY <1>1, <1>2, <2>2 DEF FreshOf
  <1>11. gateway'[a[2]].alive => gateway'[a[2]].id[1] = job \/ Haunted(job, a[2])
    BY <1>3, <1>7, ActorFacts
  <1>12. job' = job /\ raised \subseteq raised'
    BY <1>1
  <1>13. \A b \in Actors \ {a} :
            lane'[b] = lane[b] /\ item'[b] = item[b] /\ step'[b] = step[b] /\ last'[b] = last[b]
    BY <1>1, <1>6
  <1> QED BY ONLY ActorStep, Inv, a \in Actors, <1>2, <1>7, <1>8, <1>9, <1>10, <1>11, <1>12, <1>13

\* The gateway of a lane comes up with nobody on it, or does not.
LEMMA LaneBootsStep ==
  ASSUME Inv, NEW a \in Actors, LaneBoots(a) PROVE Inv'
  <1>1. /\ lane[a] = "booting" /\ LaneOf(a) /\ TypeOK /\ a[1] \in 1..Jobs /\ a[2] \in Lanes
        /\ UNCHANGED <<job, item, step, last, gateway, talking, cache, raised>>
        /\ job \in Nat /\ a[1] \in Nat
    BY ActorFacts DEF LaneBoots, TypeOK
  <1>2. a[1] = job /\ step[a] = "none" /\ item[a] = 0 /\ last[a] = NoTask
    BY <1>1 DEF LaneOf, Before
  <1>3. faults' \in 0..MaxFaults
    BY <1>1, FaultFacts DEF LaneBoots, ComesUp, Fails
  <1>4. PICK s \in {"preflight", "failed"} : lane' = [lane EXCEPT ![a] = s]
    BY DEF LaneBoots
  <1>5. lane' \in [Actors -> LaneStates] /\ lane'[a] = s /\ \A b \in Actors \ {a} : lane'[b] = lane[b]
    BY <1>1, <1>4 DEF TypeOK, LaneStates
  <1>6. TypeOK'
    BY <1>1, <1>3, <1>5 DEF TypeOK
  <1>7. LaneOf(a)'
    BY <1>1, <1>2, <1>5 DEF LaneOf
  <1>8. ~Haunted(job, a[2]) => FreshOf(a)'
    <2> SUFFICES ASSUME ~Haunted(job, a[2]) PROVE FreshOf(a)'
      OBVIOUS
    <2>1. gateway[a[2]].used = {}
      <3>1. FreshOf(a)
        BY <1>2, ActorFacts
      <3> QED BY <3>1, <1>1 DEF FreshOf, Before
    <2> QED BY <1>1, <1>2, <2>1 DEF FreshOf
  <1>9. gateway'[a[2]].alive => gateway'[a[2]].id[1] = job \/ Haunted(job, a[2])
    BY <1>1, ActorFacts
  <1>10. /\ job' = job /\ raised \subseteq raised' /\ \A l \in Lanes \ {a[2]} : gateway'[l] = gateway[l]
         /\ \A b \in Actors \ {a} :
            lane'[b] = lane[b] /\ item'[b] = item[b] /\ step'[b] = step[b] /\ last'[b] = last[b]
    BY <1>1, <1>5
  <1> QED BY <1>2, <1>6, <1>7, <1>8, <1>9, <1>10, ActorStep

\* What the run at hand does before it goes on, with its lane where it is.
LEMMA GoesFacts ==
  ASSUME Inv, NEW a \in Actors, Goes(a), item[a] <= NumberOfRuns(a[2])
  PROVE  /\ item' \in [Actors -> Nat] /\ step' \in [Actors -> Steps]
         /\ \A b \in Actors : item'[b] <= NumberOfRuns(b[2]) + 1
         /\ item'[a] = item[a] + 1 /\ step'[a] \in {"preparing", "none"}
         /\ step'[a] # "none" => item'[a] \in 1..NumberOfRuns(a[2])
         /\ \A b \in Actors \ {a} : item'[b] = item[b] /\ step'[b] = step[b]
  <1>1. /\ item \in [Actors -> Nat] /\ step \in [Actors -> Steps] /\ NumberOfRuns(a[2]) \in Nat
        /\ \A b \in Actors : item[b] <= NumberOfRuns(b[2]) + 1
    BY ActorFacts DEF Inv, TypeOK, NumberOfRuns
  <1>2. /\ item' = [item EXCEPT ![a] = item[a] + 1]
        /\ step' = [step EXCEPT ![a] = IF item[a] < NumberOfRuns(a[2]) THEN "preparing" ELSE "none"]
    BY DEF Goes
  <1>3. item' \in [Actors -> Nat] /\ item'[a] = item[a] + 1 /\ \A b \in Actors \ {a} : item'[b] = item[b]
    BY <1>1, <1>2
  <1>4. /\ step'[a] = IF item[a] < NumberOfRuns(a[2]) THEN "preparing" ELSE "none"
        /\ step' \in [Actors -> Steps] /\ \A b \in Actors \ {a} : step'[b] = step[b]
    BY <1>1, <1>2 DEF Steps
  <1>5. item[a] \in Nat /\ (step'[a] # "none" => item[a] < NumberOfRuns(a[2]))
    BY <1>1, <1>4
  <1>6. \A b \in Actors : item'[b] <= NumberOfRuns(b[2]) + 1
    <2> SUFFICES ASSUME NEW b \in Actors PROVE item'[b] <= NumberOfRuns(b[2]) + 1
      OBVIOUS
    <2>1. CASE b = a
      BY <1>1, <1>3, <1>5, <2>1
    <2>2. CASE b # a
      BY <1>1, <1>3, <2>2
    <2> QED BY <2>1, <2>2
  <1>7. step'[a] # "none" => item'[a] \in 1..NumberOfRuns(a[2])
    BY <1>1, <1>3, <1>5
  <1> QED BY <1>3, <1>4, <1>6, <1>7

\* The browser check, after which the lane comes to its first run.
LEMMA PreflightStep ==
  ASSUME Inv, NEW a \in Actors, Preflight(a) PROVE Inv'
  <1>1. /\ lane[a] = "preflight" /\ LaneOf(a) /\ TypeOK /\ a[1] \in 1..Jobs /\ a[2] \in Lanes
        /\ UNCHANGED <<job, last, gateway, talking, cache, raised>>
        /\ job \in Nat /\ a[1] \in Nat /\ NumberOfRuns(a[2]) \in Nat
    BY ActorFacts DEF Preflight, TypeOK
  <1>2. a[1] = job /\ step[a] = "none" /\ item[a] = 0 /\ last[a] = NoTask
    BY <1>1 DEF LaneOf, Before
  <1>3. faults' \in 0..MaxFaults
    BY <1>1, FaultFacts DEF Preflight
  <1>4. PICK s \in {"running", "failed"} :
           /\ lane' = [lane EXCEPT ![a] = s]
           /\ IF s = "running" THEN Goes(a) ELSE item' = item /\ step' = step
    BY DEF Preflight
  <1>5. lane' \in [Actors -> LaneStates] /\ lane'[a] = s /\ \A b \in Actors \ {a} : lane'[b] = lane[b]
    BY <1>1, <1>4 DEF TypeOK, LaneStates
  <1>6. /\ item' \in [Actors -> Nat] /\ step' \in [Actors -> Steps]
        /\ \A b \in Actors : item'[b] <= NumberOfRuns(b[2]) + 1
        /\ \A b \in Actors \ {a} : item'[b] = item[b] /\ step'[b] = step[b]
        /\ step'[a] \in {"preparing", "none"}
        /\ step'[a] # "none" => s = "running" /\ item'[a] \in 1..NumberOfRuns(a[2])
    <2>1. CASE s = "running"
      <3>1. Goes(a) /\ item[a] <= NumberOfRuns(a[2])
        BY <1>1, <1>2, <1>4, <2>1
      <3> QED BY <3>1, <2>1, GoesFacts
    <2>2. CASE s # "running"
      BY <1>1, <1>2, <1>4, <2>2 DEF TypeOK, NumberOfRuns
    <2> QED BY <2>1, <2>2
  <1>7. TypeOK'
    BY <1>1, <1>3, <1>5, <1>6 DEF TypeOK, NumberOfRuns
  <1>8. LaneOf(a)'
    BY <1>1, <1>2, <1>5, <1>6 DEF LaneOf, Before, NumberOfRuns
  <1>9. ~Haunted(job, a[2]) => FreshOf(a)'
    <2> SUFFICES ASSUME ~Haunted(job, a[2]) PROVE FreshOf(a)'
      OBVIOUS
    <2>1. gateway[a[2]].used = {}
      <3>1. FreshOf(a)
        BY <1>2, ActorFacts
      <3> QED BY <3>1, <1>1 DEF FreshOf, Before
    <2> QED BY <1>1, <1>6, <2>1 DEF FreshOf
  <1>10. gateway'[a[2]].alive => gateway'[a[2]].id[1] = job \/ Haunted(job, a[2])
    BY <1>1, ActorFacts
  <1>11. /\ job' = job /\ raised \subseteq raised' /\ \A l \in Lanes \ {a[2]} : gateway'[l] = gateway[l]
         /\ \A b \in Actors \ {a} :
            lane'[b] = lane[b] /\ item'[b] = item[b] /\ step'[b] = step[b] /\ last'[b] = last[b]
    BY <1>1, <1>5, <1>6
  <1> QED BY <1>2, <1>7, <1>8, <1>9, <1>10, <1>11, ActorStep

\* harness.run returns, or raises with all of its runs behind it.
LEMMA LaneEndsStep ==
  ASSUME Inv, NEW a \in Actors, LaneEnds(a) PROVE Inv'
  <1>1. /\ lane[a] = "running" /\ LaneOf(a) /\ TypeOK /\ a[1] \in 1..Jobs /\ a[2] \in Lanes
        /\ UNCHANGED <<job, item, step, last, gateway, talking, cache, raised>>
        /\ job \in Nat /\ a[1] \in Nat /\ NumberOfRuns(a[2]) \in Nat
        /\ item[a] > NumberOfRuns(a[2]) /\ item[a] \in Nat
    BY ActorFacts DEF LaneEnds, TypeOK
  <1>2. a[1] = job /\ step[a] = "none"
    BY <1>1 DEF LaneOf, Before
  <1>3. faults' \in 0..MaxFaults
    BY <1>1, FaultFacts DEF LaneEnds
  <1>4. PICK s \in {"done", "failed"} : lane' = [lane EXCEPT ![a] = s]
    BY DEF LaneEnds
  <1>5. lane' \in [Actors -> LaneStates] /\ lane'[a] = s /\ \A b \in Actors \ {a} : lane'[b] = lane[b]
    BY <1>1, <1>4 DEF TypeOK, LaneStates
  <1>6. TypeOK'
    BY <1>1, <1>3, <1>5 DEF TypeOK
  <1>7. LaneOf(a)'
    BY <1>1, <1>2, <1>5 DEF LaneOf, Before
  <1>8. ~Haunted(job, a[2]) => FreshOf(a)'
    <2> SUFFICES ASSUME ~Haunted(job, a[2]) PROVE FreshOf(a)'
      OBVIOUS
    <2>1. FreshOf(a)
      BY <1>2, ActorFacts
    <2> QED BY <1>1, <1>2, <1>5, <2>1 DEF FreshOf, Before
  <1>9. gateway'[a[2]].alive => gateway'[a[2]].id[1] = job \/ Haunted(job, a[2])
    BY <1>1, ActorFacts
  <1>10. /\ job' = job /\ raised \subseteq raised' /\ \A l \in Lanes \ {a[2]} : gateway'[l] = gateway[l]
         /\ \A b \in Actors \ {a} :
            lane'[b] = lane[b] /\ item'[b] = item[b] /\ step'[b] = step[b] /\ last'[b] = last[b]
    BY <1>1, <1>5
  <1> QED BY <1>2, <1>6, <1>7, <1>8, <1>9, <1>10, ActorStep

\* What last_task_id may be.
LastIds == {NoTask} \cup {t.id : t \in Range(Tasks)}

\* A run goes on to another step and is the one its lane has come to as before.
LEMMA RunGoesOn ==
  ASSUME Inv, NEW a \in Actors, step[a] # "none", NEW s \in Steps \ {"none"}, step' = [step EXCEPT ![a] = s],
         UNCHANGED <<job, lane, item, raised, cache>>, faults' \in 0..MaxFaults,
         talking' \in [Actors -> ProcessIds], last' \in [Actors -> LastIds], gateway' \in [Lanes -> Processes],
         \A b \in Actors \ {a} : last'[b] = last[b],
         \A l \in Lanes \ {a[2]} : gateway'[l] = gateway[l],
         gateway'[a[2]].alive => gateway'[a[2]].id[1] = a[1] \/ (gateway[a[2]].alive /\ gateway'[a[2]].id = gateway[a[2]].id),
         a[1] = job /\ ~Haunted(job, a[2]) /\ FreshOf(a) => FreshOf(a)'
  PROVE  Inv'
  <1>1. a[1] = job \/ (a[1] < job /\ Haunted(job, a[2]))
    <2>1. a[1] <= job /\ a[1] \in 1..Jobs /\ (a[1] < job => Haunted(job, a[2]))
      BY ItemFacts
    <2>2. job \in Nat /\ a[1] \in Nat
      BY <2>1, ActorFacts
    <2> QED BY <2>1, <2>2
  <1>2. step' \in [Actors -> Steps] /\ step'[a] = s /\ \A b \in Actors \ {a} : step'[b] = step[b]
    BY ActorFacts DEF TypeOK
  <1>3. TypeOK'
    <2>1. TypeOK
      BY ActorFacts
    <2> QED BY <2>1, <1>2 DEF TypeOK, LastIds
  <1>4. LaneOf(a)'
    <2>1. LaneOf(a)
      BY ActorFacts
    <2> QED BY <2>1, <1>2 DEF LaneOf, NumberOfRuns
  <1>5. gateway'[a[2]].alive => gateway'[a[2]].id[1] = job \/ Haunted(job, a[2])
    BY <1>1, ActorFacts
  <1>6. a[1] = job /\ ~Haunted(job, a[2]) => FreshOf(a)'
    BY ActorFacts
  <1>7. a[1] = job \/ (a[1] < job /\ Haunted(job, a[2]))
    BY <1>1
  <1>8. /\ job' = job /\ raised \subseteq raised'
        /\ \A b \in Actors \ {a} :
            lane'[b] = lane[b] /\ item'[b] = item[b] /\ step'[b] = step[b] /\ last'[b] = last[b]
    BY <1>2
  <1> QED BY <1>3, <1>4, <1>5, <1>6, <1>7, <1>8, ActorStep

\* A run is over, in whatever way, and the next one is let in.
LEMMA RunIsOver ==
  ASSUME Inv, NEW a \in Actors, step[a] # "none", Goes(a),
         UNCHANGED <<job, last>>, cache' \subseteq AllRuns, faults' \in 0..MaxFaults,
         talking' \in [Actors -> ProcessIds], gateway' = gateway \/ StopGateway(a),
         (lane' = lane /\ raised' = raised) \/ Raises(a)
  PROVE  Inv'
  <1>1. TypeOK /\ LaneOf(a) /\ item[a] <= NumberOfRuns(a[2]) /\ a[2] \in Lanes
    BY ActorFacts, ItemFacts
  <1>2. a[1] = job \/ (a[1] < job /\ Haunted(job, a[2]))
    <2>1. a[1] <= job /\ a[1] \in 1..Jobs /\ (a[1] < job => Haunted(job, a[2]))
      BY ItemFacts
    <2>2. job \in Nat /\ a[1] \in Nat
      BY <2>1, ActorFacts
    <2> QED BY <2>1, <2>2
  <1>3. /\ item' \in [Actors -> Nat] /\ step' \in [Actors -> Steps]
        /\ \A b \in Actors : item'[b] <= NumberOfRuns(b[2]) + 1
        /\ step'[a] \in {"preparing", "none"}
        /\ step'[a] # "none" => item'[a] \in 1..NumberOfRuns(a[2])
        /\ \A b \in Actors \ {a} : item'[b] = item[b] /\ step'[b] = step[b]
    BY <1>1, GoesFacts
  <1>4. /\ lane' \in [Actors -> LaneStates] /\ raised' \subseteq Actors /\ raised \subseteq raised'
        /\ \A b \in Actors \ {a} : lane'[b] = lane[b]
        /\ lane'[a] = lane[a] \/ (lane[a] = "running" /\ lane'[a] = "failed")
        /\ lane'[a] # "running" /\ lane[a] = "running" => a \in raised'
    <2>1. CASE lane' = lane /\ raised' = raised
      BY <1>1, <2>1 DEF TypeOK
    <2>2. CASE Raises(a)
      <3>1. /\ lane' = [lane EXCEPT ![a] = IF lane[a] = "running" THEN "failed" ELSE lane[a]]
            /\ raised' = raised \cup {a} /\ lane \in [Actors -> LaneStates]
        BY <1>1, <2>2 DEF Raises, TypeOK
      <3>2. lane[a] \in LaneStates /\ "failed" \in LaneStates
        BY <3>1 DEF LaneStates
      <3>3. /\ lane' \in [Actors -> LaneStates] /\ \A b \in Actors \ {a} : lane'[b] = lane[b]
            /\ lane'[a] = IF lane[a] = "running" THEN "failed" ELSE lane[a]
        BY <3>1, <3>2
      <3> QED BY <1>1, <3>1, <3>3 DEF TypeOK
    <2> QED BY <2>1, <2>2
  <1>11. /\ gateway' \in [Lanes -> Processes]
         /\ \A l \in Lanes \ {a[2]} : gateway'[l] = gateway[l]
         /\ gateway'[a[2]] = gateway[a[2]] \/ (gateway'[a[2]].used = {} /\ ~gateway'[a[2]].alive)
    <2>1. gateway \in [Lanes -> Processes]
      BY <1>1 DEF TypeOK
    <2>2. NoProcess \in Processes /\ NoProcess.used = {} /\ ~NoProcess.alive
      BY <1>1, ProcessFacts
    <2>3. CASE gateway' = gateway
      BY <1>1, <2>1, <2>3
    <2>4. CASE StopGateway(a)
      <3>1. gateway' = [gateway EXCEPT ![a[2]] = NoProcess]
        BY <2>4 DEF StopGateway
      <3> QED BY <1>1, <2>1, <2>2, <3>1
    <2> QED BY <2>3, <2>4
  <1>12. UNCHANGED <<job, last>>
    OBVIOUS
  <1>5. TypeOK'
    BY <1>1, <1>3, <1>4, <1>11, <1>12 DEF TypeOK, NumberOfRuns
  <1>6. lane[a] \notin Before
    BY <1>1 DEF LaneOf
  <1>7. LaneOf(a)'
    <2>1. /\ (a[1] > job => lane[a] = "waiting") /\ (a[1] < job => lane[a] \in {"done", "failed"})
          /\ lane[a] = "running" \/ a \in raised
      BY <1>1 DEF LaneOf
    <2>2. lane'[a] \notin Before
      BY <1>4, <1>6 DEF Before
    <2>3. a[1] > job => lane'[a] = "waiting"
      BY <2>1, <1>6 DEF Before
    <2>4. a[1] < job => lane'[a] \in {"done", "failed"}
      BY <2>1, <1>4
    <2>5. lane'[a] = "running" \/ a \in raised'
      BY <2>1, <1>4
    <2> QED BY <1>3, <2>2, <2>3, <2>4, <2>5 DEF LaneOf, NumberOfRuns
  <1>8. a[1] = job /\ ~Haunted(job, a[2]) => FreshOf(a)'
    <2> SUFFICES ASSUME a[1] = job, ~Haunted(job, a[2]) PROVE FreshOf(a)'
      OBVIOUS
    <2>1. FreshOf(a)
      BY ActorFacts
    <2>2. lane'[a] \notin Before
      BY <1>4, <1>6 DEF Before
    <2>3. /\ last'[a] = last[a]
          /\ gateway'[a[2]] = gateway[a[2]] \/ (gateway'[a[2]].used = {} /\ ~gateway'[a[2]].alive)
      BY <1>11
    <2>4. step'[a] \notin {"staggered", "booting", "announcing"}
      BY <1>3
    <2> QED BY <2>1, <2>2, <2>3, <2>4 DEF FreshOf
  <1>9. gateway'[a[2]].alive => gateway'[a[2]].id[1] = job \/ Haunted(job, a[2])
    BY <1>11, ActorFacts
  <1>10. /\ job' = job /\ \A l \in Lanes \ {a[2]} : gateway'[l] = gateway[l]
         /\ \A b \in Actors \ {a} :
            lane'[b] = lane[b] /\ item'[b] = item[b] /\ step'[b] = step[b] /\ last'[b] = last[b]
    BY <1>3, <1>4, <1>11, <1>12
  <1> QED BY <1>2, <1>4, <1>5, <1>7, <1>8, <1>9, <1>10, ActorStep

\* What RunGoesOn asks of the variables that a step leaves alone.
LEMMA TypeFacts ==
  ASSUME Inv
  PROVE  /\ talking \in [Actors -> ProcessIds] /\ last \in [Actors -> LastIds]
         /\ gateway \in [Lanes -> Processes] /\ cache \subseteq AllRuns
  BY DEF Inv, TypeOK, LastIds

\* The run's task becomes last_task_id, and nobody else's.
LEMMA PreparedFacts ==
  ASSUME Inv, NEW a \in Actors, step[a] # "none", Prepared(a)
  PROVE  /\ step' = [step EXCEPT ![a] = "announcing"] /\ last' \in [Actors -> LastIds]
         /\ last'[a] = Item(a).task.id /\ \A b \in Actors \ {a} : last'[b] = last[b]
  <1>1. last \in [Actors -> LastIds] /\ Item(a).task.id \in LastIds
    BY ItemFacts, TypeFacts DEF LastIds
  <1>2. last' = [last EXCEPT ![a] = Item(a).task.id] /\ step' = [step EXCEPT ![a] = "announcing"]
    BY DEF Prepared
  <1> QED BY <1>1, <1>2

\* prepare_run: the gateway stays only for one more run of a task that does not ask for its own.
LEMMA PrepareStep ==
  ASSUME Inv, NEW a \in Actors, Prepare(a) PROVE Inv'
  <1>1. /\ step[a] = "preparing" /\ TypeOK /\ a[1] \in 1..Jobs /\ a[2] \in Lanes
        /\ UNCHANGED <<job, talking, cache>> /\ faults' \in 0..MaxFaults
    BY ActorFacts, FaultFacts DEF Prepare
  <1>2. CASE Raises(a) /\ UNCHANGED last /\ (UNCHANGED gateway \/ StopGateway(a))
    <2>1. Goes(a)
      BY <1>2 DEF Raises
    <2> QED BY <1>1, <1>2, <2>1, TypeFacts, RunIsOver
  <1>3. CASE ~RestartDue(a) /\ Prepared(a) /\ UNCHANGED <<lane, item, raised, gateway>>
    <2>1. /\ step' = [step EXCEPT ![a] = "announcing"] /\ last' \in [Actors -> LastIds]
          /\ last'[a] = Item(a).task.id /\ \A b \in Actors \ {a} : last'[b] = last[b]
      BY <1>1, <1>3, PreparedFacts
    <2>2. FreshOf(a) => FreshOf(a)'
      <3> SUFFICES ASSUME FreshOf(a) PROVE FreshOf(a)'
        OBVIOUS
      <3>1. gateway'[a[2]] = gateway[a[2]] /\ lane'[a] = lane[a] /\ Item(a)' = Item(a)
        BY <1>3 DEF Item
      <3>2. step'[a] = "announcing"
        BY <1>1, <2>1 DEF TypeOK
      <3>3. lane'[a] \notin Before
        BY <1>1, <3>1, ActorFacts DEF LaneOf
      <3>4. ASSUME NEW x \in gateway[a[2]].used
            PROVE  x[2].task = Item(a).task /\ ~NeedsFreshGateway(x[2].task)
        <4>1. x[2] \in AllRuns
          BY <1>1 DEF TypeOK, Processes
        <4>2. x[2].task \in Range(Tasks) /\ x[2].task.id = last[a]
          BY <3>4, <4>1 DEF AllRuns, FreshOf
        <4>3. last[a] # NoTask
          BY <4>2, TasksAssumption
        <4>4. Item(a).task.id = last[a] /\ ~NeedsFreshGateway(Item(a).task)
          BY <1>3, <4>3 DEF RestartDue, ShouldRestart
        <4>5. Item(a).task \in Range(Tasks)
          BY <1>1, ItemFacts
        <4>6. x[2].task = Item(a).task
          BY <4>2, <4>4, <4>5, TasksAssumption
        <4> QED BY <4>4, <4>6
      <3> QED BY <2>1, <3>1, <3>2, <3>3, <3>4 DEF FreshOf
    <2> QED BY <1>1, <1>3, <2>1, <2>2, TypeFacts, RunGoesOn DEF Steps
  <1>4. CASE /\ RestartDue(a) /\ UNCHANGED <<last, lane, item, raised>>
             /\ \/ StartProcess(a) /\ step' = [step EXCEPT ![a] = "booting"]
                \/ StopGateway(a) /\ step' = [step EXCEPT ![a] = "staggered"]
    <2>1. PICK s \in {"booting", "staggered"}, p \in {Process(a), NoProcess} :
             /\ step' = [step EXCEPT ![a] = s] /\ gateway' = [gateway EXCEPT ![a[2]] = p]
             /\ s = "staggered" => p = NoProcess
      BY <1>4 DEF StartProcess, StopGateway
    <2>2. /\ p \in Processes /\ p.used = {} /\ (p.alive => p.id[1] = a[1])
          /\ p = NoProcess => ~p.alive
      BY <1>1, ProcessFacts
    <2>3. gateway' \in [Lanes -> Processes] /\ gateway'[a[2]] = p /\ \A l \in Lanes \ {a[2]} : gateway'[l] = gateway[l]
      BY <1>1, <2>1, <2>2, TypeFacts
    <2>4. FreshOf(a)'
      <3>1. step'[a] = s
        BY <1>1, <2>1 DEF TypeOK
      <3> QED BY <2>1, <2>2, <2>3, <3>1 DEF FreshOf
    <2>5. s \in Steps \ {"none"} /\ step[a] # "none"
      BY <1>1 DEF Steps
    <2>6. gateway'[a[2]].alive => gateway'[a[2]].id[1] = a[1]
      BY <2>2, <2>3
    <2>7. last' \in [Actors -> LastIds] /\ talking' \in [Actors -> ProcessIds] /\ \A b \in Actors \ {a} : last'[b] = last[b]
      BY <1>1, <1>4, TypeFacts
    <2>8. UNCHANGED <<job, lane, item, raised, cache>> /\ faults' \in 0..MaxFaults /\ step' = [step EXCEPT ![a] = s]
      BY <1>1, <1>4, <2>1
    <2> QED BY <2>3, <2>4, <2>5, <2>6, <2>7, <2>8, RunGoesOn
  <1> QED BY <1>2, <1>3, <1>4 DEF Prepare

\* After its stagger a restart finds no gateway, unless a run that was left behind started one.
LEMMA RestartStartsStep ==
  ASSUME Inv, NEW a \in Actors, RestartStarts(a) PROVE Inv'
  <1>1. /\ step[a] = "staggered" /\ TypeOK /\ a[1] \in 1..Jobs /\ a[2] \in Lanes
        /\ UNCHANGED <<job, talking, cache>> /\ faults' \in 0..MaxFaults
    BY ActorFacts, FaultFacts DEF RestartStarts
  <1>2. CASE Raises(a) /\ UNCHANGED <<last, gateway>>
    <2>1. Goes(a)
      BY <1>2 DEF Raises
    <2> QED BY <1>1, <1>2, <2>1, TypeFacts, RunIsOver
  <1>3. CASE gateway[a[2]].alive /\ Prepared(a) /\ UNCHANGED <<lane, item, raised, gateway>>
    <2>1. /\ step' = [step EXCEPT ![a] = "announcing"] /\ last' \in [Actors -> LastIds]
          /\ \A b \in Actors \ {a} : last'[b] = last[b]
      BY <1>1, <1>3, PreparedFacts
    <2>2. ~FreshOf(a)
      BY <1>1, <1>3 DEF FreshOf
    <2> QED BY <1>1, <1>3, <2>1, <2>2, TypeFacts, RunGoesOn DEF Steps
  <1>4. CASE StartProcess(a) /\ step' = [step EXCEPT ![a] = "booting"] /\ UNCHANGED <<last, lane, item, raised>>
    <2>1. Process(a) \in Processes /\ Process(a).used = {} /\ Process(a).id[1] = a[1]
      BY <1>1, ProcessFacts
    <2>2. gateway' = [gateway EXCEPT ![a[2]] = Process(a)]
      BY <1>4 DEF StartProcess
    <2>3. /\ gateway' \in [Lanes -> Processes] /\ gateway'[a[2]] = Process(a)
          /\ \A l \in Lanes \ {a[2]} : gateway'[l] = gateway[l]
      BY <1>1, <2>1, <2>2, TypeFacts
    <2>4. FreshOf(a)'
      <3>1. step'[a] = "booting"
        BY <1>1, <1>4 DEF TypeOK
      <3> QED BY <2>1, <2>3, <3>1 DEF FreshOf
    <2>5. "booting" \in Steps \ {"none"} /\ step[a] # "none"
      BY <1>1 DEF Steps
    <2>6. gateway'[a[2]].alive => gateway'[a[2]].id[1] = a[1]
      BY <2>1, <2>3
    <2>7. last' \in [Actors -> LastIds] /\ talking' \in [Actors -> ProcessIds] /\ \A b \in Actors \ {a} : last'[b] = last[b]
      BY <1>1, <1>4, TypeFacts
    <2>8. UNCHANGED <<job, lane, item, raised, cache>> /\ faults' \in 0..MaxFaults /\ step' = [step EXCEPT ![a] = "booting"]
      BY <1>1, <1>4
    <2> QED BY <2>3, <2>4, <2>5, <2>6, <2>7, <2>8, RunGoesOn
  <1> QED BY <1>2, <1>3, <1>4 DEF RestartStarts

\* The gateway of a restart comes up with nobody on it, or does not.
LEMMA RestartBootsStep ==
  ASSUME Inv, NEW a \in Actors, RestartBoots(a) PROVE Inv'
  <1>1. /\ step[a] = "booting" /\ TypeOK /\ a[1] \in 1..Jobs /\ a[2] \in Lanes
        /\ UNCHANGED <<job, talking, cache, gateway>> /\ faults' \in 0..MaxFaults
    BY ActorFacts, FaultFacts DEF RestartBoots, ComesUp, Fails
  <1>2. CASE Raises(a) /\ UNCHANGED last
    <2>1. Goes(a)
      BY <1>2 DEF Raises
    <2> QED BY <1>1, <1>2, <2>1, TypeFacts, RunIsOver
  <1>3. CASE Prepared(a) /\ UNCHANGED <<lane, item, raised>>
    <2>1. /\ step' = [step EXCEPT ![a] = "announcing"] /\ last' \in [Actors -> LastIds]
          /\ last'[a] = Item(a).task.id /\ \A b \in Actors \ {a} : last'[b] = last[b]
      BY <1>1, <1>3, PreparedFacts
    <2>2. FreshOf(a) => FreshOf(a)'
      <3>1. gateway'[a[2]] = gateway[a[2]] /\ Item(a)' = Item(a)
        BY <1>1, <1>3 DEF Item
      <3>2. FreshOf(a) => gateway[a[2]].used = {}
        BY <1>1 DEF FreshOf
      <3>3. step'[a] = "announcing"
        BY <1>1, <2>1 DEF TypeOK
      <3> QED BY <2>1, <3>1, <3>2, <3>3 DEF FreshOf
    <2> QED BY <1>1, <1>3, <2>1, <2>2, TypeFacts, RunGoesOn DEF Steps
  <1> QED BY <1>2, <1>3 DEF RestartBoots

\* The run talks to its gateway, which has served nobody but runs of a task that does not mind.
LEMMA AnnounceStep ==
  ASSUME Inv, NEW a \in Actors, Announce(a) PROVE Inv'
  <1>1. /\ step[a] = "announcing" /\ TypeOK /\ a[1] \in 1..Jobs /\ a[2] \in Lanes
        /\ UNCHANGED <<job, last, cache>> /\ faults' \in 0..MaxFaults
        /\ gateway[a[2]] \in Processes
    BY ActorFacts, FaultFacts DEF Announce
  <1>2. CASE Raises(a) /\ UNCHANGED <<talking, gateway>>
    <2>1. Goes(a)
      BY <1>2 DEF Raises
    <2> QED BY <1>1, <1>2, <2>1, TypeFacts, RunIsOver
  <1>3. CASE Goes(a) /\ UNCHANGED <<talking, gateway, lane, raised>>
    BY <1>1, <1>3, TypeFacts, RunIsOver
  <1>4. CASE /\ step' = [step EXCEPT ![a] = "working"]
             /\ talking' = [talking EXCEPT ![a] = gateway[a[2]].id]
             /\ gateway' = [gateway EXCEPT ![a[2]].used = @ \cup {<<a, Item(a)>>}]
             /\ UNCHANGED <<lane, item, raised>>
    <2> DEFINE used == gateway[a[2]].used \cup {<<a, Item(a)>>}
               p == [gateway[a[2]] EXCEPT !.used = used]
    <2>1. Item(a) \in AllRuns /\ <<a, Item(a)>> \in Actors \X AllRuns
      BY <1>1, ItemFacts
    <2>2. used \in SUBSET (Actors \X AllRuns)
      BY <1>1, <2>1 DEF Processes
    <2> HIDE DEF used
    <2>3. p \in Processes /\ p.used = used /\ p.alive = gateway[a[2]].alive /\ p.id = gateway[a[2]].id
      BY <1>1, <2>2 DEF Processes
    <2>4. gateway' = [gateway EXCEPT ![a[2]] = p]
      BY <1>4 DEF used
    <2> HIDE DEF p
    <2>5. gateway' \in [Lanes -> Processes] /\ gateway'[a[2]] = p /\ \A l \in Lanes \ {a[2]} : gateway'[l] = gateway[l]
      BY <1>1, <2>3, <2>4, TypeFacts
    <2>6. talking' \in [Actors -> ProcessIds]
      <3>1. gateway[a[2]].id \in ProcessIds
        BY <1>1 DEF Processes
      <3> QED BY <1>4, <3>1, TypeFacts
    <2>7. FreshOf(a) => FreshOf(a)'
      <3> SUFFICES ASSUME FreshOf(a) PROVE FreshOf(a)'
        OBVIOUS
      <3>1. step'[a] = "working" /\ lane'[a] = lane[a] /\ last'[a] = last[a]
        BY <1>1, <1>4 DEF TypeOK
      <3>2. lane[a] \notin Before
        BY <1>1, ActorFacts DEF LaneOf
      <3>3. /\ last[a] = Item(a).task.id
            /\ \A x \in gateway[a[2]].used : x[2].task = Item(a).task /\ ~NeedsFreshGateway(x[2].task)
            /\ \A x \in gateway[a[2]].used : x[2].task.id = last[a]
            /\ \A x, y \in gateway[a[2]].used :
                  x = y \/ (x[2].task = y[2].task /\ ~NeedsFreshGateway(x[2].task))
        BY <1>1 DEF FreshOf
      <3>4. \A x \in used : x \in gateway[a[2]].used \/ (x = <<a, Item(a)>> /\ x[2] = Item(a))
        BY DEF used
      <3>5. \A x, y \in used : x = y \/ (x[2].task = y[2].task /\ ~NeedsFreshGateway(x[2].task))
        BY <3>3, <3>4
      <3>6. \A x \in used : x[2].task.id = last[a]
        BY <3>3, <3>4
      <3> QED BY <2>3, <2>5, <3>1, <3>2, <3>5, <3>6 DEF FreshOf
    <2>8. "working" \in Steps \ {"none"} /\ step[a] # "none"
      BY <1>1 DEF Steps
    <2>9. /\ gateway'[a[2]].alive => gateway[a[2]].alive /\ gateway'[a[2]].id = gateway[a[2]].id
          /\ last' \in [Actors -> LastIds] /\ \A b \in Actors \ {a} : last'[b] = last[b]
      BY <1>1, <2>3, <2>5, TypeFacts
    <2> QED BY <1>1, <1>4, <2>5, <2>6, <2>7, <2>8, <2>9, RunGoesOn
  <1> QED BY <1>2, <1>3, <1>4 DEF Announce

\* The conversation is over, and its run kept or not.
LEMMA WorkStep ==
  ASSUME Inv, NEW a \in Actors, Work(a) PROVE Inv'
  <1>1. /\ step[a] = "working" /\ Goes(a) /\ UNCHANGED <<job, lane, last, gateway, raised>>
        /\ talking' = [talking EXCEPT ![a] = NoProcess.id] /\ TypeOK
        /\ faults' \in 0..MaxFaults /\ (cache' = cache \cup {Item(a)} \/ cache' = cache)
    BY ActorFacts, FaultFacts DEF Work
  <1>2. Item(a) \in AllRuns /\ NoProcess.id \in ProcessIds
    BY <1>1, ItemFacts, ProcessFacts
  <1>3. cache' \subseteq AllRuns /\ talking' \in [Actors -> ProcessIds]
    BY <1>1, <1>2, TypeFacts
  <1> QED BY <1>1, <1>3, RunIsOver

\* The job is over and all of its gateways are stopped; nobody has talked to the next ones.
LEMMA FinishJobStep ==
  ASSUME Inv, FinishJob PROVE Inv'
  <1>1. /\ TypeOK /\ job \in 1..Jobs /\ LanesOver /\ job' = job + 1 /\ Jobs \in Nat
        /\ gateway' = [l \in Lanes |-> NoProcess]
        /\ lane' = [a \in Actors |-> IF a[1] = job' THEN "staggered" ELSE lane[a]]
        /\ UNCHANGED <<item, step, last, talking, cache, raised, faults>>
    BY JobsAssumption DEF FinishJob, Inv, TypeOK
  <1>2. TypeOK'
    <2>1. gateway' \in [Lanes -> Processes]
      <3>1. NoProcess \in Processes
        BY ProcessFacts, <1>1 DEF NoProcess, Processes, ProcessIds
      <3> QED BY <1>1, <3>1
    <2>2. lane' \in [Actors -> LaneStates]
      <3>1. \A a \in Actors : (IF a[1] = job' THEN "staggered" ELSE lane[a]) \in LaneStates
        BY <1>1 DEF TypeOK, LaneStates
      <3> QED BY <1>1, <3>1
    <2>3. job' \in 1..(Jobs + 1)
      BY <1>1
    <2> QED BY <1>1, <2>1, <2>2, <2>3 DEF TypeOK
  <1>3. LaneInv'
    <2> SUFFICES ASSUME NEW a \in Actors PROVE LaneOf(a)'
      BY DEF LaneInv
    <2>1. /\ LaneOf(a) /\ a[1] \in Nat /\ job \in Nat /\ a[2] \in Lanes /\ a = <<a[1], a[2]>>
          /\ lane'[a] = IF a[1] = job + 1 THEN "staggered" ELSE lane[a]
      BY <1>1, JobsAssumption DEF Inv, LaneInv, Actors
    <2>2. CASE a[1] = job + 1
      <3>1. a[1] > job /\ ~(a[1] < job)
        BY <2>1, <2>2
      <3>2. lane[a] = "waiting" /\ lane'[a] = "staggered"
        BY <2>1, <2>2, <3>1 DEF LaneOf
      <3>3. step[a] = "none" /\ item[a] = 0 /\ last[a] = NoTask
        BY <2>1, <3>2 DEF LaneOf, Before
      <3>4. ~(a[1] > job') /\ ~(a[1] < job')
        BY <1>1, <2>1, <2>2
      <3> QED BY <1>1, <3>2, <3>3, <3>4 DEF LaneOf
    <2>3. CASE a[1] = job
      <3>1. lane[a] \in {"done", "failed"} /\ lane'[a] = lane[a]
        BY <1>1, <2>1, <2>3 DEF LanesOver
      <3>2. ~(a[1] > job') /\ a[1] < job'
        BY <1>1, <2>1, <2>3
      <3> QED BY <1>1, <2>1, <3>1, <3>2 DEF LaneOf, Before, NumberOfRuns
    <2>4. CASE a[1] # job /\ a[1] # job + 1
      <3>1. lane'[a] = lane[a] /\ (a[1] > job' => a[1] > job) /\ (a[1] < job' => a[1] < job)
        BY <1>1, <2>1, <2>4
      <3> QED BY <1>1, <2>1, <3>1 DEF LaneOf, NumberOfRuns
    <2> QED BY <2>2, <2>3, <2>4
  <1>4. \A l \in Lanes : gateway'[l] = NoProcess /\ ~NoProcess.alive /\ NoProcess.used = {}
    BY <1>1 DEF NoProcess
  <1>5. GatewaysStop'
    BY <1>4 DEF GatewaysStop
  <1>6. FreshInv'
    <2> SUFFICES ASSUME NEW l \in Lanes, job' <= Jobs PROVE FreshOf(<<job, l>>)'
      BY <1>4 DEF FreshInv
    <2>0. <<job + 1, l>> \in Actors
      BY <1>1 DEF Actors
    <2>1. PICK a \in Actors : a = <<job + 1, l>> /\ a[1] = job + 1 /\ a[2] = l
      BY <2>0
    <2>2. /\ step[a] = "none" /\ lane'[a] = "staggered" /\ gateway'[a[2]].used = {}
      <3>1. lane[a] = "waiting"
        BY <1>1, <2>1 DEF Inv, LaneInv, LaneOf
      <3>2. step[a] = "none"
        BY <2>1, <3>1 DEF Inv, LaneInv, LaneOf, Before
      <3> QED BY <1>1, <1>4, <2>1, <3>2
    <2>3. FreshOf(a)'
      BY <1>1, <2>2 DEF FreshOf
    <2>4. a = <<job', l>>
      BY <1>1, <2>1
    <2> QED BY <2>3, <2>4
  <1> QED BY <1>2, <1>3, <1>5, <1>6 DEF Inv

\* A gateway dies with all it did.
LEMMA GatewayDiesStep ==
  ASSUME Inv, NEW l \in Lanes, GatewayDies(l) PROVE Inv'
  <1>1. /\ TypeOK /\ gateway[l] \in Processes /\ gateway[l].alive
        /\ gateway' = [gateway EXCEPT ![l] = [gateway[l] EXCEPT !.alive = FALSE]]
        /\ UNCHANGED <<job, lane, item, step, last, talking, cache, raised>> /\ faults' \in 0..MaxFaults
    BY FaultFacts DEF Inv, GatewayDies, TypeOK
  <1> DEFINE p == [gateway[l] EXCEPT !.alive = FALSE]
  <1>2. p \in Processes /\ ~p.alive /\ p.used = gateway[l].used
    BY <1>1 DEF Processes
  <1> HIDE DEF p
  <1>3. gateway' = [gateway EXCEPT ![l] = p]
    BY <1>1 DEF p
  <1>4. /\ gateway' \in [Lanes -> Processes]
        /\ \A k \in Lanes : gateway'[k].used = gateway[k].used /\ (gateway'[k].alive => k # l /\ gateway'[k] = gateway[k])
    BY <1>1, <1>2, <1>3 DEF TypeOK
  <1>5. TypeOK'
    BY <1>1, <1>4 DEF TypeOK
  <1>6. LaneInv'
    BY <1>1 DEF Inv, LaneInv, LaneOf, NumberOfRuns
  <1>7. \A k : Haunted(job, k)' = Haunted(job, k)
    BY <1>1 DEF Haunted
  <1>8. GatewaysStop'
    BY <1>1, <1>4, <1>7 DEF Inv, GatewaysStop
  <1>9. FreshInv'
    <2> SUFFICES ASSUME NEW k \in Lanes, ~Haunted(job, k)
                 PROVE  (IF job <= Jobs THEN FreshOf(<<job, k>>) ELSE gateway[k].used = {})'
      BY <1>7 DEF FreshInv
    <2>1. gateway'[k].used = gateway[k].used /\ (gateway'[k].alive => gateway[k].alive)
      BY <1>4
    <2>2. CASE job <= Jobs
      <3>0. <<job, k>> \in Actors
        BY <1>1, <2>2 DEF Actors, TypeOK
      <3>1. PICK b \in Actors : b = <<job, k>> /\ b[2] = k
        BY <3>0
      <3>2. FreshOf(b)
        BY <2>2, <3>1 DEF Inv, FreshInv
      <3>3. FreshOf(b)'
        BY <1>1, <2>1, <3>1, <3>2 DEF FreshOf, Item
      <3>4. b = <<job', k>>
        BY <1>1, <3>1
      <3> QED BY <1>1, <2>2, <3>3, <3>4
    <2>3. CASE ~(job <= Jobs)
      BY <1>1, <2>1, <2>3 DEF Inv, FreshInv
    <2> QED BY <2>2, <2>3
  <1> QED BY <1>5, <1>6, <1>8, <1>9 DEF Inv

\* Before any lane started.
LEMMA InitInv == Init => Inv
  <1> SUFFICES ASSUME Init PROVE Inv
    OBVIOUS
  <1>1. /\ job = 1 /\ cache = {} /\ raised = {} /\ faults = 0 /\ Jobs \in Nat \ {0} /\ MaxFaults \in Nat
        /\ lane = [a \in Actors |-> IF a[1] = 1 THEN "staggered" ELSE "waiting"]
        /\ item = [a \in Actors |-> 0] /\ step = [a \in Actors |-> "none"] /\ last = [a \in Actors |-> NoTask]
        /\ gateway = [l \in Lanes |-> NoProcess] /\ talking = [a \in Actors |-> NoProcess.id]
    BY JobsAssumption DEF Init
  <1>2. NoProcess \in Processes /\ NoProcess.id \in ProcessIds /\ ~NoProcess.alive /\ NoProcess.used = {}
    BY DEF NoProcess, Processes, ProcessIds
  <1>3. \A a \in Actors : a[2] \in Lanes /\ a[1] \in 1..Jobs /\ NumberOfRuns(a[2]) \in Nat
    BY ItemsType DEF Actors
  <1>4. TypeOK
    <2>1. lane \in [Actors -> LaneStates] /\ step \in [Actors -> Steps]
      BY <1>1 DEF LaneStates, Steps
    <2>2. item \in [Actors -> Nat] /\ last \in [Actors -> {NoTask} \cup {t.id : t \in Range(Tasks)}]
      BY <1>1
    <2>3. \A a \in Actors : item[a] <= Len(Items[a[2]]) + 1
      BY <1>1, <1>3 DEF NumberOfRuns
    <2>4. gateway \in [Lanes -> Processes] /\ talking \in [Actors -> ProcessIds]
      BY <1>1, <1>2
    <2> QED BY <1>1, <2>1, <2>2, <2>3, <2>4 DEF TypeOK
  <1>5. LaneInv
    BY <1>1, <1>3 DEF LaneInv, LaneOf, Before
  <1>6. GatewaysStop
    BY <1>1, <1>2 DEF GatewaysStop
  <1>7. FreshInv
    <2> SUFFICES ASSUME NEW l \in Lanes PROVE FreshOf(<<job, l>>)
      BY <1>1 DEF FreshInv
    <2>1. <<job, l>> \in Actors
      BY <1>1 DEF Actors
    <2> DEFINE a == <<job, l>>
    <2>2. gateway[a[2]].used = {} /\ step[a] = "none"
      BY <1>1, <1>2, <2>1
    <2> HIDE DEF a
    <2>3. FreshOf(a)
      BY <2>2 DEF FreshOf
    <2> QED BY <2>3 DEF a
  <1> QED BY <1>4, <1>5, <1>6, <1>7 DEF Inv

-----------------------------------------------------------------------------
\* What the lanes keep, for every job, every plan of its tasks and any faults.
THEOREM Invariance == Spec => []Inv
  <1>1. Inv /\ Next => Inv'
    <2> SUFFICES ASSUME Inv, Next PROVE Inv'
      OBVIOUS
    <2>1. CASE \E a \in Actors : LaneStep(a)
      BY <2>1, LaneStartsStep, LaneBootsStep, PreflightStep, LaneEndsStep DEF LaneStep
    <2>2. CASE \E a \in Actors : RunStep(a)
      BY <2>2, PrepareStep, RestartStartsStep, RestartBootsStep, AnnounceStep, WorkStep DEF RunStep
    <2>3. CASE FinishJob
      BY <2>3, FinishJobStep
    <2>4. CASE \E l \in Lanes : GatewayDies(l)
      BY <2>4, GatewayDiesStep
    <2> QED BY <2>1, <2>2, <2>3, <2>4 DEF Next
  <1>2. Inv /\ UNCHANGED vars => Inv'
    <2> SUFFICES ASSUME Inv, UNCHANGED vars PROVE Inv'
      OBVIOUS
    <2>1. TypeOK' /\ LaneInv' /\ GatewaysStop'
      BY DEF vars, Inv, TypeOK, LaneInv, LaneOf, GatewaysStop, Haunted, NumberOfRuns
    <2>2. FreshInv'
      BY DEF vars, Inv, FreshInv, FreshOf, Haunted, Item
    <2> QED BY <2>1, <2>2 DEF Inv
  <1> QED BY <1>1, <1>2, InitInv, PTL DEF Spec

\* The variables hold what the code can put there.
THEOREM TypeCorrect == Spec => []TypeOK
  <1>1. Inv => TypeOK
    BY DEF Inv
  <1> QED BY <1>1, Invariance, PTL

\* No gateway outlives its job, unless the job left runs behind that start it again
\* (_run_parallel_benchmark stops what the worker knows, worker.py:403-450).
THEOREM Stop == Spec => []GatewaysStop
  <1>1. Inv => GatewaysStop
    BY DEF Inv
  <1> QED BY <1>1, Invariance, PTL

\* No gateway has served two tasks, nor two runs of a task that asks for a fresh one, whatever
\* restarts, runs and gateways failed (_should_restart_gateway_for_run, worker.py:1142-1156).
THEOREM Fresh == Spec => []FreshGateway
  <1>1. Inv => FreshGateway
    <2> SUFFICES ASSUME Inv, NEW l \in Lanes, ~Haunted(job, l), NEW x \in gateway[l].used, NEW y \in gateway[l].used
                 PROVE  x = y \/ (x[2].task = y[2].task /\ ~NeedsFreshGateway(x[2].task))
      BY DEF FreshGateway
    <2>1. job <= Jobs /\ FreshOf(<<job, l>>)
      BY DEF Inv, FreshInv
    <2> QED BY <2>1 DEF FreshOf
  <1> QED BY <1>1, Invariance, PTL

-----------------------------------------------------------------------------
\* The runs of a sequence of tasks are runs of the tasks in it.
LEMMA RunsOfTasks ==
  ASSUME NEW tasks \in Seq(Range(Tasks)), NEW n \in DOMAIN RunsOf(tasks)
  PROVE  RunsOf(tasks)[n].task \in Range(tasks)
  <1> DEFINE q == (n - 1) \div Runs
             N == Len(tasks) * Runs
  <1>1. Len(tasks) \in Nat /\ Runs \in Nat \ {0} /\ N \in Nat /\ DOMAIN tasks = 1..Len(tasks)
    BY JobsAssumption
  <1>2. n \in 1..N /\ RunsOf(tasks)[n].task = tasks[q + 1]
    BY DEF RunsOf
  <1>3. q \in Nat /\ q * Runs <= n - 1
    <2> HIDE DEF N
    <2> QED BY <1>1, <1>2
  <1>4. q < Len(tasks)
    <2> HIDE DEF q
    <2>1. SUFFICES ASSUME q >= Len(tasks) PROVE FALSE
      BY <1>1, <1>3
    <2>2. q * Runs >= N
      BY <2>1, <1>1, <1>3
    <2> HIDE DEF N
    <2> QED BY <2>2, <1>1, <1>2, <1>3
  <1>5. q + 1 \in 1..Len(tasks)
    <2> HIDE DEF q
    <2> QED BY <1>1, <1>3, <1>4
  <1> HIDE DEF q
  <1> QED BY <1>1, <1>2, <1>5 DEF Range

\* The runs of a lane are runs of the tasks the plan gave it (harness.run loads them by their ids).
LEMMA ItemOfLane ==
  ASSUME NEW l \in Lanes, NEW n \in 1..NumberOfRuns(l)
  PROVE  Items[l][n].task \in Range(LaneTasks[l])
  <1> DEFINE kept == Range(LaneTasks[l])
             first == Among(LoadedTasks(l), BrowserTasks)
             second == Among(LoadedTasks(l), Range(Tasks) \ BrowserTasks)
  <1>1. LoadedTasks(l) \in Seq(Range(Tasks)) /\ Range(LoadedTasks(l)) \subseteq kept
    <2> HIDE DEF kept
    <2>1. Among(Tasks, kept) \in Seq(Range(Tasks)) /\ Range(Among(Tasks, kept)) = Range(Tasks) \cap kept
      BY TasksAssumption, AmongType, AmongHolds
    <2> QED BY <2>1 DEF LoadedTasks, kept
  <1>2. /\ first \in Seq(Range(Tasks)) /\ Range(first) \subseteq kept
        /\ second \in Seq(Range(Tasks)) /\ Range(second) \subseteq kept
    <2> HIDE DEF kept
    <2>1. \A some : Among(LoadedTasks(l), some) \in Seq(Range(Tasks))
                    /\ Range(Among(LoadedTasks(l), some)) = Range(LoadedTasks(l)) \cap some
      BY <1>1, AmongType, AmongHolds
    <2> QED BY <2>1, <1>1
  <1>3. Items[l] = RunsOf(first) \o RunsOf(second)
    BY DEF Items
  <1> HIDE DEF first, second, kept
  <1>4. RunsOf(first) \in Seq(AllRuns) /\ RunsOf(second) \in Seq(AllRuns)
    BY <1>2, RunsOfType
  <1>5. /\ \A m \in DOMAIN RunsOf(first) : RunsOf(first)[m].task \in kept
        /\ \A m \in DOMAIN RunsOf(second) : RunsOf(second)[m].task \in kept
    BY <1>2, RunsOfTasks
  <1> DEFINE r == RunsOf(first)
             s == RunsOf(second)
  <1> HIDE DEF r, s
  <1>6. r \in Seq(AllRuns) /\ s \in Seq(AllRuns) /\ n \in 1..Len(r \o s)
    BY <1>3, <1>4 DEF NumberOfRuns, r, s
  <1>7. (r \o s)[n] = IF n <= Len(r) THEN r[n] ELSE s[n - Len(r)]
    BY <1>6
  <1>8. CASE n <= Len(r)
    <2>1. n \in DOMAIN r
      BY <1>6, <1>8
    <2> QED BY <2>1, <1>3, <1>5, <1>7, <1>8 DEF kept, r, s
  <1>9. CASE ~(n <= Len(r))
    <2>1. n - Len(r) \in DOMAIN s
      BY <1>6, <1>9
    <2> QED BY <2>1, <1>3, <1>5, <1>7, <1>9 DEF kept, r, s
  <1> QED BY <1>8, <1>9

\* All browser tasks of the job are on one lane.
LEMMA BrowserLanes ==
  ASSUME NEW l \in Lanes, NEW k \in Lanes, NEW t \in Range(LaneTasks[l]), NEW u \in Range(LaneTasks[k]),
         IsBrowser(t), IsBrowser(u)
  PROVE  l = k
  <1>1. BrowsersApart(Planned)
    <2>1. Weighable(Range(Tasks)) /\ Tasks \in Seq(Range(Tasks)) /\ Requested \in Int
      BY TasksAssumption, RequestedAssumption DEF Weighable
    <2> QED BY <2>1, PlanSerializes DEF Planned
  <1>2. BrowserLane(Planned[l]) /\ BrowserLane(Planned[k])
    BY DEF BrowserLane, LaneTasks, Range
  <1> QED BY <1>1, <1>2 DEF BrowsersApart, Lanes

\* Two browser runs of a job are never in progress together, although its lanes run side by side and
\* go on after failures: all browser ports are one (_plan_parallel_lanes, worker.py:512-555).
THEOREM BrowserApart == Spec => []BrowserRunsApart
  <1>1. Inv => BrowserRunsApart
    <2> SUFFICES ASSUME Inv, NEW a \in Actors, NEW b \in Actors, step[a] = "working", step[b] = "working",
                        IsBrowser(Item(a).task), IsBrowser(Item(b).task), a[1] = b[1]
                 PROVE  a = b
      BY DEF BrowserRunsApart
    <2>1. /\ a[2] \in Lanes /\ item[a] \in 1..NumberOfRuns(a[2])
          /\ b[2] \in Lanes /\ item[b] \in 1..NumberOfRuns(b[2])
      BY ItemFacts
    <2>2. Item(a).task \in Range(LaneTasks[a[2]]) /\ Item(b).task \in Range(LaneTasks[b[2]])
      BY <2>1, ItemOfLane DEF Item
    <2>3. a[2] = b[2]
      BY <2>1, <2>2, BrowserLanes
    <2> QED BY <2>3 DEF Actors
  <1> QED BY <1>1, Invariance, PTL
=============================================================================
