------------------------------ MODULE LanePlan ------------------------------
(***************************************************************************)
(* How the worker spreads the tasks of a job over lanes, each with a        *)
(* gateway of its own (clawbench/worker.py): the heaviest task first, to    *)
(* the lane with the least to do, and browser tasks on a lane of their own, *)
(* so that they run one after the other.                                    *)
(*                                                                         *)
(* A task is [id, tier, family, delicate, phases]: `delicate` says that it  *)
(* has a capability for which every run gets a fresh gateway. Weights are   *)
(* in hundredths.                                                           *)
(***************************************************************************)
EXTENDS Integers, Sequences, SequencesExt, FiniteSetsExt

\* What is kept of a list, in its order: a comprehension with a condition.
Among(list, kept) ==
    LET part[n \in 0..Len(list)] ==
            IF n = 0 THEN <<>> ELSE IF list[n] \in kept THEN Append(part[n - 1], list[n]) ELSE part[n - 1]
    IN  part[Len(list)]

IsBrowser(task) == task.family = "browser"
MultiPhase(task) == task.phases > 1

FamilyBonus(family) ==
    CASE family \in {"multi_tool", "browser", "adversarial"} -> 75
      [] family \in {"repo", "tools"} -> 35
      [] OTHER -> 0

TaskWeight(task) == 100 * task.tier + FamilyBonus(task.family) + (IF MultiPhase(task) THEN 50 ELSE 0)

Lane(tasks, weight) == [tasks |-> tasks, weight |-> weight]
IdleLane == Lane(<<>>, 0)

\* sorted(tasks, key = weight, reverse = True), which keeps the order of equals.
HeaviestFirst(tasks) ==
    LET places == DOMAIN tasks
        before(i, j) ==
            \/ TaskWeight(tasks[i]) > TaskWeight(tasks[j])
            \/ TaskWeight(tasks[i]) = TaskWeight(tasks[j]) /\ i < j
        order == CHOOSE p \in Bijection(places, places) : \A m, n \in places : m < n => before(p[m], p[n])
    IN  [n \in places |-> tasks[order[n]]]

\* The lane with the least weight, then the fewest tasks, then the lowest index.
LightestLane(lanes) ==
    CHOOSE l \in DOMAIN lanes : \A k \in DOMAIN lanes \ {l} :
        \/ lanes[l].weight < lanes[k].weight
        \/ /\ lanes[l].weight = lanes[k].weight
           /\ \/ Len(lanes[l].tasks) < Len(lanes[k].tasks)
              \/ Len(lanes[l].tasks) = Len(lanes[k].tasks) /\ l < k

Place(lanes, task) ==
    LET lightest == LightestLane(lanes)
    IN  [l \in DOMAIN lanes |->
            IF l = lightest THEN Lane(Append(lanes[l].tasks, task), lanes[l].weight + TaskWeight(task))
            ELSE lanes[l]]

PlaceAll(lanes, tasks) == FoldLeft(Place, lanes, HeaviestFirst(tasks))

TotalWeight(tasks) == FoldLeft(LAMBDA sum, task : sum + TaskWeight(task), 0, tasks)

DedicatedOfThree(browserTasks, effective, serialize) ==
    serialize /\ browserTasks # <<>> /\ effective > 2
Dedicated(browserTasks, effective, serialize) ==
    serialize /\ browserTasks # <<>> /\ effective > 1

\* _plan_parallel_lanes: lanes without a task are dropped, and the rest are numbered anew.
Plan(tasks, requested, serialize) ==
    LET effective == Max({1, Min({requested, Len(tasks)})})
        browserTasks == Among(tasks, {task \in Range(tasks) : IsBrowser(task)})
        otherTasks == Among(tasks, {task \in Range(tasks) : ~IsBrowser(task)})
        dedicated == Dedicated(browserTasks, effective, serialize)
        workers == Max({1, effective - (IF dedicated THEN 1 ELSE 0)})
        spread == PlaceAll([l \in 1..workers |-> IdleLane], otherTasks)
        lanes == IF dedicated THEN Append(spread, Lane(browserTasks, TotalWeight(browserTasks)))
                 ELSE PlaceAll(spread, browserTasks)
    IN  Among(lanes, Range(lanes) \ {IdleLane})

\* _task_requires_fresh_gateway_per_run
NeedsFreshGateway(task) == IsBrowser(task) \/ task.delicate \/ MultiPhase(task)

RestartsPerRun(task, run, last, NoTask) == (last # NoTask \/ run > 0) /\ NeedsFreshGateway(task)

\* _should_restart_gateway_for_run. NoTask: no run of this lane was prepared yet.
ShouldRestart(task, run, last, NoTask) ==
    IF last = NoTask THEN run > 0 /\ NeedsFreshGateway(task)
    ELSE task.id # last \/ NeedsFreshGateway(task)
=============================================================================
