----------------------------- MODULE NativeRun -----------------------------
(***************************************************************************)
(* One run of the native evaluation on its machine, and the loop that brings*)
(* its results home (scripts/native_eval: runtime.py, run_job.py,            *)
(* remote_run.sh, remote_checkpoint.sh and checkpoint_loop.py).             *)
(*                                                                         *)
(* On the machine: remote_run.sh starts the proxy, runs the job, packs the  *)
(* final archive and, from its EXIT trap, writes the exit status and "done",*)
(* unless the trap itself dies of a proxy that is not there.                *)
(* The job runs its trials a few at a time, each in a container. At home the *)
(* loop polls, pulls checkpoints while the run goes on and the final files   *)
(* after it. It may crash and be started again on the same directory. A      *)
(* snapshot is taken in one step, and the interval between checkpoints may   *)
(* have passed whenever the loop looks.                                     *)
(***************************************************************************)
EXTENDS Integers, Sequences, FiniteSets, FiniteSetsExt

CONSTANTS
    Trials,          \* the tasks of the suite
    Concurrency,     \* trials at a time
    Increment,       \* --trial-increment
    MaxSshFailures,  \* --max-ssh-failures
    MaxTimely,       \* bound: the interval passes while the next number is at most this
    MaxFaults        \* bound: lost connections, failed copies and crashes, all in all

ASSUME TrialsAssumption == IsFiniteSet(Trials) /\ Trials # {}
ASSUME ConcurrencyAssumption == Concurrency \in Nat \ {0}
ASSUME LoopAssumption == Increment \in Nat \ {0} /\ MaxSshFailures \in Nat \ {0}
ASSUME BoundsAssumption == MaxTimely \in Nat /\ MaxFaults \in Nat

VARIABLES
    trial,      \* of each task: where run_trial is and what went wrong
    script,     \* where remote_run.sh is
    proxy,      \* whether its proxy is there
    status,     \* RUN_STATUS
    archive,    \* the final archive on the machine
    snapshot,   \* the last checkpoint archive on the machine
    files,      \* the files at home under their final names
    partial,    \* the same under .partial
    loop,       \* where run_loop is, and its local variables
    faults

remoteVars == <<trial, script, proxy, status, archive>>
localVars == <<files, partial>>
vars == <<remoteVars, snapshot, localVars, loop, faults>>

Fault == faults < MaxFaults /\ faults' = faults + 1

-----------------------------------------------------------------------------
\* Trials.  `agent` is how the agent ended, `error` the first failure of anything else.
Waiting == [at |-> "queued", agent |-> "none", error |-> "none", judged |-> FALSE, kind |-> "pending"]
ActiveTrials == {t \in Trials : trial[t].at \notin {"queued", "over"}}
Finished == {t \in Trials : trial[t].at = "over"}
WithResult == {t \in Trials : trial[t].at # "queued"}

\* The first failure is kept for the diagnosis and for the outcome alike.
AgentExits == {"exit", "gateway", "timeout"}
ExceptionOfAgentFirst(r) ==
    CASE r.agent \in AgentExits -> "agent" [] r.agent = "broken" -> "infra" [] OTHER -> r.error

\* The agent's failure is recorded, and an error of the trial goes before it.
Exception(r) ==
    CASE r.error # "none" -> r.error
      [] r.error = "none" /\ r.agent \in AgentExits -> "agent"
      [] OTHER -> IF r.agent = "broken" THEN "infra" ELSE "none"

\* execution_outcome. The exit codes of the OpenClaw wrapper speak for themselves.
Outcome(r) ==
    CASE Exception(r) = "none" -> "clean"
      [] Exception(r) # "none" /\ r.agent = "gateway" -> "harness_error"
      [] OTHER -> [agent |-> "agent_error", setup |-> "harness_error",
                   verifier |-> "verifier_error", infra |-> "infra_error"][Exception(r)]

MoveTrial(t, r) ==
    /\ script = "running"
    /\ trial' = [trial EXCEPT ![t] = r]
    /\ UNCHANGED <<script, proxy, status, archive, snapshot, localVars, loop, faults>>

\* The task gets a place, its directory and a first result.json.
StartTrial(t) ==
    /\ trial[t].at = "queued"
    /\ Cardinality(ActiveTrials) < Concurrency
    /\ MoveTrial(t, [trial[t] EXCEPT !.at = "setup"])

\* The container starts, the instruction is copied and the harness set up, or one of them fails.
SetUp(t) ==
    /\ trial[t].at = "setup"
    /\ \/ MoveTrial(t, [trial[t] EXCEPT !.at = "agent"])
       \/ \E e \in {"setup", "infra"} : MoveTrial(t, [trial[t] EXCEPT !.at = "verify", !.error = e])

\* Whatever the agent did, its metrics, its trajectory and the artifacts are gathered, which may
\* fail.  The time-out of an exec kills the container.
RunAgent(t) ==
    /\ trial[t].at = "agent"
    /\ \E a \in {"ok", "exit", "gateway", "timeout", "broken"}, gathered \in BOOLEAN :
        MoveTrial(t, [trial[t] EXCEPT !.at = "verify", !.agent = a,
                                      !.error = IF gathered THEN "none" ELSE "infra"])

\* What the verifier comes to: in a killed container it does not run and leaves no reward, and
\* after an error it is not reached.
Verified(r) ==
    CASE r.error # "none" -> {r}
      [] r.error = "none" /\ r.agent = "timeout" -> {[r EXCEPT !.error = "verifier"]}
      [] OTHER -> {[r EXCEPT !.judged = TRUE]} \cup {[r EXCEPT !.error = e] : e \in {"verifier", "infra"}}

\* Then the container is removed; a failure to do so counts when nothing failed before.  What
\* the outcome was made from is not looked at again.
FinishTrial(t) ==
    /\ trial[t].at = "verify"
    /\ \E r \in Verified(trial[t]), removed \in BOOLEAN :
        LET over == [r EXCEPT !.at = "over", !.error = IF ~removed /\ @ = "none" THEN "infra" ELSE @]
        IN  MoveTrial(t, [Waiting EXCEPT !.at = "over", !.judged = r.judged, !.kind = Outcome(over)])

-----------------------------------------------------------------------------
\* remote_run.sh: proxy, job, final archive, and the trap.
Absent == [state |-> "absent", results |-> {}, finished |-> {}]
Pack == [state |-> "whole", results |-> WithResult, finished |-> Finished]
Log == [state |-> "whole", results |-> {}, finished |-> {}]

Accepted ==
    LET invalid == {t \in Trials : trial[t].kind \in {"harness_error", "infra_error", "verifier_error"}}
    IN  Finished = Trials /\ Cardinality(invalid) < Cardinality(Trials)

RemoteStep(from, to, rc) ==
    /\ script = from
    /\ script' = to
    /\ status' = rc
    /\ UNCHANGED <<trial, snapshot, localVars, loop>>

ProxyUp ==
    /\ RemoteStep("setup", "running", status)
    /\ proxy' = TRUE
    /\ UNCHANGED <<archive, faults>>

\* The script leaves early: before it starts the proxy, because the proxy exited, or with one that
\* does not answer.
SetupFails ==
    /\ RemoteStep("setup", "failing", status)
    /\ proxy' \in BOOLEAN
    /\ UNCHANGED <<archive, faults>>

FinishJob ==
    /\ Finished = Trials
    /\ RemoteStep("running", "archiving", IF Accepted THEN 0 ELSE 2)
    /\ UNCHANGED <<proxy, archive, faults>>

\* The job dies with its trials where they are.
JobDies == Fault /\ RemoteStep("running", "archiving", 1) /\ UNCHANGED <<proxy, archive>>

ProxyDies ==
    /\ Fault
    /\ script \in {"running", "archiving"} /\ proxy
    /\ proxy' = FALSE
    /\ UNCHANGED <<trial, script, status, archive, snapshot, localVars, loop>>

\* The script ends with the job's status.
PackFinal ==
    /\ RemoteStep("archiving", IF status = 0 THEN "exiting" ELSE "failing", status)
    /\ archive' = Pack
    /\ UNCHANGED <<proxy, faults>>

\* tar fails, say because a log grew under it: the archive stays root's and cannot be read.
PackFails == Fault /\ RemoteStep("archiving", "failing", status) /\ UNCHANGED <<proxy, archive>>

\* The trap stops the proxy first. If there is none to stop, stop_proxy returns the status the
\* script was left with, and under `set -e` a failure ends the trap there.
Trap ==
    /\ script \in {"exiting", "failing"}
    /\ RemoteStep(script, IF script = "failing" /\ ~proxy THEN "dead" ELSE "done", status)
    /\ proxy' = FALSE
    /\ UNCHANGED <<archive, faults>>

-----------------------------------------------------------------------------
\* The names of the files at home.
Checkpoint(n) == <<"checkpoint", n>>
FinalFiles == <<<<"final", 0>>, <<"stdout", 0>>, <<"stderr", 0>>>>
\* After a crash a loop numbers one checkpoint more than there are trials, at most.
MaxSequence == MaxTimely + (MaxFaults + 1) * (Cardinality(Trials) + 1)
Names == {Checkpoint(n) : n \in 1..MaxSequence} \cup {FinalFiles[i] : i \in DOMAIN FinalFiles}
Exists(name) == files[name].state # "absent"

\* next_checkpoint_sequence.
NextSequence == Max({0} \cup {n \in 1..MaxSequence : Exists(Checkpoint(n))}) + 1

Off == [pc |-> "off", sequence |-> 1, archived |-> 0, completed |-> 0, pulled |-> FALSE,
        failures |-> 0, seenFiles |-> 0, seenCompleted |-> 0, seenDone |-> FALSE,
        purpose |-> "none", copying |-> <<>>, staged |-> <<>>, code |-> 0, how |-> "none"]

Loop(pc) == loop' = [loop EXCEPT !.pc = pc]
Return(code, how) == loop' = [loop EXCEPT !.pc = "ended", !.code = code, !.how = how]
LocalStep == UNCHANGED <<remoteVars, snapshot, localVars>>

StartLoop ==
    /\ loop.pc = "off"
    /\ loop' = [Off EXCEPT !.pc = "poll", !.sequence = NextSequence]
    /\ LocalStep /\ UNCHANGED faults

CrashLoop ==
    /\ loop.pc \notin {"off", "ended"}
    /\ Fault
    /\ loop' = Off
    /\ LocalStep

\* What to do after a look, and after the checkpoint that was due.
Closing(l) == IF ~l.seenDone THEN "poll"
              ELSE IF l.seenFiles # l.archived /\ l.seenFiles # 0 THEN "last" ELSE "final"

ReadState ==
    LET seen == [loop EXCEPT !.failures = 0, !.seenFiles = Cardinality(WithResult),
                             !.seenCompleted = Cardinality(Finished), !.seenDone = script = "done"]
        first == ~loop.pulled \/ seen.seenCompleted - loop.completed >= Increment
    IN
    /\ loop.pc = "poll"
    /\ \E due \in {first} \cup (IF loop.sequence <= MaxTimely THEN {TRUE} ELSE {}) :
        loop' = [seen EXCEPT !.pc = IF due /\ seen.seenCompleted >= 1 THEN "due" ELSE Closing(seen)]
    /\ LocalStep /\ UNCHANGED faults

ReadFails ==
    /\ loop.pc = "poll"
    /\ Fault
    /\ IF loop.failures + 1 >= MaxSshFailures
       THEN Return(75, "lease_lost")
       ELSE loop' = [loop EXCEPT !.failures = @ + 1]
    /\ LocalStep

-----------------------------------------------------------------------------
\* Pulls: a checkpoint when it is due, the last one after the run, the final files, and a
\* checkpoint for the diagnosis when those do not come.

\* Nothing is pulled for the diagnosis.
PullFailedForGood ==
    CASE loop.purpose = "due" -> Loop(Closing(loop))
      [] loop.purpose = "last" -> Loop("final")
      [] OTHER -> Return(75, "final_error")

\* What cannot be had is asked for again.
PullFailedAgain ==
    IF loop.purpose = "due" THEN Loop(Closing(loop)) ELSE Loop("final")

PullFailed ==
    CASE loop.purpose = "due" -> Loop(Closing(loop))
      [] loop.purpose = "last" -> Loop("final")
      [] loop.purpose = "final" -> Loop("diagnostic")
      [] OTHER -> Return(75, "final_error")

\* The copy goes to the final name at once.
StagedInPlace(name) == files' = [files EXCEPT ![name].state = "torn"] /\ UNCHANGED partial

\* An older partial file is removed, and the copy is written under .partial.
Staged(name) == partial' = [partial EXCEPT ![name] = [Absent EXCEPT !.state = "torn"]] /\ UNCHANGED files

BeginCopy(names, purpose) ==
    LET l == [loop EXCEPT !.purpose = purpose, !.copying = names, !.staged = names]
    IN  IF \E i \in DOMAIN names : Exists(names[i])
        THEN /\ loop' = [loop EXCEPT !.pc = "failed", !.purpose = purpose]
             /\ UNCHANGED localVars
        ELSE /\ loop' = [l EXCEPT !.pc = "copy"]
             /\ Staged(names[1])

\* remote_checkpoint.sh packs what is there, and the copy begins.
PullCheckpoint ==
    /\ loop.pc \in {"due", "last", "diagnostic"}
    /\ snapshot' = Pack
    /\ BeginCopy(<<Checkpoint(loop.sequence)>>, loop.pc)
    /\ UNCHANGED <<remoteVars, faults>>

PackingFails ==
    /\ loop.pc \in {"due", "last", "diagnostic"}
    /\ Fault
    /\ loop' = [loop EXCEPT !.pc = "failed", !.purpose = loop.pc]
    /\ LocalStep

PullFinal ==
    /\ loop.pc = "final"
    /\ BeginCopy(FinalFiles, "final")
    /\ UNCHANGED <<remoteVars, snapshot, faults>>

SourceOf(name) == CASE name[1] = "checkpoint" -> snapshot
                    [] name = FinalFiles[1] -> archive
                    [] OTHER -> Log

\* The copy is there; the next one begins, or the archive is read through and counted.
FinishCopy ==
    LET name == Head(loop.copying)
        rest == Tail(loop.copying)
    IN
    /\ loop.pc = "copy"
    /\ SourceOf(name).state = "whole"
    /\ partial' = [n \in Names |-> CASE n = name -> SourceOf(name)
                                     [] rest # <<>> /\ n = Head(rest) -> [Absent EXCEPT !.state = "torn"]
                                     [] OTHER -> partial[n]]
    /\ loop' = [loop EXCEPT !.copying = rest, !.pc = IF rest = <<>> THEN "publish" ELSE "copy"]
    /\ UNCHANGED <<remoteVars, snapshot, files, faults>>

CopyFails ==
    /\ loop.pc = "copy"
    /\ SourceOf(Head(loop.copying)).state = "whole" => faults < MaxFaults
    /\ faults' = IF SourceOf(Head(loop.copying)).state = "whole" THEN faults + 1 ELSE faults
    /\ Loop("failed")
    /\ LocalStep

AfterFailure ==
    /\ loop.pc = "failed"
    /\ PullFailed
    /\ LocalStep /\ UNCHANGED faults

\* publish_partial, file by file.
Publish ==
    LET name == Head(loop.staged) IN
    /\ loop.pc = "publish"
    /\ loop.staged # <<>>
    /\ files' = [files EXCEPT ![name] = partial[name]]
    /\ partial' = [partial EXCEPT ![name] = Absent]
    /\ loop' = [loop EXCEPT !.staged = Tail(@)]
    /\ UNCHANGED <<remoteVars, snapshot, faults>>

PullDone ==
    LET count == Cardinality(snapshot.results)
        counted == [loop EXCEPT !.archived = count]
        timed == [counted EXCEPT !.completed = loop.seenCompleted, !.pulled = TRUE, !.sequence = @ + 1]
    IN
    /\ loop.pc = "publish"
    /\ loop.staged = <<>>
    /\ CASE loop.purpose = "due" -> loop' = [timed EXCEPT !.pc = Closing(timed)]
         [] loop.purpose = "last" -> loop' = [counted EXCEPT !.pc = "final"]
         [] loop.purpose = "final" ->
                Return(IF status # 0 THEN status
                       ELSE IF files[FinalFiles[1]].results # {} THEN 0 ELSE 1, "final")
         [] OTHER -> Return(75, "final_error")
    /\ LocalStep /\ UNCHANGED faults

-----------------------------------------------------------------------------
Init ==
    /\ trial = [t \in Trials |-> Waiting]
    /\ script = "setup" /\ proxy = FALSE /\ status = 1
    /\ archive = Absent /\ snapshot = Absent
    /\ files = [n \in Names |-> Absent] /\ partial = [n \in Names |-> Absent]
    /\ loop = Off
    /\ faults = 0

TrialStep == \E t \in Trials :
    StartTrial(t) \/ SetUp(t) \/ RunAgent(t) \/ FinishTrial(t)
ScriptStep == ProxyUp \/ SetupFails \/ FinishJob \/ PackFinal \/ Trap
LoopStep == \/ StartLoop \/ ReadState \/ PullCheckpoint \/ PullFinal \/ FinishCopy
            \/ AfterFailure \/ Publish \/ PullDone
FaultStep == JobDies \/ ProxyDies \/ PackFails \/ CrashLoop \/ ReadFails \/ PackingFails \/ CopyFails

Next == TrialStep \/ ScriptStep \/ LoopStep \/ FaultStep

\* Trials have time-outs, the script ends by itself, the fleet starts the loop again, and a
\* copy ends or fails.
Fairness ==
    /\ WF_vars(TrialStep) /\ WF_vars(ScriptStep) /\ WF_vars(LoopStep)
    /\ WF_vars(CopyFails)

Spec == Init /\ [][Next]_vars /\ Fairness

-----------------------------------------------------------------------------
\* A run reported as a success was judged: the loop ends with 0 only when the final archive and
\* both logs are here, hold a finished result of every task, and some trial has a reward.
\* From run_trial's outcome over the job's acceptance and the script's status to the loop's code.
SuccessWasJudged ==
    loop.pc = "ended" /\ loop.code = 0 =>
        /\ \A i \in DOMAIN FinalFiles : files[FinalFiles[i]].state = "whole"
        /\ files[FinalFiles[1]].finished = Trials
        /\ \E t \in Trials : trial[t].judged

\* When the loop followed the run to its end, every finished result is in a file at home,
\* even if one thing went wrong: a copy, an archive, the job or the loop itself.
ResultsComeHome ==
    loop.pc = "ended" /\ loop.how # "lease_lost" /\ faults <= 1 =>
        Finished = UNION {files[n].finished : n \in Names}

\* What lies under a final name is a whole file and stays what it is, whatever copy broke off
\* and however often the loop was started again.
ArchivesAreWholeAndKept ==
    [][\A n \in Names :
        /\ files'[n].state \in {"absent", "whole"}
        /\ Exists(n) => files'[n] = files[n]]_vars

\* The loop comes to an end, however the run ends, if the script says that it has: one that dies
\* in its trap leaves no "done", and the loop polls on.
LoopEnds == <>(loop.pc = "ended" \/ script = "dead")
=============================================================================
