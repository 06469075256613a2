--------------------------- MODULE NativeRunProofs ---------------------------
(***************************************************************************)
(* What one run of the native evaluation and its checkpoint loop keep, for  *)
(* every suite, every number of trials at a time, every increment and any   *)
(* number of faults.                                                        *)
(*                                                                         *)
(* The properties are not inductive.  That a success was judged rests on    *)
(* what the script's status says of the trials (MachineInv), what lies at   *)
(* home of the archive (FilesInv), which files of a pull are copied and     *)
(* which are published when (CopyInv), and what the loop knows when it goes *)
(* from one place to the next (PhaseInv).  That results come home also      *)
(* needs a count of the faults that each bad turn costs (FaultInv), and that*)
(* a checkpoint never meets an older one of its number, which is why the    *)
(* numbers are part of it (NumberInv): they show as well that MaxSequence,  *)
(* the last number the model has a name for, is never passed.               *)
(***************************************************************************)
EXTENDS NativeRun, FiniteSetTheorems, TLAPS

\* Archives, here and on the machine.
Packs == [state : {"absent", "torn", "whole"}, results : SUBSET Trials, finished : SUBSET Trials]
\* The record of a trial.
Records == [at : {"queued", "setup", "agent", "verify", "over"},
            agent : {"none", "ok", "exit", "gateway", "timeout", "broken"},
            error : {"none", "setup", "infra", "verifier"}, judged : BOOLEAN,
            kind : {"pending", "clean", "harness_error", "agent_error", "verifier_error", "infra_error"}]
\* Where the loop is, and what it pulls.
LoopPlaces == {"off", "poll", "due", "last", "final", "diagnostic", "copy", "failed", "publish", "ended"}
Purposes == {"none", "due", "last", "final", "diagnostic"}
\* What is left of the final files as they are copied and published one by one.
Log2 == <<FinalFiles[3]>>
Logs == <<FinalFiles[2], FinalFiles[3]>>
Lists == {<<>>, FinalFiles, Logs, Log2} \cup {<<Checkpoint(n)>> : n \in Nat}
\* The local variables of run_loop.
Loops == [pc : LoopPlaces, sequence : Nat, archived : Nat, completed : Nat, pulled : BOOLEAN,
          failures : Nat, seenFiles : Nat, seenCompleted : Nat, seenDone : BOOLEAN,
          purpose : Purposes, copying : Lists, staged : Lists, code : {0, 1, 2, 75},
          how : {"none", "lease_lost", "final", "final_error"}]

\* Where the script is once the job and its archive are behind it.
Over == {"exiting", "failing", "done", "dead"}

\* What the variables hold. On the proxy no safety property rests.
TypeOK ==
    /\ trial \in [Trials -> Records]
    /\ script \in {"setup", "running", "archiving"} \cup Over
    /\ status \in {0, 1, 2}
    /\ archive \in Packs /\ snapshot \in Packs
    /\ files \in [Names -> Packs] /\ partial \in [Names -> Packs]
    /\ loop \in Loops
    /\ faults \in 0..MaxFaults

\* One file at home has every finished result.
Home == \E n \in Names : files[n].finished = Finished

\* A trial is diagnosed when it is over, and has its reward by then.
TrialInv ==
    \A t \in Trials :
        /\ trial[t].at \in {"queued", "setup", "agent"} => trial[t].error = "none"
        /\ trial[t].kind \in {"clean", "agent_error"} => trial[t].at = "over" /\ trial[t].judged
        /\ trial[t].at = "over" => trial[t].kind # "pending"

\* The status and the archive say what became of the trials (run_job.py, remote_run.sh).
MachineInv ==
    /\ script = "setup" => \A t \in Trials : trial[t].at = "queued"
    /\ status = 0 => /\ script \notin {"setup", "running"}
                     /\ Finished = Trials
                     /\ \E t \in Trials : trial[t].judged
    /\ archive.state # "absent" =>
          archive.state = "whole" /\ script \in Over /\ archive.finished = Finished
    /\ archive.state = "absent" /\ script \in Over => faults >= 1 \/ Finished = {}
    /\ snapshot.finished \subseteq Finished

\* Files at home are whole, the first final file is the archive, and the logs come after it.
FilesInv ==
    /\ \A n \in Names :
          /\ files[n] = Absent \/ files[n].state = "whole"
          /\ files[n].finished \subseteq Finished
          /\ partial[n].finished \subseteq Finished
    /\ Exists(FinalFiles[1]) => files[FinalFiles[1]] = archive
    /\ Exists(FinalFiles[2]) \/ Exists(FinalFiles[3]) => Exists(FinalFiles[1])
    /\ partial[FinalFiles[1]].state = "whole" => partial[FinalFiles[1]] = archive

\* What the loop copies or publishes at the moment, and under which name.
Doing(purposes) == loop.pc \in {"copy", "publish"} /\ loop.purpose \in purposes
ForCheckpoint == {"due", "last", "diagnostic"}
This == Checkpoint(loop.sequence)
AtHome(name) == files[name].state = "whole"
Ready(name) == partial[name].state = "whole" /\ files[name] = Absent

\* What is copied has no file of its name here; what is published was copied whole.
CopyInv ==
    /\ loop.pc = "copy" =>
          \/ /\ loop.purpose \in ForCheckpoint
             /\ loop.copying = <<This>> /\ loop.staged = <<This>> /\ ~Exists(This)
             /\ snapshot.state = "whole"
          \/ /\ loop.purpose = "final" /\ loop.staged = FinalFiles
             /\ loop.copying \in {FinalFiles, Logs, Log2}
             /\ loop.copying # FinalFiles => Ready(FinalFiles[1])
             /\ loop.copying = Log2 => Ready(FinalFiles[2])
             /\ \A i \in 1..3 : ~Exists(FinalFiles[i])
    /\ loop.pc = "publish" =>
          \/ /\ loop.purpose \in ForCheckpoint
             /\ snapshot.state = "whole"
             /\ \/ (loop.staged = <<This>> /\ partial[This] = snapshot /\ ~Exists(This))
                \/ (loop.staged = <<>> /\ files[This] = snapshot)
          \/ /\ loop.purpose = "final"
             /\ loop.staged \in {FinalFiles, Logs, Log2, <<>>}
             /\ IF loop.staged = FinalFiles THEN Ready(FinalFiles[1]) ELSE AtHome(FinalFiles[1])
             /\ IF loop.staged \in {FinalFiles, Logs} THEN Ready(FinalFiles[2]) ELSE AtHome(FinalFiles[2])
             /\ IF loop.staged # <<>> THEN Ready(FinalFiles[3]) ELSE AtHome(FinalFiles[3])

\* The loop is past its last checkpoint.
Closed ==
    \/ loop.pc \in {"final", "diagnostic"}
    \/ loop.pc \in {"copy", "publish", "failed"} /\ loop.purpose \in {"final", "diagnostic"}

\* The loop closes only a run that is done, and its last checkpoint has all of its results.
PhaseInv ==
    /\ loop.seenDone => script = "done"
    /\ Closed \/ loop.pc = "last" \/ (loop.pc = "ended" /\ loop.how \in {"final", "final_error"}) => loop.seenDone
    /\ loop.pc \in {"copy", "publish", "failed"} => loop.purpose # "none"
    /\ loop.pc \in {"copy", "publish", "failed"} /\ loop.purpose = "last" => loop.seenDone
    /\ Doing({"last", "diagnostic"}) => snapshot.finished = Finished

\* Where the numbers of checkpoints begin for a loop that was started after f faults.
First(f) == MaxTimely + 1 + f * (Cardinality(Trials) + 1)
\* What the numbers have grown by since.
Pulled == IF loop.pulled THEN loop.completed ELSE 0
\* Numbers grow with the results that were seen, and no file here has one the loop has yet to use.
NumberInv ==
    /\ loop.pc = "off" => loop = Off /\ \A n \in 1..MaxSequence : Exists(Checkpoint(n)) => n < First(faults)
    /\ loop.pc \notin {"off", "ended"} =>
          /\ loop.sequence \in 1..MaxSequence
          /\ loop.sequence <= First(faults) + Pulled
          /\ \A n \in 1..MaxSequence : Exists(Checkpoint(n)) =>
               \/ n < loop.sequence
               \/ n = loop.sequence /\ Doing(ForCheckpoint) /\ loop.staged = <<>>
               \/ n = loop.sequence /\ Closed /\ files[This].finished = Finished
    /\ loop.completed <= loop.seenCompleted /\ loop.seenCompleted <= Cardinality(Finished)
    /\ loop.pc = "due" \/ Doing({"due"}) => loop.sequence + 1 <= First(faults) + loop.seenCompleted

\* Every turn that may leave results behind costs a fault.
FaultInv ==
    /\ loop.pc = "diagnostic" \/ Doing({"diagnostic"}) \/ (loop.pc = "failed" /\ loop.purpose = "final")
          => Home \/ faults >= 1
    /\ (loop.pc = "failed" /\ loop.purpose = "diagnostic") \/ (loop.pc = "ended" /\ loop.how = "final_error")
          => Home \/ faults >= 2
    /\ loop.pc = "ended" => loop.how \in {"lease_lost", "final", "final_error"}
    /\ loop.pc = "ended" /\ loop.how = "final" => Home
    /\ loop.pc = "ended" /\ loop.code = 0 =>
          loop.how = "final" /\ status = 0 /\ \A i \in 1..3 : AtHome(FinalFiles[i])

\* All of it.
Inv == TypeOK /\ TrialInv /\ MachineInv /\ FilesInv /\ CopyInv /\ PhaseInv /\ NumberInv /\ FaultInv

-----------------------------------------------------------------------------
\* The names of the files at home, and the lists of those that are pulled together.
LEMMA NameFacts ==
  /\ \A i \in 1..3 : FinalFiles[i] \in Names
  /\ \A n \in 1..MaxSequence : Checkpoint(n) \in Names
  /\ \A m, n : Checkpoint(m) = Checkpoint(n) => m = n
  /\ \A n : Checkpoint(n) \notin {FinalFiles[1], FinalFiles[2], FinalFiles[3]}
  /\ FinalFiles[1] # FinalFiles[2] /\ FinalFiles[1] # FinalFiles[3] /\ FinalFiles[2] # FinalFiles[3]
  <1>1. DOMAIN FinalFiles = 1..3
    BY DEF FinalFiles
  <1>2. /\ FinalFiles[1] = <<"final", 0>> /\ FinalFiles[2] = <<"stdout", 0>>
        /\ FinalFiles[3] = <<"stderr", 0>>
    BY DEF FinalFiles
  <1>3. QED
    BY <1>1, <1>2 DEF Names, Checkpoint

\* The lists of final files, as they get shorter.
LEMMA ListFacts ==
  /\ DOMAIN FinalFiles = 1..3
  /\ FinalFiles # Logs /\ FinalFiles # Log2 /\ Logs # Log2
  /\ FinalFiles # <<>> /\ Logs # <<>> /\ Log2 # <<>>
  /\ Head(FinalFiles) = FinalFiles[1] /\ Head(Logs) = FinalFiles[2] /\ Head(Log2) = FinalFiles[3]
  /\ Tail(FinalFiles) = Logs /\ Tail(Logs) = Log2 /\ Tail(Log2) = <<>>
  <1>1. DOMAIN FinalFiles = 1..3
    BY DEF FinalFiles
  <1>2. Len(FinalFiles) = 3 /\ Len(Logs) = 2 /\ Len(Log2) = 1
    BY DEF FinalFiles, Logs, Log2
  <1>3. Head(FinalFiles) = FinalFiles[1] /\ Head(Logs) = FinalFiles[2] /\ Head(Log2) = FinalFiles[3]
    BY DEF FinalFiles, Logs, Log2
  <1>4. Tail(FinalFiles) = Logs
    BY DEF FinalFiles, Logs
  <1>5. Tail(Logs) = Log2 /\ Tail(Log2) = <<>>
    BY DEF Logs, Log2
  <1>6. FinalFiles # Logs /\ FinalFiles # Log2 /\ Logs # Log2
    BY <1>2
  <1>7. FinalFiles # <<>> /\ Logs # <<>> /\ Log2 # <<>>
    BY <1>2
  <1>8. QED
    BY <1>1, <1>3, <1>4, <1>5, <1>6, <1>7

\* The list of one checkpoint.
LEMMA OneFacts ==
  ASSUME NEW n
  PROVE  /\ Head(<<Checkpoint(n)>>) = Checkpoint(n) /\ Tail(<<Checkpoint(n)>>) = <<>>
         /\ <<Checkpoint(n)>> # <<>> /\ DOMAIN <<Checkpoint(n)>> = {1} /\ <<Checkpoint(n)>>[1] = Checkpoint(n)
         /\ <<Checkpoint(n)>> \notin {FinalFiles, Logs, Log2}
  <1>1. /\ Head(<<Checkpoint(n)>>) = Checkpoint(n) /\ Tail(<<Checkpoint(n)>>) = <<>>
        /\ <<Checkpoint(n)>> # <<>> /\ DOMAIN <<Checkpoint(n)>> = {1} /\ <<Checkpoint(n)>>[1] = Checkpoint(n)
    OBVIOUS
  <1>2. <<Checkpoint(n)>> \notin {FinalFiles, Logs, Log2}
    BY <1>1, NameFacts, ListFacts
  <1>3. QED
    BY <1>1, <1>2

\* Where a file is copied from.
LEMMA SourceFacts ==
  /\ \A n : SourceOf(Checkpoint(n)) = snapshot
  /\ SourceOf(FinalFiles[1]) = archive /\ SourceOf(FinalFiles[2]) = Log /\ SourceOf(FinalFiles[3]) = Log
  <1>1. /\ FinalFiles[1] = <<"final", 0>> /\ FinalFiles[2] = <<"stdout", 0>>
        /\ FinalFiles[3] = <<"stderr", 0>>
    BY DEF FinalFiles
  <1>2. \A n : Checkpoint(n)[1] = "checkpoint"
    BY DEF Checkpoint
  <1>3. \A i \in 1..3 : FinalFiles[i][1] # "checkpoint"
    BY <1>1
  <1>4. QED
    BY <1>1, <1>2, <1>3, NameFacts DEF SourceOf

-----------------------------------------------------------------------------
\* A set of numbers up to N has a maximum.
LEMMA MaxOfBounded ==
  ASSUME NEW N \in Nat, NEW S, S \subseteq 0..N, S # {}
  PROVE  Max(S) \in S /\ \A x \in S : x <= Max(S)
  <1> DEFINE T == {N - x : x \in S}
  <1>1. T \subseteq Nat /\ T # {}
    <2>1. \A x \in S : N - x \in Nat
      OBVIOUS
    <2>2. PICK x \in S : TRUE
      OBVIOUS
    <2>3. N - x \in T
      OBVIOUS
    <2>4. QED
      BY <2>1, <2>3
  <1>2. PICK t \in T : \A u \in T : ~(<<u, t>> \in OpToRel(<, Nat))
    BY <1>1, WFMin, NatLessThanWellFounded
  <1>3. PICK x \in S : t = N - x
    OBVIOUS
  <1>4. \A y \in S : x >= y
    <2> SUFFICES ASSUME NEW y \in S PROVE x >= y
      OBVIOUS
    <2>1. N - y \in T /\ N - y \in Nat /\ t \in Nat
      BY <1>1
    <2>2. ~(N - y < t)
      BY <1>2, <2>1 DEF OpToRel
    <2>3. QED
      BY <1>3, <2>2
  <1>5. QED
    BY <1>4 DEF Max

\* The finished trials are finitely many, and no more than there are.
LEMMA CardFacts ==
  /\ IsFiniteSet(Finished) /\ Cardinality(Finished) \in Nat
  /\ Cardinality(Finished) <= Cardinality(Trials) /\ Cardinality(Trials) \in Nat
  /\ \A S \in SUBSET Trials : Cardinality(S) \in Nat
  <1>1. IsFiniteSet(Trials) /\ Finished \subseteq Trials
    BY TrialsAssumption DEF Finished
  <1>2. QED
    BY <1>1, FS_Subset, FS_CardinalityType

\* Where the numbers of a loop begin that was started after f faults.
LEMMA FirstFacts ==
  /\ \A f \in Nat : /\ First(f) \in Nat \ {0} /\ MaxTimely + 1 <= First(f)
                    /\ First(f) + Cardinality(Trials) + 1 = First(f + 1)
  /\ \A f, g \in Nat : f <= g => First(f) <= First(g)
  /\ MaxSequence \in Nat
  /\ \A f \in 0..MaxFaults : First(f) + Cardinality(Trials) <= MaxSequence
  <1> DEFINE C == Cardinality(Trials) + 1
  <1>1. C \in Nat /\ MaxTimely \in Nat /\ MaxFaults \in Nat
    BY CardFacts, BoundsAssumption
  <1>2. \A f \in Nat : First(f) = MaxTimely + 1 + f * C /\ C = Cardinality(Trials) + 1
    BY DEF First
  <1>3. MaxSequence = MaxTimely + (MaxFaults + 1) * C
    BY DEF MaxSequence
  <1>4. Cardinality(Trials) \in Nat
    BY CardFacts
  <1> HIDE DEF C
  <1>5. \A f \in Nat : f * C \in Nat /\ (f + 1) * C = f * C + C
    BY <1>1
  <1>6. \A f \in 0..MaxFaults : (f + 1) * C <= (MaxFaults + 1) * C
    BY <1>1
  <1>7. ASSUME NEW f \in Nat
        PROVE  /\ First(f) \in Nat \ {0} /\ MaxTimely + 1 <= First(f)
               /\ First(f) + Cardinality(Trials) + 1 = First(f + 1)
    BY <1>1, <1>2, <1>4, <1>5
  <1>8. ASSUME NEW f \in 0..MaxFaults
        PROVE  First(f) + Cardinality(Trials) <= MaxSequence
    <2>1. f \in Nat /\ (f + 1) * C \in Nat /\ (MaxFaults + 1) * C \in Nat
      BY <1>1, <1>5
    <2>2. First(f) + Cardinality(Trials) = MaxTimely + (f + 1) * C
      BY <1>1, <1>2, <1>4, <1>5, <2>1
    <2>3. QED
      BY <1>1, <1>3, <1>6, <2>1, <2>2
  <1>9. ASSUME NEW f \in Nat, NEW g \in Nat, f <= g PROVE First(f) <= First(g)
    <2>1. f * C <= g * C /\ f * C \in Nat /\ g * C \in Nat
      BY <1>1, <1>9
    <2>2. QED
      BY <1>1, <1>2, <2>1
  <1>10. MaxSequence \in Nat
    BY <1>1, <1>3, <1>5
  <1>11. QED
    BY <1>7, <1>8, <1>9, <1>10

-----------------------------------------------------------------------------
\* The machine.  Results only become more, and only while the job runs.
LEMMA FilesFrame ==
  ASSUME FilesInv, Finished \subseteq Finished', UNCHANGED <<files, partial, archive>>
  PROVE  FilesInv'
  BY DEF FilesInv, Exists

\* What the machine keeps does not depend on the loop.
LEMMA MachineFrame ==
  ASSUME MachineInv, UNCHANGED <<trial, script, status, archive, snapshot>>, faults \in Nat, faults' \in Nat,
         faults <= faults'
  PROVE  MachineInv' /\ Finished' = Finished /\ WithResult' = WithResult
  BY DEF MachineInv, Finished, WithResult

\* Before the script is done the loop has nothing to close, and reads only that results become more.
LEMMA LoopFrame ==
  ASSUME Inv, ~loop.seenDone, UNCHANGED <<snapshot, localVars, loop>>, Finished \subseteq Finished',
         faults' \in Nat, faults <= faults', Finished' \in SUBSET Trials
  PROVE  CopyInv' /\ PhaseInv' /\ NumberInv' /\ FaultInv'
  <1>1. CopyInv'
    BY DEF Inv, CopyInv, This, Exists, Ready, AtHome, localVars
  <1>2. ~Closed /\ ~Closed' /\ loop.pc # "last" /\ ~(loop.pc = "ended" /\ loop.how \in {"final", "final_error"})
    BY DEF Inv, PhaseInv, Closed
  <1>3. ~Doing({"last", "diagnostic"})
    BY <1>2 DEF Inv, PhaseInv, Doing, Closed
  <1>4. PhaseInv'
    BY <1>2, <1>3 DEF Inv, PhaseInv, Closed, Doing
  <1>5. NumberInv'
    <2>1. Cardinality(Finished) <= Cardinality(Finished') /\ Cardinality(Finished') \in Nat
          /\ Cardinality(Finished) \in Nat
      BY CardFacts, FS_Subset, TrialsAssumption, FS_CardinalityType
    <2>2. First(faults) <= First(faults') /\ First(faults) \in Nat /\ First(faults') \in Nat
      BY FirstFacts DEF Inv, TypeOK
    <2>3. First(faults)' = First(faults')
      BY DEF First
    <2>4. /\ loop.seenCompleted \in Nat /\ loop.completed \in Nat /\ loop.sequence \in Nat
          /\ Pulled \in Nat /\ Pulled' = Pulled
      BY DEF Inv, TypeOK, Loops, Pulled
    <2>5. UNCHANGED <<loop, files>> /\ NumberInv
      BY DEF localVars, Inv
    <2>6. \A n \in 1..MaxSequence : Exists(Checkpoint(n))' = Exists(Checkpoint(n))
      BY <2>5 DEF Exists
    <2>7. loop.pc = "off" => loop' = Off /\ \A n \in 1..MaxSequence : Exists(Checkpoint(n))' => n < First(faults')
      BY <2>2, <2>5, <2>6 DEF NumberInv
    <2>8. loop.seenCompleted <= Cardinality(Finished') /\ loop.completed <= loop.seenCompleted
      BY <2>1, <2>4, <2>5 DEF NumberInv
    <2>9. loop.pc = "due" \/ Doing({"due"}) => loop.sequence + 1 <= First(faults') + loop.seenCompleted
      BY <2>2, <2>4, <2>5 DEF NumberInv
    <2>10. loop.pc \notin {"off", "ended"} =>
              /\ loop.sequence \in 1..MaxSequence /\ loop.sequence <= First(faults') + Pulled
              /\ \A n \in 1..MaxSequence : Exists(Checkpoint(n)) =>
                   \/ n < loop.sequence
                   \/ n = loop.sequence /\ Doing(ForCheckpoint) /\ loop.staged = <<>>
      BY <1>2, <2>2, <2>4, <2>5 DEF NumberInv
    <2>11. QED
      BY <2>3, <2>4, <2>5, <2>6, <2>7, <2>8, <2>9, <2>10 DEF NumberInv, Doing
  <1>6. FaultInv'
    BY <1>2, <1>3 DEF Inv, FaultInv, Closed, Doing, PhaseInv, AtHome, localVars
  <1>7. QED
    BY <1>1, <1>4, <1>5, <1>6

\* A trial takes a step while the job runs.
LEMMA MoveTrialStep ==
  ASSUME Inv, NEW t \in Trials, NEW r \in Records, trial[t].at # "over", MoveTrial(t, r), r.at # "queued",
         r.at \in {"setup", "agent"} => r.error = "none",
         r.kind \in {"clean", "agent_error"} => r.at = "over" /\ r.judged,
         r.at = "over" => r.kind # "pending"
  PROVE  Inv'
  <1>1. /\ script = "running" /\ trial' = [trial EXCEPT ![t] = r]
        /\ UNCHANGED <<script, status, archive, snapshot, files, partial, loop, faults>>
    BY DEF MoveTrial, localVars
  <1>2. TypeOK'
    BY <1>1 DEF Inv, TypeOK
  <1>3. trial'[t] = r /\ \A u \in Trials \ {t} : trial'[u] = trial[u]
    BY <1>1 DEF Inv, TypeOK
  <1>4. TrialInv'
    BY <1>3 DEF Inv, TrialInv
  <1>5. Finished \subseteq Finished' /\ Finished' \in SUBSET Trials
    BY <1>3 DEF Finished
  <1>6. ~loop.seenDone
    BY <1>1 DEF Inv, PhaseInv
  <1>7. archive.state = "absent" /\ status # 0
    BY <1>1 DEF Inv, MachineInv, Over
  <1>8. MachineInv'
    BY <1>1, <1>5, <1>7 DEF Inv, MachineInv, Over
  <1>9. FilesInv'
    BY <1>1, <1>5, FilesFrame DEF Inv
  <1>10. faults \in Nat
    BY DEF Inv, TypeOK
  <1>11. QED
    BY <1>1, <1>2, <1>4, <1>5, <1>6, <1>8, <1>9, <1>10, LoopFrame DEF Inv, localVars

\* A record a trial may have.
LEMMA RecordFacts ==
  ASSUME Inv, NEW t \in Trials
  PROVE  /\ trial[t] \in Records
         /\ trial[t].at \in {"queued", "setup", "agent"} => trial[t].error = "none"
         /\ trial[t].kind \in {"clean", "agent_error"} => trial[t].at = "over"
  BY DEF Inv, TypeOK, TrialInv

\* A trial gets its place.
LEMMA StartTrialStep ==
  ASSUME Inv, NEW t \in Trials, StartTrial(t) PROVE Inv'
  <1> DEFINE r == [trial[t] EXCEPT !.at = "setup"]
  <1>1. trial[t].at = "queued" /\ MoveTrial(t, r) /\ trial[t] \in Records /\ trial[t].error = "none"
        /\ trial[t].kind \notin {"clean", "agent_error"}
    BY RecordFacts DEF StartTrial
  <1>2. r \in Records /\ r.at = "setup" /\ r.error = "none" /\ r.kind \notin {"clean", "agent_error"}
    BY <1>1 DEF Records
  <1> HIDE DEF r
  <1>3. QED
    BY <1>1, <1>2, MoveTrialStep

\* The container is set up, or is not.
LEMMA SetUpStep ==
  ASSUME Inv, NEW t \in Trials, SetUp(t) PROVE Inv'
  <1>1. trial[t].at = "setup" /\ trial[t] \in Records /\ trial[t].error = "none"
        /\ trial[t].kind \notin {"clean", "agent_error"}
    BY RecordFacts DEF SetUp
  <1>2. CASE MoveTrial(t, [trial[t] EXCEPT !.at = "agent"])
    <2> DEFINE r == [trial[t] EXCEPT !.at = "agent"]
    <2>1. r \in Records /\ r.at = "agent" /\ r.error = "none" /\ r.kind \notin {"clean", "agent_error"}
      BY <1>1 DEF Records
    <2> HIDE DEF r
    <2>2. QED
      BY <1>1, <1>2, <2>1, MoveTrialStep DEF r
  <1>3. ASSUME NEW e \in {"setup", "infra"}, MoveTrial(t, [trial[t] EXCEPT !.at = "verify", !.error = e])
        PROVE  Inv'
    <2> DEFINE r == [trial[t] EXCEPT !.at = "verify", !.error = e]
    <2>1. r \in Records /\ r.at = "verify" /\ r.kind \notin {"clean", "agent_error"}
      BY <1>1 DEF Records
    <2>2. MoveTrial(t, r)
      BY <1>3
    <2> HIDE DEF r
    <2>3. QED
      BY <1>1, <2>1, <2>2, MoveTrialStep
  <1>4. QED
    BY <1>2, <1>3 DEF SetUp

\* The agent ends, in any way.
LEMMA RunAgentStep ==
  ASSUME Inv, NEW t \in Trials, RunAgent(t) PROVE Inv'
  <1>1. trial[t].at = "agent" /\ trial[t] \in Records /\ trial[t].kind \notin {"clean", "agent_error"}
    BY RecordFacts DEF RunAgent
  <1> SUFFICES ASSUME NEW a \in {"ok", "exit", "gateway", "timeout", "broken"}, NEW gathered \in BOOLEAN,
                      MoveTrial(t, [trial[t] EXCEPT !.at = "verify", !.agent = a,
                                                    !.error = IF gathered THEN "none" ELSE "infra"])
               PROVE  Inv'
    BY DEF RunAgent
  <1> DEFINE e == IF gathered THEN "none" ELSE "infra"
             r == [trial[t] EXCEPT !.at = "verify", !.agent = a, !.error = e]
  <1>2. e \in {"none", "infra"} /\ MoveTrial(t, r)
    OBVIOUS
  <1> HIDE DEF e
  <1>3. r \in Records /\ r.at = "verify" /\ r.kind \notin {"clean", "agent_error"}
    BY <1>1, <1>2 DEF Records
  <1> HIDE DEF r
  <1>4. QED
    BY <1>1, <1>2, <1>3, MoveTrialStep

\* What the verifier and the removal of the container come to: without a failure there is a reward.
LEMMA VerifiedIs ==
  ASSUME NEW c \in Records, NEW r \in Verified(c)
  PROVE  r \in Records /\ (r.error = "none" => r.judged)
  <1>1. CASE c.error # "none"
    BY <1>1 DEF Verified
  <1>2. CASE c.error = "none" /\ c.agent = "timeout"
    <2>1. r = [c EXCEPT !.error = "verifier"]
      BY <1>2 DEF Verified
    <2>2. QED
      BY <2>1 DEF Records
  <1>3. CASE c.error = "none" /\ c.agent # "timeout"
    <2>1. r \in {[c EXCEPT !.judged = TRUE]} \cup {[c EXCEPT !.error = e] : e \in {"verifier", "infra"}}
      BY <1>3 DEF Verified
    <2>2. QED
      BY <2>1 DEF Records
  <1>4. QED
    BY <1>1, <1>2, <1>3

\* execution_outcome: only a trial without an error of its own is clean or the fault of its agent.
LEMMA OutcomeIs ==
  ASSUME NEW r \in Records
  PROVE  /\ Outcome(r) \in {"clean", "harness_error", "agent_error", "verifier_error", "infra_error"}
         /\ Outcome(r) \in {"clean", "agent_error"} => r.error = "none"
  <1>1. r.error \in {"none", "setup", "infra", "verifier"}
    BY DEF Records
  <1>2. CASE r.error # "none"
    <2>1. Exception(r) = r.error
      BY <1>2 DEF Exception
    <2>2. CASE r.agent = "gateway"
      BY <1>2, <2>1, <2>2 DEF Outcome
    <2>3. CASE r.agent # "gateway"
      <3>1. Outcome(r) = [agent |-> "agent_error", setup |-> "harness_error",
                          verifier |-> "verifier_error", infra |-> "infra_error"][r.error]
        BY <1>2, <2>1, <2>3 DEF Outcome
      <3>2. QED
        BY <1>1, <1>2, <3>1
    <2>4. QED
      BY <2>2, <2>3
  <1>3. CASE r.error = "none"
    <2>1. Exception(r) \in {"agent", "infra", "none"}
      BY <1>3 DEF Exception
    <2>2. CASE Exception(r) = "none"
      BY <1>3, <2>2 DEF Outcome
    <2>3. CASE Exception(r) # "none" /\ r.agent = "gateway"
      BY <1>3, <2>3 DEF Outcome
    <2>4. CASE Exception(r) # "none" /\ r.agent # "gateway"
      <3>1. Outcome(r) = [agent |-> "agent_error", setup |-> "harness_error",
                          verifier |-> "verifier_error", infra |-> "infra_error"][Exception(r)]
        BY <2>4 DEF Outcome
      <3>2. QED
        BY <1>3, <2>1, <2>4, <3>1
    <2>5. QED
      BY <2>2, <2>3, <2>4
  <1>4. QED
    BY <1>2, <1>3

\* A trial is verified and its container removed (run_trial).
LEMMA FinishTrialStep ==
  ASSUME Inv, NEW t \in Trials, FinishTrial(t) PROVE Inv'
  <1>1. trial[t].at = "verify" /\ trial[t] \in Records
    BY RecordFacts DEF FinishTrial
  <1>2. PICK r \in Verified(trial[t]), removed \in BOOLEAN :
          LET over == [r EXCEPT !.at = "over", !.error = IF ~removed /\ @ = "none" THEN "infra" ELSE @]
          IN  MoveTrial(t, [Waiting EXCEPT !.at = "over", !.judged = r.judged, !.kind = Outcome(over)])
    BY DEF FinishTrial
  <1> DEFINE e == IF ~removed /\ r.error = "none" THEN "infra" ELSE r.error
             over == [r EXCEPT !.at = "over", !.error = e]
             o == [Waiting EXCEPT !.at = "over", !.judged = r.judged, !.kind = Outcome(over)]
  <1>3. r \in Records /\ (r.error = "none" => r.judged) /\ r.judged \in BOOLEAN
    BY <1>1, <1>2, VerifiedIs DEF Records
  <1>4. MoveTrial(t, o)
    <2>1. [r EXCEPT !.at = "over", !.error = IF ~removed /\ @ = "none" THEN "infra" ELSE @] = over
      BY <1>3 DEF Records
    <2>2. QED
      BY <1>2, <2>1
  <1>5. e \in {"none", "setup", "infra", "verifier"} /\ (e = "none" => r.judged)
    BY <1>3 DEF Records
  <1> HIDE DEF e
  <1>6. over \in Records /\ over.error = e
    BY <1>3, <1>5 DEF Records
  <1> HIDE DEF over
  <1>7. /\ Outcome(over) \in {"clean", "harness_error", "agent_error", "verifier_error", "infra_error"}
        /\ Outcome(over) \in {"clean", "agent_error"} => r.judged
    BY <1>5, <1>6, OutcomeIs
  <1>8. o \in Records /\ o.at = "over" /\ o.judged = r.judged /\ o.kind = Outcome(over)
    BY <1>3, <1>7 DEF Records, Waiting
  <1> HIDE DEF o
  <1>9. QED
    BY <1>1, <1>4, <1>7, <1>8, MoveTrialStep

\* A trial goes on.
LEMMA TrialSteps ==
  ASSUME Inv, TrialStep PROVE Inv'
  BY StartTrialStep, SetUpStep, RunAgentStep, FinishTrialStep DEF TrialStep

-----------------------------------------------------------------------------
\* remote_run.sh.  As long as it is not done, nothing the loop does depends on where it is.
LEMMA ScriptFrame ==
  ASSUME Inv, script # "done", UNCHANGED <<trial, snapshot, localVars, loop>>, MachineInv', FilesInv',
         script' \in {"setup", "running", "archiving"} \cup Over, status' \in {0, 1, 2}, archive' \in Packs,
         faults' \in 0..MaxFaults, faults <= faults'
  PROVE  Inv'
  <1>1. TypeOK' /\ Finished' = Finished
    BY DEF Inv, TypeOK, Finished, localVars, Over
  <1>2. TrialInv'
    BY DEF Inv, TrialInv
  <1>3. ~loop.seenDone
    BY DEF Inv, PhaseInv
  <1>4. Finished \in SUBSET Trials /\ faults' \in Nat
    BY BoundsAssumption DEF Finished
  <1>5. QED
    BY <1>1, <1>2, <1>3, <1>4, LoopFrame DEF Inv

\* The steps of remote_run.sh that go as they should: the status says what became of the trials.
LEMMA ScriptSteps ==
  ASSUME Inv, ScriptStep PROVE Inv'
  <1>1. /\ TypeOK /\ MachineInv /\ FilesInv /\ TrialInv
        /\ faults \in 0..MaxFaults /\ faults <= faults /\ archive \in Packs /\ status \in {0, 1, 2}
    BY BoundsAssumption DEF Inv, TypeOK
  <1>2. CASE ProxyUp
    <2>1. /\ script = "setup" /\ script' = "running"
          /\ UNCHANGED <<trial, status, archive, snapshot, localVars, loop, faults>>
      BY <1>2 DEF ProxyUp, RemoteStep
    <2>2. FilesInv' /\ Finished' = Finished
      BY <1>1, <2>1, FilesFrame DEF localVars, Finished
    <2>3. MachineInv'
      BY <1>1, <2>1, <2>2 DEF MachineInv, Over
    <2>4. QED
      BY <1>1, <2>1, <2>2, <2>3, ScriptFrame DEF Over
  <1>3. CASE SetupFails
    <2>1. /\ script = "setup" /\ script' = "failing" /\ script' \in Over
          /\ UNCHANGED <<trial, status, archive, snapshot, localVars, loop, faults>>
      BY <1>3 DEF SetupFails, Over, RemoteStep
    <2>2. FilesInv' /\ Finished' = Finished
      BY <1>1, <2>1, FilesFrame DEF localVars, Finished
    <2>3. Finished = {}
      BY <1>1, <2>1 DEF MachineInv, Over, Finished
    <2>4. MachineInv'
      BY <1>1, <2>1, <2>2, <2>3 DEF MachineInv, Over
    <2>5. QED
      BY <1>1, <2>1, <2>2, <2>4, ScriptFrame DEF Over
  <1>4. CASE FinishJob
    <2>1. /\ script = "running" /\ script' = "archiving" /\ Finished = Trials
          /\ status' \in {0, 2} /\ (status' = 0 => Accepted)
          /\ UNCHANGED <<trial, archive, snapshot, localVars, loop, faults>>
      BY <1>4 DEF FinishJob, RemoteStep
    <2>2. FilesInv' /\ Finished' = Finished
      BY <1>1, <2>1, FilesFrame DEF localVars, Finished
    <2>3. ASSUME Accepted PROVE \E t \in Trials : trial[t].judged
      <3> DEFINE invalid == {t \in Trials : trial[t].kind \in {"harness_error", "infra_error", "verifier_error"}}
      <3>1. Cardinality(invalid) < Cardinality(Trials)
        BY <2>3 DEF Accepted
      <3>2. invalid # Trials
        BY <3>1, CardFacts
      <3>3. PICK t \in Trials : t \notin invalid
        BY <3>2
      <3>4. trial[t].at = "over" /\ trial[t].kind # "pending" /\ trial[t] \in Records
        BY <1>1, <2>1 DEF Finished, TrialInv, TypeOK
      <3>5. trial[t].kind \in {"clean", "agent_error"}
        BY <3>3, <3>4 DEF Records
      <3>6. QED
        BY <1>1, <3>5 DEF TrialInv
    <2>4. MachineInv'
      BY <1>1, <2>1, <2>2, <2>3 DEF MachineInv, Over
    <2>5. QED
      BY <1>1, <2>1, <2>2, <2>4, ScriptFrame DEF Over
  <1>5. CASE PackFinal
    <2>1. /\ script = "archiving" /\ script' \in Over \ {"done"} /\ archive' = Pack
          /\ UNCHANGED <<trial, status, snapshot, localVars, loop, faults>>
      BY <1>5 DEF PackFinal, Over, RemoteStep
    <2>2. Pack \in Packs /\ Pack.state = "whole" /\ Pack.finished = Finished
      BY DEF Pack, Packs, WithResult, Finished
    <2>3. Finished' = Finished
      BY <2>1 DEF Finished
    <2>4. FilesInv'
      <3>1. archive.state = "absent"
        BY <1>1, <2>1 DEF MachineInv, Over
      <3>2. files[FinalFiles[1]].state = "absent" /\ partial[FinalFiles[1]].state # "whole"
        BY <1>1, <3>1, NameFacts DEF FilesInv, Exists
      <3>3. QED
        BY <1>1, <2>1, <2>3, <3>2 DEF FilesInv, Exists, localVars
    <2>5. MachineInv'
      BY <1>1, <2>1, <2>2, <2>3 DEF MachineInv, Over
    <2>6. QED
      BY <1>1, <2>1, <2>2, <2>4, <2>5, ScriptFrame DEF Over
  <1>6. CASE Trap
    <2>1. /\ script \in Over \ {"done"} /\ script' \in Over
          /\ UNCHANGED <<trial, status, archive, snapshot, localVars, loop, faults>>
      BY <1>6 DEF Trap, Over, RemoteStep
    <2>2. FilesInv' /\ Finished' = Finished
      BY <1>1, <2>1, FilesFrame DEF localVars, Finished
    <2>3. MachineInv'
      BY <1>1, <2>1, <2>2 DEF MachineInv, Over
    <2>4. QED
      BY <1>1, <2>1, <2>2, <2>3, ScriptFrame DEF Over
  <1>7. QED
    BY <1>2, <1>3, <1>4, <1>5, <1>6 DEF ScriptStep

\* The job dies under its trials, the proxy dies, or the archive cannot be packed.
LEMMA ScriptFaults ==
  ASSUME Inv, JobDies \/ ProxyDies \/ PackFails PROVE Inv'
  <1>1. /\ TypeOK /\ MachineInv /\ FilesInv /\ archive \in Packs /\ status \in {0, 1, 2}
        /\ faults \in Nat /\ faults' = faults + 1 /\ faults' \in 0..MaxFaults /\ faults <= faults'
    BY BoundsAssumption DEF Inv, TypeOK, Fault, JobDies, ProxyDies, PackFails
  <1>2. UNCHANGED <<trial, archive, snapshot, localVars, loop>> /\ Finished' = Finished
    BY DEF JobDies, ProxyDies, PackFails, RemoteStep, Finished
  <1>3. FilesInv'
    BY <1>1, <1>2, FilesFrame DEF localVars
  <1>4. \/ script = "running" /\ script' = "archiving" /\ status' = 1
        \/ script \in {"running", "archiving"} /\ script' = script /\ status' = status
        \/ script = "archiving" /\ script' = "failing" /\ status' = status
    BY DEF JobDies, ProxyDies, PackFails, RemoteStep
  <1>5. MachineInv'
    BY <1>1, <1>2, <1>4 DEF MachineInv, Over
  <1>6. QED
    BY <1>1, <1>2, <1>3, <1>4, <1>5, ScriptFrame DEF Over

-----------------------------------------------------------------------------
\* The loop.  What changes when it only goes to another place, or comes to its end.
SameNumbers ==
    /\ loop'.sequence = loop.sequence /\ loop'.completed = loop.completed
    /\ loop'.pulled = loop.pulled /\ loop'.seenCompleted = loop.seenCompleted
SameLists == loop'.copying = loop.copying /\ loop'.staged = loop.staged
SameSeen == loop'.seenDone = loop.seenDone

\* The loop only goes to another place.
LEMMA PcFields ==
  ASSUME loop \in Loops, NEW p \in LoopPlaces, Loop(p)
  PROVE  /\ loop' \in Loops /\ loop'.pc = p /\ SameNumbers /\ SameLists /\ SameSeen
         /\ loop'.purpose = loop.purpose /\ loop'.how = loop.how /\ loop'.code = loop.code
  BY DEF Loop, Loops, SameNumbers, SameLists, SameSeen

\* The loop goes to another place for a pull.
LEMMA PurposeFields ==
  ASSUME loop \in Loops, NEW p \in LoopPlaces, NEW u \in Purposes,
         loop' = [loop EXCEPT !.pc = p, !.purpose = u]
  PROVE  /\ loop' \in Loops /\ loop'.pc = p /\ SameNumbers /\ SameLists /\ SameSeen
         /\ loop'.purpose = u /\ loop'.how = loop.how /\ loop'.code = loop.code
  BY DEF Loops, SameNumbers, SameLists, SameSeen

\* The loop returns.
LEMMA ReturnFields ==
  ASSUME loop \in Loops, NEW c \in {0, 1, 2, 75}, NEW h \in {"lease_lost", "final", "final_error"}, Return(c, h)
  PROVE  /\ loop' \in Loops /\ loop'.pc = "ended" /\ SameNumbers /\ SameLists /\ SameSeen
         /\ loop'.purpose = loop.purpose /\ loop'.how = h /\ loop'.code = c
  <1>1. loop' = [loop EXCEPT !.pc = "ended", !.code = c, !.how = h]
    BY DEF Return
  <1>2. /\ loop'.pc = "ended" /\ SameNumbers /\ SameLists /\ SameSeen
        /\ loop'.purpose = loop.purpose /\ loop'.how = h /\ loop'.code = c
    BY <1>1 DEF Loops, SameNumbers, SameLists, SameSeen
  <1>3. loop' \in Loops
    BY <1>1 DEF Loops, LoopPlaces
  <1>4. QED
    BY <1>2, <1>3

\* While it does so the machine and the files are what they were.
LEMMA QuietFrame ==
  ASSUME Inv, LocalStep, loop' \in Loops, faults' \in 0..MaxFaults, faults <= faults'
  PROVE  /\ TypeOK' /\ TrialInv' /\ MachineInv' /\ FilesInv'
         /\ Finished' = Finished /\ Home' = Home
         /\ UNCHANGED <<trial, script, status, archive, snapshot, files, partial>>
         /\ First(faults)' = First(faults') /\ First(faults') \in Nat
         /\ First(faults) \in Nat /\ First(faults) <= First(faults')
  <1>1. UNCHANGED <<trial, script, status, archive, snapshot, files, partial>>
    BY DEF LocalStep, remoteVars, localVars
  <1>2. faults \in Nat /\ faults' \in Nat
    BY BoundsAssumption DEF Inv, TypeOK
  <1>3. TypeOK' /\ TrialInv'
    BY <1>1 DEF Inv, TypeOK, TrialInv
  <1>4. MachineInv' /\ Finished' = Finished
    BY <1>1, <1>2, MachineFrame DEF Inv
  <1>5. FilesInv'
    BY <1>1, <1>4, FilesFrame DEF Inv
  <1>6. Home' = Home
    BY <1>1, <1>4 DEF Home
  <1>7. First(faults)' = First(faults')
    BY DEF First
  <1>8. QED
    BY <1>1, <1>2, <1>3, <1>4, <1>5, <1>6, <1>7, FirstFacts

\* Where the numbers are the same and nothing was published, they are right.
LEMMA NumberFrame ==
  ASSUME Inv, LocalStep, loop' \in Loops, faults' \in 0..MaxFaults, faults <= faults', SameNumbers,
         loop.pc \notin {"off", "ended", "publish"},
         loop'.pc # "off", loop'.pc = "due" \/ Doing({"due"})' => loop.pc = "due" \/ Doing({"due"}),
         Closed => Closed' \/ loop'.pc = "ended",
         loop.pc = "copy" => loop.staged # <<>>
  PROVE  NumberInv'
  <1>1. /\ Finished' = Finished /\ files' = files
        /\ First(faults)' = First(faults') /\ First(faults') \in Nat
        /\ First(faults) \in Nat /\ First(faults) <= First(faults')
    BY QuietFrame
  <1>2. NumberInv /\ loop \in Loops
    BY DEF Inv, TypeOK
  <1>3. Pulled' = Pulled /\ This' = This /\ Pulled \in Nat /\ loop.sequence \in Nat /\ loop.seenCompleted \in Nat
    BY <1>2 DEF SameNumbers, Pulled, This, Loops
  <1>4. \A n \in 1..MaxSequence : Exists(Checkpoint(n))' = Exists(Checkpoint(n))
    BY <1>1 DEF Exists
  <1>5. ~(Doing(ForCheckpoint) /\ loop.staged = <<>>)
    BY DEF Doing
  <1>6. /\ loop.sequence \in 1..MaxSequence
        /\ loop.sequence <= First(faults') + Pulled
        /\ \A n \in 1..MaxSequence : Exists(Checkpoint(n)) =>
             n < loop.sequence \/ (n = loop.sequence /\ Closed /\ files[This].finished = Finished)
    BY <1>1, <1>2, <1>3, <1>5 DEF NumberInv
  <1>7. loop'.pc = "due" \/ Doing({"due"})' => loop.sequence + 1 <= First(faults') + loop.seenCompleted
    BY <1>1, <1>2, <1>3 DEF NumberInv
  <1>8. loop.completed <= loop.seenCompleted /\ loop.seenCompleted <= Cardinality(Finished)
    BY <1>2 DEF NumberInv
  <1>9. QED
    BY <1>1, <1>3, <1>4, <1>6, <1>7, <1>8 DEF NumberInv, SameNumbers, Doing

\* No connection: after --max-ssh-failures of them the lease is given up.
LEMMA ReadFailsStep ==
  ASSUME Inv, ReadFails PROVE Inv'
  <1>1. /\ loop.pc = "poll" /\ LocalStep /\ faults \in Nat /\ faults' = faults + 1 /\ faults' \in 0..MaxFaults
        /\ faults <= faults' /\ loop \in Loops
    BY BoundsAssumption DEF ReadFails, Fault, Inv, TypeOK
  <1>2. /\ loop' \in Loops /\ SameNumbers /\ SameLists /\ SameSeen /\ loop'.purpose = loop.purpose
        /\ \/ loop'.pc = "poll" /\ loop'.how = loop.how
           \/ loop'.pc = "ended" /\ loop'.how = "lease_lost" /\ loop'.code = 75
    <2>1. CASE loop' = [loop EXCEPT !.failures = @ + 1]
      BY <1>1, <2>1 DEF Loops, SameNumbers, SameLists, SameSeen
    <2>2. CASE Return(75, "lease_lost")
      BY <1>1, <2>2, ReturnFields
    <2>3. QED
      BY <2>1, <2>2 DEF ReadFails
  <1>3. /\ TypeOK' /\ TrialInv' /\ MachineInv' /\ FilesInv' /\ script' = script
    BY <1>1, <1>2, QuietFrame
  <1>4. CopyInv'
    BY <1>2 DEF CopyInv
  <1>5. ~Closed /\ ~Closed' /\ ~Doing({"due"})' /\ ~Doing({"last", "diagnostic"})' /\ ~Doing({"diagnostic"})'
    BY <1>1, <1>2 DEF Closed, Doing
  <1>6. PhaseInv'
    BY <1>1, <1>2, <1>3, <1>5 DEF Inv, PhaseInv, SameSeen
  <1>7. NumberInv'
    BY <1>1, <1>2, <1>5, NumberFrame
  <1>8. FaultInv'
    BY <1>2, <1>5 DEF FaultInv
  <1>9. QED
    BY <1>3, <1>4, <1>6, <1>7, <1>8 DEF Inv

\* A pack that fails, a copy that fails: the pull has failed, whatever it was for.
LEMMA PackingFailsStep ==
  ASSUME Inv, PackingFails PROVE Inv'
  <1>1. /\ loop.pc \in {"due", "last", "diagnostic"} /\ LocalStep
        /\ faults \in Nat /\ faults' = faults + 1 /\ faults' \in 0..MaxFaults /\ faults <= faults' /\ loop \in Loops
        /\ loop' = [loop EXCEPT !.pc = "failed", !.purpose = loop.pc]
    BY BoundsAssumption DEF PackingFails, Fault, Inv, TypeOK
  <1>2. "failed" \in LoopPlaces /\ loop.pc \in Purposes
    BY <1>1 DEF LoopPlaces, Purposes
  <1>3. /\ loop' \in Loops /\ loop'.pc = "failed" /\ SameNumbers /\ SameLists /\ SameSeen
        /\ loop'.purpose = loop.pc /\ loop'.how = loop.how
    BY <1>1, <1>2, PurposeFields
  <1>4. /\ TypeOK' /\ TrialInv' /\ MachineInv' /\ FilesInv' /\ script' = script /\ Home' = Home
    BY <1>1, <1>3, QuietFrame
  <1>5. CopyInv'
    BY <1>3 DEF CopyInv
  <1>6. ~Doing({"due"})' /\ ~Doing({"last", "diagnostic"})' /\ ~Doing({"diagnostic"})' /\ (Closed => Closed')
    BY <1>1, <1>3 DEF Closed, Doing
  <1>7. PhaseInv'
    BY <1>1, <1>3, <1>4, <1>6 DEF Inv, PhaseInv, SameSeen, Closed
  <1>8. NumberInv'
    BY <1>1, <1>3, <1>6, NumberFrame
  <1>9. FaultInv'
    BY <1>1, <1>3, <1>4, <1>6 DEF Inv, FaultInv
  <1>10. QED
    BY <1>4, <1>5, <1>7, <1>8, <1>9 DEF Inv

\* What is being copied.
LEMMA CopyFacts ==
  ASSUME Inv, loop.pc = "copy"
  PROVE  /\ loop.staged # <<>>
         /\ \/ /\ loop.purpose \in ForCheckpoint /\ Head(loop.copying) = This
               /\ SourceOf(Head(loop.copying)).state = "whole"
            \/ /\ loop.purpose = "final"
               /\ SourceOf(Head(loop.copying)).state = "whole" \/ SourceOf(Head(loop.copying)) = archive
  <1>1. Log.state = "whole"
    BY DEF Log
  <1>2. CASE loop.purpose \in ForCheckpoint
    <2>1. loop.purpose # "final" /\ loop.copying = <<This>> /\ loop.staged = <<This>> /\ snapshot.state = "whole"
      BY <1>2 DEF Inv, CopyInv, ForCheckpoint
    <2>2. Head(loop.copying) = This /\ SourceOf(This) = snapshot /\ loop.staged # <<>>
      BY <2>1, OneFacts, SourceFacts DEF This
    <2>3. QED
      BY <1>2, <2>1, <2>2
  <1>3. CASE loop.purpose \notin ForCheckpoint
    <2>1. loop.purpose = "final" /\ loop.staged = FinalFiles /\ loop.copying \in {FinalFiles, Logs, Log2}
      BY <1>3 DEF Inv, CopyInv
    <2>2. QED
      BY <1>1, <2>1, ListFacts, SourceFacts
  <1>4. QED
    BY <1>2, <1>3

\* A run that wrote no archive is at fault, or has nothing to bring home.
LEMMA NoArchive ==
  ASSUME Inv, archive.state # "whole", script = "done"
  PROVE  Home \/ faults >= 1
  <1>1. faults >= 1 \/ Finished = {}
    BY DEF Inv, MachineInv, Over
  <1>2. ASSUME Finished = {} PROVE Home
    <2>1. FinalFiles[1] \in Names
      BY NameFacts
    <2>2. files[FinalFiles[1]].finished \subseteq {}
      BY <1>2, <2>1 DEF Inv, FilesInv
    <2>3. QED
      BY <1>2, <2>1, <2>2 DEF Home
  <1>3. QED
    BY <1>1, <1>2

\* A copy breaks off, or has nothing to copy.
LEMMA CopyFailsStep ==
  ASSUME Inv, CopyFails PROVE Inv'
  <1>1. /\ loop.pc = "copy" /\ LocalStep /\ Loop("failed")
        /\ faults \in Nat /\ faults' \in 0..MaxFaults /\ faults <= faults' /\ loop \in Loops
        /\ SourceOf(Head(loop.copying)).state = "whole" => faults' = faults + 1
    BY BoundsAssumption DEF CopyFails, Inv, TypeOK
  <1>2. "failed" \in LoopPlaces
    BY DEF LoopPlaces
  <1>3. /\ loop' \in Loops /\ loop'.pc = "failed" /\ SameNumbers /\ SameLists /\ SameSeen
        /\ loop'.purpose = loop.purpose /\ loop'.how = loop.how
    BY <1>1, <1>2, PcFields
  <1>4. /\ TypeOK' /\ TrialInv' /\ MachineInv' /\ FilesInv' /\ script' = script /\ Home' = Home
    BY <1>1, <1>3, QuietFrame
  <1>5. CopyInv'
    BY <1>3 DEF CopyInv
  <1>6. /\ ~Doing({"due"})' /\ ~Doing({"last", "diagnostic"})' /\ ~Doing({"diagnostic"})'
        /\ Closed' = Closed
    BY <1>1, <1>3 DEF Closed, Doing
  <1>7. PhaseInv'
    BY <1>1, <1>3, <1>4, <1>6 DEF Inv, PhaseInv, SameSeen
  <1>8. NumberInv'
    BY <1>1, <1>3, <1>6, CopyFacts, NumberFrame
  <1>9. CASE loop.purpose = "final"
    <2>1. script = "done"
      BY <1>1, <1>9 DEF Inv, PhaseInv, Closed
    <2>2. faults' >= 1 \/ Home
      <3>1. CASE SourceOf(Head(loop.copying)).state = "whole"
        BY <1>1, <3>1
      <3>2. CASE SourceOf(Head(loop.copying)).state # "whole"
        <4>1. archive.state # "whole"
          BY <1>1, <3>2, CopyFacts
        <4>2. QED
          BY <1>1, <2>1, <4>1, NoArchive
      <3>3. QED
        BY <3>1, <3>2
    <2>3. FaultInv'
      BY <1>3, <1>4, <1>6, <1>9, <2>2 DEF FaultInv
    <2>4. QED
      BY <1>4, <1>5, <1>7, <1>8, <2>3 DEF Inv
  <1>10. CASE loop.purpose # "final"
    <2>1. faults' = faults + 1
      BY <1>1, <1>10, CopyFacts
    <2>2. loop.purpose = "diagnostic" => faults' >= 2 \/ Home
      BY <1>1, <2>1 DEF Inv, FaultInv, Doing
    <2>3. FaultInv'
      BY <1>3, <1>4, <1>6, <1>10, <2>2 DEF FaultInv
    <2>4. QED
      BY <1>4, <1>5, <1>7, <1>8, <2>3 DEF Inv
  <1>11. QED
    BY <1>9, <1>10

\* After a failure the loop looks again, or goes on to what is left to bring home.
LEMMA AfterFailureStep ==
  ASSUME Inv, AfterFailure PROVE Inv'
  <1>1. /\ loop.pc = "failed" /\ LocalStep /\ faults \in Nat /\ faults' = faults /\ faults' \in 0..MaxFaults
        /\ faults <= faults' /\ loop \in Loops /\ PullFailed
    BY BoundsAssumption DEF AfterFailure, Inv, TypeOK
  <1>2. loop.purpose \in {"due", "last", "final", "diagnostic"}
    BY <1>1 DEF Inv, PhaseInv, TypeOK, Loops, Purposes
  <1>3. /\ loop' \in Loops /\ SameNumbers /\ SameLists /\ SameSeen /\ loop'.purpose = loop.purpose
        /\ \/ loop.purpose = "due" /\ loop'.pc \in {"poll", "last", "final"} /\ loop'.how = loop.how
              /\ (loop'.pc # "poll" => loop.seenDone)
           \/ loop.purpose = "last" /\ loop'.pc = "final" /\ loop'.how = loop.how
           \/ loop.purpose = "final" /\ loop'.pc = "diagnostic" /\ loop'.how = loop.how
           \/ loop.purpose = "diagnostic" /\ loop'.pc = "ended" /\ loop'.how = "final_error" /\ loop'.code = 75
    <2>1. CASE loop.purpose = "due"
      <3>1. Loop(Closing(loop))
        BY <1>1, <2>1 DEF PullFailed
      <3>2. Closing(loop) \in {"poll", "last", "final"} /\ (Closing(loop) # "poll" => loop.seenDone)
        BY DEF Closing
      <3>3. Closing(loop) \in LoopPlaces
        BY <3>2 DEF LoopPlaces
      <3>4. QED
        BY <1>1, <2>1, <3>1, <3>2, <3>3, PcFields
    <2>2. CASE loop.purpose = "last"
      <3>1. Loop("final") /\ "final" \in LoopPlaces
        BY <1>1, <2>2 DEF PullFailed, LoopPlaces
      <3>2. QED
        BY <1>1, <2>2, <3>1, PcFields
    <2>3. CASE loop.purpose = "final"
      <3>1. Loop("diagnostic") /\ "diagnostic" \in LoopPlaces
        BY <1>1, <2>3 DEF PullFailed, LoopPlaces
      <3>2. QED
        BY <1>1, <2>3, <3>1, PcFields
    <2>4. CASE loop.purpose = "diagnostic"
      <3>1. Return(75, "final_error")
        BY <1>1, <2>4 DEF PullFailed
      <3>2. QED
        BY <1>1, <2>4, <3>1, ReturnFields
    <2>5. QED
      BY <1>2, <2>1, <2>2, <2>3, <2>4
  <1>4. /\ TypeOK' /\ TrialInv' /\ MachineInv' /\ FilesInv' /\ script' = script /\ Home' = Home
    BY <1>1, <1>3, QuietFrame
  <1>5. CopyInv'
    BY <1>3 DEF CopyInv
  <1>6. /\ ~Doing({"due"})' /\ ~Doing({"last", "diagnostic"})' /\ ~Doing({"diagnostic"})'
        /\ Closed => Closed' \/ loop'.pc = "ended"
    BY <1>1, <1>3 DEF Closed, Doing
  <1>7. loop.purpose # "due" => loop.seenDone
    BY <1>1, <1>2 DEF Inv, PhaseInv, Closed
  <1>8. PhaseInv'
    BY <1>1, <1>3, <1>4, <1>6, <1>7 DEF Inv, PhaseInv, SameSeen, Closed
  <1>9. NumberInv'
    BY <1>1, <1>3, <1>6, NumberFrame
  <1>10. FaultInv'
    BY <1>1, <1>3, <1>4, <1>6 DEF Inv, FaultInv
  <1>11. QED
    BY <1>4, <1>5, <1>8, <1>9, <1>10 DEF Inv

\* PullDone: what was pulled is here.
LEMMA PullDoneFields ==
  ASSUME Inv, PullDone
  PROVE  /\ loop.pc = "publish" /\ loop.staged = <<>> /\ LocalStep /\ faults' = faults
         /\ loop' \in Loops /\ SameSeen /\ loop'.purpose = loop.purpose
         /\ \/ /\ loop.purpose = "due" /\ loop'.pc \in {"poll", "last", "final"}
               /\ loop'.pc # "poll" => loop.seenDone
               /\ loop'.sequence = loop.sequence + 1 /\ loop'.completed = loop.seenCompleted
               /\ loop'.pulled = TRUE /\ loop'.seenCompleted = loop.seenCompleted
            \/ loop.purpose = "last" /\ loop'.pc = "final" /\ SameNumbers
            \/ /\ loop.purpose = "final" /\ SameNumbers
               /\ loop'.pc = "ended" /\ loop'.how = "final" /\ (loop'.code = 0 => status = 0)
            \/ /\ loop.purpose = "diagnostic" /\ SameNumbers
               /\ loop'.pc = "ended" /\ loop'.how = "final_error" /\ loop'.code # 0
  <1> DEFINE count == Cardinality(snapshot.results)
             counted == [loop EXCEPT !.archived = count]
             timed == [counted EXCEPT !.completed = loop.seenCompleted, !.pulled = TRUE, !.sequence = @ + 1]
  <1>1. /\ loop.pc = "publish" /\ loop.staged = <<>> /\ LocalStep /\ faults' = faults
        /\ CASE loop.purpose = "due" -> loop' = [timed EXCEPT !.pc = Closing(timed)]
             [] loop.purpose = "last" -> loop' = [counted EXCEPT !.pc = "final"]
             [] loop.purpose = "final" ->
                    Return(IF status # 0 THEN status
                           ELSE IF files[FinalFiles[1]].results # {} THEN 0 ELSE 1, "final")
             [] OTHER -> Return(75, "final_error")
    BY DEF PullDone
  <1>2. loop \in Loops /\ status \in {0, 1, 2} /\ loop.sequence \in Nat /\ loop.seenCompleted \in Nat
    BY DEF Inv, TypeOK, Loops
  <1>3. count \in Nat
    <2>1. snapshot.results \in SUBSET Trials
      BY DEF Inv, TypeOK, Packs
    <2>2. QED
      BY <2>1, CardFacts
  <1> HIDE DEF count
  <1>4. counted \in Loops /\ counted = [loop EXCEPT !.archived = count]
    BY <1>2, <1>3 DEF Loops
  <1>5. loop.purpose \in {"due", "last", "final", "diagnostic"}
    BY <1>1, <1>2 DEF Inv, PhaseInv, Loops, Purposes
  <1>6. CASE loop.purpose = "due"
    <2>1. timed \in Loops
      <3> HIDE DEF counted
      <3>1. counted.sequence + 1 \in Nat
        BY <1>4 DEF Loops
      <3>2. QED
        BY <1>2, <1>4, <3>1 DEF Loops
    <2>2. /\ timed.seenDone = loop.seenDone /\ timed.purpose = loop.purpose
          /\ timed.sequence = loop.sequence + 1 /\ timed.completed = loop.seenCompleted
          /\ timed.pulled = TRUE /\ timed.seenCompleted = loop.seenCompleted
      BY <1>2 DEF Loops
    <2>3. loop' = [timed EXCEPT !.pc = Closing(timed)]
      BY <1>1, <1>6
    <2> HIDE DEF timed
    <2>4. Closing(timed) \in {"poll", "last", "final"} /\ (Closing(timed) # "poll" => loop.seenDone)
      BY <2>2 DEF Closing
    <2>5. /\ loop'.pc = Closing(timed) /\ loop'.seenDone = timed.seenDone /\ loop'.purpose = timed.purpose
          /\ loop'.sequence = timed.sequence /\ loop'.completed = timed.completed
          /\ loop'.pulled = timed.pulled /\ loop'.seenCompleted = timed.seenCompleted
      BY <2>1, <2>3 DEF Loops
    <2>6. loop' \in Loops
      BY <2>1, <2>3, <2>4 DEF Loops, LoopPlaces
    <2>7. QED
      BY <1>1, <1>6, <2>2, <2>4, <2>5, <2>6 DEF SameSeen
  <1>7. CASE loop.purpose = "last"
    <2>1. loop' = [counted EXCEPT !.pc = "final"]
      BY <1>1, <1>7
    <2>2. /\ loop'.pc = "final" /\ loop'.seenDone = loop.seenDone /\ loop'.purpose = loop.purpose /\ SameNumbers
      BY <1>2, <2>1 DEF Loops, SameNumbers
    <2> HIDE DEF counted
    <2>3. loop' \in Loops
      BY <1>4, <2>1 DEF Loops, LoopPlaces
    <2>4. QED
      BY <1>1, <1>7, <2>2, <2>3 DEF SameSeen
  <1>8. CASE loop.purpose = "final"
    <2> DEFINE c == IF status # 0 THEN status ELSE IF files[FinalFiles[1]].results # {} THEN 0 ELSE 1
    <2>1. Return(c, "final")
      BY <1>1, <1>8
    <2>2. c \in {0, 1, 2, 75} /\ (c = 0 => status = 0)
      BY <1>2
    <2> HIDE DEF c
    <2>3. /\ loop' \in Loops /\ loop'.pc = "ended" /\ SameNumbers /\ SameSeen
          /\ loop'.purpose = loop.purpose /\ loop'.how = "final" /\ loop'.code = c
      BY <1>2, <2>1, <2>2, ReturnFields
    <2>4. QED
      BY <1>1, <1>8, <2>2, <2>3
  <1>9. CASE loop.purpose = "diagnostic"
    <2>1. Return(75, "final_error")
      BY <1>1, <1>9
    <2>2. /\ loop' \in Loops /\ loop'.pc = "ended" /\ SameNumbers /\ SameSeen
          /\ loop'.purpose = loop.purpose /\ loop'.how = "final_error" /\ loop'.code = 75
      BY <1>2, <2>1, ReturnFields
    <2>3. QED
      BY <1>1, <1>9, <2>2
  <1>10. QED
    BY <1>5, <1>6, <1>7, <1>8, <1>9

\* The published files of a pull that is complete.
LEMMA PublishedFacts ==
  ASSUME Inv, loop.pc = "publish", loop.staged = <<>>
  PROVE  /\ loop.purpose \in ForCheckpoint => files[This] = snapshot
         /\ loop.purpose = "final" => \A i \in 1..3 : AtHome(FinalFiles[i])
  <1>1. CASE loop.purpose \in ForCheckpoint
    <2>1. loop.purpose # "final" /\ <<This>> # <<>>
      BY <1>1, OneFacts DEF ForCheckpoint, This
    <2>2. QED
      BY <1>1, <2>1 DEF Inv, CopyInv
  <1>2. CASE loop.purpose \notin ForCheckpoint
    <2>1. AtHome(FinalFiles[1]) /\ AtHome(FinalFiles[2]) /\ AtHome(FinalFiles[3])
      BY <1>2, ListFacts DEF Inv, CopyInv
    <2>2. QED
      BY <1>2, <2>1
  <1>3. QED
    BY <1>1, <1>2

\* After a pull the loop counts what is here, and closes when the run was done.
LEMMA PullDoneStep ==
  ASSUME Inv, PullDone PROVE Inv'
  <1>1. /\ loop.pc = "publish" /\ loop.staged = <<>> /\ LocalStep /\ faults' = faults
        /\ loop' \in Loops /\ SameSeen /\ loop'.purpose = loop.purpose
        /\ loop'.pc \in {"poll", "last", "final", "ended"}
    BY PullDoneFields
  <1>2. /\ faults \in Nat /\ faults' \in 0..MaxFaults /\ faults <= faults' /\ loop \in Loops
    BY <1>1, BoundsAssumption DEF Inv, TypeOK
  <1>3. /\ TypeOK' /\ TrialInv' /\ MachineInv' /\ FilesInv' /\ script' = script /\ Home' = Home
        /\ First(faults)' = First(faults) /\ First(faults) \in Nat /\ Finished' = Finished
        /\ UNCHANGED <<files, status>>
    BY <1>1, <1>2, QuietFrame DEF First
  <1>4. CopyInv'
    BY <1>1 DEF CopyInv
  <1>5. ~Doing({"due"})' /\ ~Doing({"last", "diagnostic"})' /\ ~Doing({"diagnostic"})' /\ ~Doing(ForCheckpoint)'
    BY <1>1 DEF Doing
  <1>6. loop.purpose # "due" => loop.seenDone
    BY <1>1, <1>2 DEF Inv, PhaseInv, Closed, Loops, Purposes
  <1>7. PhaseInv'
    BY <1>1, <1>3, <1>5, <1>6, PullDoneFields DEF Inv, PhaseInv, SameSeen, Closed
  <1>8. /\ loop.purpose = "final" => Home
        /\ loop.purpose \in {"last", "diagnostic"} => files[This].finished = Finished /\ Home
    <2>1. loop.sequence \in 1..MaxSequence
      BY <1>1 DEF Inv, NumberInv
    <2>2. FinalFiles[1] \in Names /\ This \in Names
      BY <2>1, NameFacts DEF This
    <2>3. ASSUME loop.purpose = "final" PROVE Home
      <3>1. files[FinalFiles[1]].state = "whole"
        BY <1>1, <2>3, PublishedFacts DEF AtHome
      <3>2. files[FinalFiles[1]] = archive
        BY <3>1 DEF Inv, FilesInv, Exists
      <3>3. archive.finished = Finished
        BY <3>1, <3>2 DEF Inv, MachineInv
      <3>4. QED
        BY <2>2, <3>2, <3>3 DEF Home
    <2>4. ASSUME loop.purpose \in {"last", "diagnostic"} PROVE files[This].finished = Finished
      <3>1. files[This] = snapshot
        BY <1>1, <2>4, PublishedFacts DEF ForCheckpoint
      <3>2. snapshot.finished = Finished
        BY <1>1, <2>4 DEF Inv, PhaseInv, Doing
      <3>3. QED
        BY <3>1, <3>2
    <2>5. QED
      BY <2>2, <2>3, <2>4 DEF Home
  <1>9. FaultInv'
    <2>1. loop'.pc = "ended" => /\ loop'.how \in {"final", "final_error"} /\ Home
                                /\ loop'.code = 0 => /\ loop'.how = "final" /\ status = 0
                                                     /\ \A i \in 1..3 : AtHome(FinalFiles[i])
      BY <1>1, <1>8, PullDoneFields, PublishedFacts
    <2>2. \A n : AtHome(n)' = AtHome(n)
      BY <1>3 DEF AtHome
    <2>3. QED
      BY <1>1, <1>3, <1>5, <2>1, <2>2 DEF FaultInv
  <1>10. NumberInv'
    <2>1. NumberInv /\ \A n \in 1..MaxSequence : Exists(Checkpoint(n))' = Exists(Checkpoint(n))
      BY <1>3 DEF Inv, Exists
    <2>2. /\ loop.sequence \in 1..MaxSequence /\ loop.sequence \in Nat /\ loop.completed \in Nat
          /\ loop.seenCompleted \in Nat /\ MaxSequence \in Nat
      BY <1>1, <1>2, <2>1, FirstFacts DEF NumberInv, Loops
    <2>3. \A n \in 1..MaxSequence : Exists(Checkpoint(n)) => n <= loop.sequence
      BY <1>1, <2>1, <2>2 DEF NumberInv
    <2>4. CASE loop.purpose = "due"
      <3>1. loop.sequence + 1 <= First(faults) + loop.seenCompleted /\ loop.seenCompleted <= Cardinality(Finished)
        BY <1>1, <2>1, <2>4 DEF NumberInv, Doing
      <3>2. loop.sequence + 1 <= MaxSequence
        <4>1. First(faults) + Cardinality(Trials) <= MaxSequence
          BY <1>1, <1>2, FirstFacts
        <4>2. Cardinality(Finished) <= Cardinality(Trials) /\ Cardinality(Finished) \in Nat
              /\ Cardinality(Trials) \in Nat
          BY CardFacts
        <4>3. QED
          BY <1>3, <2>2, <3>1, <4>1, <4>2
      <3>3. /\ loop'.pc \notin {"off", "ended", "due"} /\ Pulled' = loop.seenCompleted
            /\ loop'.sequence = loop.sequence + 1 /\ loop'.completed = loop.seenCompleted
            /\ loop'.seenCompleted = loop.seenCompleted
        BY <1>1, <2>4, PullDoneFields DEF Pulled
      <3>4. QED
        BY <1>1, <1>3, <1>5, <2>1, <2>2, <2>3, <3>1, <3>2, <3>3 DEF NumberInv
    <2>5. CASE loop.purpose # "due"
      <3>1. SameNumbers /\ (loop'.pc = "ended" \/ (loop.purpose = "last" /\ loop'.pc = "final"))
        BY <2>5, PullDoneFields
      <3>5. loop'.pc = "final" => Closed'
        BY DEF Closed
      <3>2. Pulled' = Pulled /\ This' = This
        BY <3>1 DEF Pulled, This, SameNumbers
      <3>3. loop.purpose = "last" => files[This].finished = Finished
        BY <1>8
      <3>4. QED
        BY <1>1, <1>3, <1>5, <2>1, <2>2, <2>3, <3>1, <3>2, <3>3, <3>5 DEF NumberInv, SameNumbers
    <2>6. QED
      BY <2>4, <2>5
  <1>11. QED
    BY <1>3, <1>4, <1>7, <1>9, <1>10 DEF Inv

\* The loop is started, on what earlier loops left here.
LEMMA StartLoopStep ==
  ASSUME Inv, StartLoop PROVE Inv'
  <1>1. /\ loop.pc = "off" /\ loop' = [Off EXCEPT !.pc = "poll", !.sequence = NextSequence]
        /\ LocalStep /\ faults' = faults
    BY DEF StartLoop
  <1>2. /\ faults \in Nat /\ faults' \in 0..MaxFaults /\ faults <= faults' /\ NumberInv
    BY <1>1, BoundsAssumption DEF Inv, TypeOK
  <1> DEFINE S == {0} \cup {n \in 1..MaxSequence : Exists(Checkpoint(n))}
  <1>3. Max(S) \in S /\ \A n \in S : n <= Max(S)
    <2>1. MaxSequence \in Nat
      BY FirstFacts
    <2>2. S \subseteq 0..MaxSequence /\ S # {}
      BY <2>1
    <2> HIDE DEF S
    <2>3. QED
      BY <2>1, <2>2, MaxOfBounded
  <1>4. /\ First(faults) \in Nat \ {0} /\ First(faults) + Cardinality(Trials) <= MaxSequence
        /\ Cardinality(Trials) \in Nat /\ MaxSequence \in Nat
    BY <1>1, <1>2, FirstFacts, CardFacts
  <1>5. NextSequence = Max(S) + 1
    BY DEF NextSequence
  <1>6. \A n \in S : n < First(faults)
    BY <1>1, <1>2, <1>4 DEF NumberInv
  <1>7. S \subseteq Nat
    BY <1>4
  <1> HIDE DEF S
  <1>8. /\ NextSequence \in 1..MaxSequence /\ NextSequence <= First(faults) /\ NextSequence \in Nat
    <2>1. Max(S) \in Nat /\ Max(S) < First(faults)
      BY <1>3, <1>6, <1>7
    <2>2. QED
      BY <1>4, <1>5, <2>1
  <1>9. \A n \in 1..MaxSequence : Exists(Checkpoint(n)) => n < NextSequence
    BY <1>3, <1>4, <1>5, <1>7 DEF S
  <1>10. Off \in Loops
    BY DEF Off, Loops, LoopPlaces, Purposes, Lists
  <1>11. /\ loop'.pc = "poll" /\ loop'.sequence = NextSequence /\ loop'.pulled = FALSE
         /\ loop'.completed = 0 /\ loop'.seenCompleted = 0 /\ loop'.seenDone = FALSE
         /\ loop'.how = "none" /\ loop'.purpose = "none"
    BY <1>1 DEF Off
  <1>12. loop' \in Loops
    BY <1>1, <1>8, <1>10 DEF Loops, LoopPlaces
  <1>13. /\ TypeOK' /\ TrialInv' /\ MachineInv' /\ FilesInv' /\ script' = script /\ Home' = Home
         /\ First(faults)' = First(faults) /\ Finished' = Finished /\ UNCHANGED files
    BY <1>1, <1>2, <1>12, QuietFrame DEF First
  <1>14. ~Closed' /\ ~Doing({"due"})' /\ ~Doing({"last", "diagnostic"})' /\ ~Doing({"diagnostic"})'
    BY <1>11 DEF Closed, Doing
  <1>15. CopyInv' /\ PhaseInv' /\ FaultInv'
    BY <1>11, <1>14 DEF CopyInv, PhaseInv, FaultInv
  <1>16. Pulled' = 0 /\ Cardinality(Finished') >= 0
    BY <1>11, <1>13, CardFacts DEF Pulled
  <1>17. \A n \in 1..MaxSequence : Exists(Checkpoint(n))' = Exists(Checkpoint(n))
    BY <1>13 DEF Exists
  <1>18. NumberInv'
    BY <1>4, <1>8, <1>9, <1>11, <1>13, <1>14, <1>16, <1>17 DEF NumberInv
  <1>19. QED
    BY <1>13, <1>15, <1>18 DEF Inv

\* The loop is killed and all it knew is gone.
LEMMA CrashLoopStep ==
  ASSUME Inv, CrashLoop PROVE Inv'
  <1>1. /\ loop.pc \notin {"off", "ended"} /\ loop' = Off /\ LocalStep /\ faults' = faults + 1
        /\ faults \in 0..MaxFaults /\ faults' \in 0..MaxFaults /\ faults \in Nat /\ faults <= faults'
        /\ NumberInv /\ loop \in Loops
    BY BoundsAssumption DEF CrashLoop, Fault, Inv, TypeOK
  <1>2. Off \in Loops /\ Off.pc = "off" /\ Off.completed = 0 /\ Off.seenCompleted = 0 /\ Off.seenDone = FALSE
    BY DEF Off, Loops, LoopPlaces, Purposes, Lists
  <1>3. /\ TypeOK' /\ TrialInv' /\ MachineInv' /\ FilesInv' /\ Finished' = Finished /\ UNCHANGED files
        /\ First(faults)' = First(faults')
    BY <1>1, <1>2, QuietFrame
  <1>4. ~Closed' /\ ~Doing({"due"})' /\ ~Doing({"last", "diagnostic"})' /\ ~Doing({"diagnostic"})'
    BY <1>1, <1>2 DEF Closed, Doing
  <1>5. CopyInv' /\ PhaseInv' /\ FaultInv'
    BY <1>1, <1>2, <1>4 DEF CopyInv, PhaseInv, FaultInv
  <1>6. Pulled \in Nat /\ Pulled <= Cardinality(Trials) /\ Cardinality(Trials) \in Nat /\ Cardinality(Finished) \in Nat
    <2>1. loop.completed \in Nat /\ loop.seenCompleted \in Nat
      BY <1>1 DEF Loops
    <2>2. loop.completed <= Cardinality(Finished)
      BY <1>1, <2>1, CardFacts DEF NumberInv
    <2>3. QED
      BY <2>1, <2>2, CardFacts DEF Pulled
  <1>7. First(faults') = First(faults) + Cardinality(Trials) + 1 /\ First(faults) \in Nat
    BY <1>1, FirstFacts
  <1>8. \A n \in 1..MaxSequence : Exists(Checkpoint(n)) => n <= loop.sequence
    <2>1. MaxSequence \in Nat /\ loop.sequence \in Nat
      BY <1>1, FirstFacts DEF Loops
    <2>2. QED
      BY <1>1, <2>1 DEF NumberInv
  <1>9. loop.sequence <= First(faults) + Pulled /\ loop.sequence \in Nat
    BY <1>1 DEF NumberInv, Loops
  <1>10. \A n \in 1..MaxSequence : Exists(Checkpoint(n))' => n < First(faults')
    <2>1. \A n \in 1..MaxSequence : Exists(Checkpoint(n))' = Exists(Checkpoint(n))
      BY <1>3 DEF Exists
    <2>2. \A n \in 1..MaxSequence : n \in Nat
      BY FirstFacts
    <2>3. loop.sequence < First(faults')
      BY <1>6, <1>7, <1>9
    <2>4. First(faults') \in Nat
      BY <1>6, <1>7
    <2>5. QED
      BY <1>8, <1>9, <2>1, <2>2, <2>3, <2>4
  <1>11. NumberInv'
    BY <1>1, <1>2, <1>3, <1>4, <1>6, <1>10 DEF NumberInv
  <1>12. QED
    BY <1>3, <1>5, <1>11 DEF Inv

\* The loop looks at the machine.
LEMMA ReadStateStep ==
  ASSUME Inv, ReadState PROVE Inv'
  <1> DEFINE seen == [loop EXCEPT !.failures = 0, !.seenFiles = Cardinality(WithResult),
                                  !.seenCompleted = Cardinality(Finished), !.seenDone = script = "done"]
             first == ~loop.pulled \/ seen.seenCompleted - loop.completed >= Increment
  <1>1. /\ loop.pc = "poll" /\ LocalStep /\ faults' = faults
        /\ \E due \in {first} \cup (IF loop.sequence <= MaxTimely THEN {TRUE} ELSE {}) :
             loop' = [seen EXCEPT !.pc = IF due /\ seen.seenCompleted >= 1 THEN "due" ELSE Closing(seen)]
    BY DEF ReadState
  <1>2. /\ faults \in 0..MaxFaults /\ faults' \in 0..MaxFaults /\ faults \in Nat /\ faults <= faults'
        /\ NumberInv /\ loop \in Loops
    BY <1>1, BoundsAssumption DEF Inv, TypeOK
  <1>3. PICK due : /\ due => first \/ loop.sequence <= MaxTimely
                   /\ loop' = [seen EXCEPT !.pc = IF due /\ seen.seenCompleted >= 1 THEN "due" ELSE Closing(seen)]
    BY <1>1
  <1>4. Cardinality(WithResult) \in Nat /\ Cardinality(Finished) \in Nat
    BY CardFacts DEF WithResult
  <1>5. /\ seen.seenCompleted = Cardinality(Finished) /\ (seen.seenDone <=> script = "done")
        /\ seen.sequence = loop.sequence /\ seen.completed = loop.completed /\ seen.pulled = loop.pulled
        /\ seen.purpose = loop.purpose
    BY <1>2 DEF Loops
  <1>6. seen \in Loops
    BY <1>2, <1>4 DEF Loops
  <1> DEFINE p == IF due /\ seen.seenCompleted >= 1 THEN "due" ELSE Closing(seen)
  <1>7. /\ p \in {"due", "poll", "last", "final"} /\ (p \in {"last", "final"} => script = "done")
        /\ p = "due" => /\ first \/ loop.sequence <= MaxTimely
                        /\ Cardinality(Finished) >= 1
    BY <1>3, <1>5 DEF Closing
  <1>8. loop' = [seen EXCEPT !.pc = p]
    BY <1>3
  <1>9. first <=> ~loop.pulled \/ Cardinality(Finished) - loop.completed >= Increment
    BY <1>5
  <1> HIDE DEF p, seen, first
  <1>10. loop' \in Loops
    BY <1>6, <1>7, <1>8 DEF Loops, LoopPlaces
  <1>11. /\ loop'.pc = p /\ loop'.seenCompleted = Cardinality(Finished) /\ (loop'.seenDone <=> script = "done")
         /\ loop'.sequence = loop.sequence /\ loop'.completed = loop.completed /\ loop'.pulled = loop.pulled
    BY <1>5, <1>6, <1>8 DEF Loops
  <1>12. /\ TypeOK' /\ TrialInv' /\ MachineInv' /\ FilesInv' /\ Finished' = Finished /\ UNCHANGED <<files, script>>
         /\ First(faults)' = First(faults) /\ Home' = Home
    BY <1>1, <1>2, <1>10, QuietFrame DEF First
  <1>13. ~Doing({"due"})' /\ ~Doing({"last", "diagnostic"})' /\ ~Doing({"diagnostic"})' /\ ~Closed /\ ~Doing(ForCheckpoint)
    BY <1>1, <1>7, <1>11 DEF Closed, Doing
  <1>14. Closed' => script = "done"
    BY <1>7, <1>11 DEF Closed
  <1>15. CopyInv' /\ PhaseInv' /\ FaultInv'
    BY <1>7, <1>11, <1>12, <1>13, <1>14 DEF CopyInv, PhaseInv, FaultInv
  <1>16. /\ \A n \in 1..MaxSequence : Exists(Checkpoint(n))' => n < loop.sequence
         /\ loop.sequence \in 1..MaxSequence /\ loop.sequence <= First(faults) + Pulled /\ Pulled' = Pulled
         /\ loop.completed <= loop.seenCompleted /\ loop.seenCompleted <= Cardinality(Finished)
         /\ loop.completed \in Nat /\ loop.seenCompleted \in Nat /\ loop.sequence \in Nat
    <2>1. \A n \in 1..MaxSequence : Exists(Checkpoint(n))' = Exists(Checkpoint(n))
      BY <1>12 DEF Exists
    <2>2. QED
      BY <1>1, <1>2, <1>11, <1>13, <2>1 DEF NumberInv, Pulled, Loops
  <1>17. p = "due" => loop.sequence + 1 <= First(faults) + Cardinality(Finished)
    <2>1. First(faults) \in Nat /\ MaxTimely + 1 <= First(faults) /\ MaxTimely \in Nat /\ Increment \in Nat \ {0}
      BY <1>2, FirstFacts, BoundsAssumption, LoopAssumption
    <2>2. CASE ~loop.pulled
      BY <1>4, <1>7, <1>16, <2>1, <2>2 DEF Pulled
    <2>3. CASE loop.pulled /\ Cardinality(Finished) - loop.completed >= Increment
      BY <1>4, <1>7, <1>16, <2>1, <2>3 DEF Pulled
    <2>4. CASE loop.sequence <= MaxTimely
      BY <1>4, <1>7, <1>16, <2>1, <2>4
    <2>5. QED
      BY <1>7, <1>9, <2>2, <2>3, <2>4
  <1>18. NumberInv'
    <2>1. loop.completed <= Cardinality(Finished)
      BY <1>4, <1>16
    <2>2. QED
      BY <1>4, <1>7, <1>11, <1>12, <1>13, <1>16, <1>17, <2>1 DEF NumberInv
  <1>19. QED
    BY <1>12, <1>15, <1>18 DEF Inv

\* A checkpoint is packed, and its copy begins unless the file is there already.
LEMMA PullCheckpointStep ==
  ASSUME Inv, PullCheckpoint PROVE Inv'
  <1>1. /\ loop.pc \in {"due", "last", "diagnostic"} /\ snapshot' = Pack
        /\ UNCHANGED <<trial, script, status, archive, faults>>
        /\ BeginCopy(<<This>>, loop.pc)
    BY DEF PullCheckpoint, remoteVars, This
  <1>2. loop \in Loops /\ NumberInv /\ TypeOK /\ loop.sequence \in 1..MaxSequence /\ loop.sequence \in Nat
    BY <1>1 DEF Inv, TypeOK, NumberInv, Loops
  <1>3. /\ This \in Names /\ This \notin {FinalFiles[1], FinalFiles[2], FinalFiles[3]}
        /\ <<This>> \in Lists /\ <<This>> # <<>> /\ <<This>>[1] = This /\ DOMAIN <<This>> = {1}
    BY <1>2, NameFacts, OneFacts DEF This, Lists
  <1>4. Pack \in Packs /\ Pack.state = "whole" /\ Pack.finished = Finished
    BY DEF Pack, Packs, WithResult, Finished
  <1>5. Finished' = Finished /\ First(faults)' = First(faults) /\ faults \in Nat
    BY <1>1, BoundsAssumption DEF Finished, First, Inv, TypeOK
  <1>6. TrialInv' /\ MachineInv'
    BY <1>1, <1>4, <1>5 DEF Inv, TrialInv, MachineInv
  <1>7. CASE Exists(This)
    <2>1. /\ loop' = [loop EXCEPT !.pc = "failed", !.purpose = loop.pc] /\ UNCHANGED <<files, partial>>
      BY <1>1, <1>3, <1>7 DEF BeginCopy, localVars
    <2>2. "failed" \in LoopPlaces /\ loop.pc \in Purposes
      BY <1>1 DEF LoopPlaces, Purposes
    <2>3. /\ loop' \in Loops /\ loop'.pc = "failed" /\ SameNumbers /\ SameSeen
          /\ loop'.purpose = loop.pc
      BY <1>2, <2>1, <2>2, PurposeFields
    <2>4. Closed /\ files[This].finished = Finished
      <3>1. ~Doing(ForCheckpoint)
        BY <1>1 DEF Doing
      <3>2. QED
        BY <1>1, <1>2, <1>7, <3>1 DEF NumberInv, This
    <2>5. loop.pc = "diagnostic" /\ Home
      BY <1>1, <1>3, <2>4 DEF Closed, Home
    <2>6. TypeOK'
      BY <1>1, <1>2, <1>4, <2>1, <2>3 DEF TypeOK
    <2>7. FilesInv'
      BY <1>1, <1>5, <2>1, FilesFrame DEF Inv
    <2>8. CopyInv'
      BY <2>3 DEF CopyInv
    <2>9. /\ ~Doing({"due"})' /\ ~Doing({"last", "diagnostic"})' /\ ~Doing({"diagnostic"})' /\ ~Doing(ForCheckpoint)'
          /\ ~Doing(ForCheckpoint) /\ Closed'
      BY <1>1, <2>3, <2>5 DEF Closed, Doing
    <2>10. PhaseInv'
      BY <1>1, <2>3, <2>4, <2>9 DEF Inv, PhaseInv, SameSeen
    <2>11. Home' = Home
      BY <1>5, <2>1 DEF Home
    <2>12. FaultInv'
      BY <2>3, <2>5, <2>9, <2>11 DEF FaultInv
    <2>13. NumberInv'
      <3>1. Pulled' = Pulled /\ This' = This /\ \A n \in 1..MaxSequence : Exists(Checkpoint(n))' = Exists(Checkpoint(n))
        BY <2>1, <2>3 DEF SameNumbers, Pulled, This, Exists
      <3>2. QED
        BY <1>1, <1>2, <1>5, <2>1, <2>3, <2>4, <2>9, <3>1 DEF NumberInv, SameNumbers
    <2>14. QED
      BY <1>6, <2>6, <2>7, <2>8, <2>10, <2>12, <2>13 DEF Inv
  <1>8. CASE ~Exists(This)
    <2>1. /\ loop' = [[loop EXCEPT !.purpose = loop.pc, !.copying = <<This>>, !.staged = <<This>>] EXCEPT !.pc = "copy"]
          /\ partial' = [partial EXCEPT ![This] = [Absent EXCEPT !.state = "torn"]] /\ UNCHANGED files
      BY <1>1, <1>3, <1>8 DEF BeginCopy, Staged
    <2>2. /\ loop'.pc = "copy" /\ SameNumbers /\ SameSeen /\ loop'.purpose = loop.pc
          /\ loop'.copying = <<This>> /\ loop'.staged = <<This>>
      BY <1>2, <2>1 DEF Loops, SameNumbers, SameSeen
    <2>3. loop' \in Loops
      BY <1>1, <1>2, <1>3, <2>1 DEF Loops, LoopPlaces, Purposes
    <2> DEFINE torn == [Absent EXCEPT !.state = "torn"]
    <2>4. torn \in Packs /\ torn.state = "torn" /\ torn.finished = {}
      BY DEF Absent, Packs
    <2>5. /\ partial' \in [Names -> Packs] /\ partial'[This] = torn
          /\ \A n \in Names \ {This} : partial'[n] = partial[n]
      BY <1>2, <1>3, <2>1, <2>4 DEF TypeOK
    <2> HIDE DEF torn
    <2>6. TypeOK'
      BY <1>1, <1>2, <1>4, <2>1, <2>3, <2>5 DEF TypeOK
    <2>7. FilesInv'
      <3>1. \A n \in Names : partial'[n].finished \subseteq Finished
        BY <2>4, <2>5 DEF Inv, FilesInv
      <3>2. partial'[FinalFiles[1]] = partial[FinalFiles[1]]
        BY <1>3, <2>5, NameFacts
      <3>3. QED
        BY <1>1, <1>5, <2>1, <3>1, <3>2 DEF Inv, FilesInv, Exists
    <2>8. This' = This /\ Pulled' = Pulled /\ \A n : Exists(n)' = Exists(n)
      BY <2>1, <2>2 DEF This, Pulled, SameNumbers, Exists
    <2>9. CopyInv'
      BY <1>1, <1>4, <1>8, <2>2, <2>8 DEF CopyInv, ForCheckpoint
    <2>10. /\ Doing({"last", "diagnostic"})' => loop.pc \in {"last", "diagnostic"}
           /\ Doing({"diagnostic"})' => loop.pc = "diagnostic"
           /\ Doing({"due"})' => loop.pc = "due"
           /\ Closed' <=> loop.pc = "diagnostic"
           /\ Closed => loop.pc = "diagnostic"
           /\ ~Doing(ForCheckpoint)
      BY <1>1, <2>2 DEF Doing, Closed
    <2>11. PhaseInv'
      BY <1>1, <1>4, <1>5, <2>2, <2>10 DEF Inv, PhaseInv, SameSeen, Closed
    <2>12. Home' = Home
      BY <1>5, <2>1 DEF Home
    <2>13. FaultInv'
      BY <1>1, <1>5, <2>2, <2>10, <2>12 DEF Inv, FaultInv
    <2>14. \A n \in 1..MaxSequence : Exists(Checkpoint(n)) => n < loop.sequence
      BY <1>1, <1>2, <1>8, <2>10 DEF NumberInv, This
    <2>15. NumberInv'
      BY <1>1, <1>2, <1>5, <2>2, <2>8, <2>10, <2>14 DEF NumberInv, SameNumbers
    <2>16. QED
      BY <1>6, <2>6, <2>7, <2>9, <2>11, <2>13, <2>15 DEF Inv
  <1>9. QED
    BY <1>7, <1>8

\* The files of the run's end: none of them may be here.
LEMMA PullFinalStep ==
  ASSUME Inv, PullFinal PROVE Inv'
  <1>1. /\ loop.pc = "final" /\ UNCHANGED <<trial, script, status, archive, snapshot, faults>>
        /\ BeginCopy(FinalFiles, "final")
    BY DEF PullFinal, remoteVars
  <1>2. loop \in Loops /\ NumberInv /\ TypeOK /\ loop.sequence \in 1..MaxSequence /\ loop.sequence \in Nat
    BY <1>1 DEF Inv, TypeOK, NumberInv, Loops
  <1>3. Finished' = Finished /\ First(faults)' = First(faults) /\ faults \in Nat
    BY <1>1, BoundsAssumption DEF Finished, First, Inv, TypeOK
  <1>4. TrialInv' /\ MachineInv' /\ loop.seenDone /\ Closed
    BY <1>1, <1>3 DEF Inv, TrialInv, MachineInv, PhaseInv, Closed
  <1>5. /\ FinalFiles \in Lists /\ DOMAIN FinalFiles = 1..3 /\ FinalFiles # <<>>
        /\ FinalFiles[1] \in Names /\ FinalFiles[2] \in Names /\ FinalFiles[3] \in Names
    BY NameFacts, ListFacts DEF Lists
  <1>6. CASE \E i \in DOMAIN FinalFiles : Exists(FinalFiles[i])
    <2>1. /\ loop' = [loop EXCEPT !.pc = "failed", !.purpose = "final"] /\ UNCHANGED <<files, partial>>
      BY <1>1, <1>6 DEF BeginCopy, localVars
    <2>2. "failed" \in LoopPlaces /\ "final" \in Purposes
      BY DEF LoopPlaces, Purposes
    <2>3. /\ loop' \in Loops /\ loop'.pc = "failed" /\ SameNumbers /\ SameSeen /\ loop'.purpose = "final"
      BY <1>2, <2>1, <2>2, PurposeFields
    <2>4. Home
      <3>1. Exists(FinalFiles[1])
        BY <1>5, <1>6 DEF Inv, FilesInv
      <3>2. files[FinalFiles[1]] = archive /\ archive.state # "absent"
        BY <3>1 DEF Inv, FilesInv, Exists
      <3>3. QED
        BY <1>5, <3>2 DEF Inv, MachineInv, Home
    <2>5. TypeOK'
      BY <1>1, <1>2, <2>1, <2>3 DEF TypeOK
    <2>6. FilesInv'
      BY <1>1, <1>3, <2>1, FilesFrame DEF Inv
    <2>7. CopyInv'
      BY <2>3 DEF CopyInv
    <2>8. /\ ~Doing({"due"})' /\ ~Doing({"last", "diagnostic"})' /\ ~Doing({"diagnostic"})' /\ ~Doing(ForCheckpoint)'
          /\ ~Doing(ForCheckpoint) /\ Closed' /\ Home' = Home
      BY <1>1, <1>3, <2>1, <2>3 DEF Closed, Doing, Home
    <2>9. PhaseInv'
      BY <1>1, <1>4, <2>3, <2>8 DEF Inv, PhaseInv, SameSeen
    <2>10. FaultInv'
      BY <2>3, <2>4, <2>8 DEF FaultInv
    <2>11. NumberInv'
      <3>1. Pulled' = Pulled /\ This' = This /\ \A n \in 1..MaxSequence : Exists(Checkpoint(n))' = Exists(Checkpoint(n))
        BY <2>1, <2>3 DEF SameNumbers, Pulled, This, Exists
      <3>2. QED
        BY <1>1, <1>2, <1>3, <2>1, <2>3, <2>8, <3>1 DEF NumberInv, SameNumbers
    <2>12. QED
      BY <1>4, <2>5, <2>6, <2>7, <2>9, <2>10, <2>11 DEF Inv
  <1>7. CASE \A i \in DOMAIN FinalFiles : ~Exists(FinalFiles[i])
    <2>1. /\ loop' = [[loop EXCEPT !.purpose = "final", !.copying = FinalFiles, !.staged = FinalFiles] EXCEPT !.pc = "copy"]
          /\ partial' = [partial EXCEPT ![FinalFiles[1]] = [Absent EXCEPT !.state = "torn"]] /\ UNCHANGED files
      BY <1>1, <1>7 DEF BeginCopy, Staged
    <2>2. /\ loop'.pc = "copy" /\ SameNumbers /\ SameSeen /\ loop'.purpose = "final"
          /\ loop'.copying = FinalFiles /\ loop'.staged = FinalFiles
      BY <1>2, <2>1 DEF Loops, SameNumbers, SameSeen
    <2>3. loop' \in Loops
      BY <1>2, <1>5, <2>1 DEF Loops, LoopPlaces, Purposes
    <2> DEFINE torn == [Absent EXCEPT !.state = "torn"]
    <2>4. torn \in Packs /\ torn.state = "torn" /\ torn.finished = {}
      BY DEF Absent, Packs
    <2>5. /\ partial' \in [Names -> Packs] /\ partial'[FinalFiles[1]] = torn
          /\ \A n \in Names \ {FinalFiles[1]} : partial'[n] = partial[n]
      BY <1>2, <1>5, <2>1, <2>4 DEF TypeOK
    <2> HIDE DEF torn
    <2>6. TypeOK'
      BY <1>1, <1>2, <2>1, <2>3, <2>5 DEF TypeOK
    <2>7. FilesInv'
      <3>1. \A n \in Names : partial'[n].finished \subseteq Finished
        BY <2>4, <2>5 DEF Inv, FilesInv
      <3>2. QED
        BY <1>1, <1>3, <2>1, <2>4, <2>5, <3>1 DEF Inv, FilesInv, Exists
    <2>8. This' = This /\ Pulled' = Pulled /\ \A n : Exists(n)' = Exists(n)
      BY <2>1, <2>2 DEF This, Pulled, SameNumbers, Exists
    <2>9. CopyInv'
      <3>1. \A i \in 1..3 : ~Exists(FinalFiles[i])
        BY <1>5, <1>7
      <3>2. QED
        BY <2>2, <2>8, <3>1, ListFacts DEF CopyInv
    <2>10. /\ ~Doing({"due"})' /\ ~Doing({"last", "diagnostic"})' /\ ~Doing({"diagnostic"})'
           /\ ~Doing(ForCheckpoint) /\ Closed'
      BY <1>1, <2>2 DEF Doing, Closed
    <2>11. PhaseInv'
      BY <1>1, <1>4, <2>2, <2>10 DEF Inv, PhaseInv, SameSeen
    <2>12. FaultInv'
      BY <2>2, <2>10 DEF FaultInv
    <2>13. NumberInv'
      BY <1>1, <1>2, <1>3, <2>1, <2>2, <2>8, <2>10 DEF NumberInv, SameNumbers
    <2>14. QED
      BY <1>4, <2>6, <2>7, <2>9, <2>11, <2>12, <2>13 DEF Inv
  <1>8. QED
    BY <1>6, <1>7

\* A copy is complete, and the next one begins or all of them are to be published.
LEMMA FinishCopyStep ==
  ASSUME Inv, FinishCopy PROVE Inv'
  <1> DEFINE name == Head(loop.copying)
             rest == Tail(loop.copying)
             torn == [Absent EXCEPT !.state = "torn"]
  <1>1. /\ loop.pc = "copy" /\ SourceOf(name).state = "whole"
        /\ partial' = [n \in Names |-> CASE n = name -> SourceOf(name)
                                         [] rest # <<>> /\ n = Head(rest) -> torn
                                         [] OTHER -> partial[n]]
        /\ loop' = [loop EXCEPT !.copying = rest, !.pc = IF rest = <<>> THEN "publish" ELSE "copy"]
        /\ UNCHANGED <<trial, script, status, archive, snapshot, files, faults>>
    BY DEF FinishCopy, remoteVars
  <1>2. loop \in Loops /\ NumberInv /\ TypeOK /\ loop.sequence \in 1..MaxSequence /\ loop.sequence \in Nat
    BY <1>1 DEF Inv, TypeOK, NumberInv, Loops
  <1>3. Finished' = Finished /\ First(faults)' = First(faults) /\ faults \in Nat
    BY <1>1, BoundsAssumption DEF Finished, First, Inv, TypeOK
  <1>4. TrialInv' /\ MachineInv'
    BY <1>1, <1>3 DEF Inv, TrialInv, MachineInv
  <1>5. torn \in Packs /\ torn.state = "torn" /\ torn.finished = {} /\ Log \in Packs /\ Log.state = "whole" /\ Log.finished = {}
    BY DEF Absent, Log, Packs
  \* The copies, one by one.
  <1>6. \/ /\ loop.purpose \in ForCheckpoint /\ name = This /\ rest = <<>> /\ SourceOf(name) = snapshot
           /\ loop.staged = <<This>> /\ ~Exists(This)
        \/ /\ loop.purpose = "final" /\ loop.staged = FinalFiles /\ \A i \in 1..3 : ~Exists(FinalFiles[i])
           /\ \/ /\ loop.copying = FinalFiles /\ name = FinalFiles[1] /\ rest = Logs /\ SourceOf(name) = archive
              \/ /\ loop.copying = Logs /\ name = FinalFiles[2] /\ rest = Log2 /\ SourceOf(name) = Log
                 /\ Ready(FinalFiles[1])
              \/ /\ loop.copying = Log2 /\ name = FinalFiles[3] /\ rest = <<>> /\ SourceOf(name) = Log
                 /\ Ready(FinalFiles[1]) /\ Ready(FinalFiles[2])
    <2>1. CASE loop.purpose \in ForCheckpoint
      <3>1. loop.purpose # "final" /\ loop.copying = <<This>> /\ loop.staged = <<This>> /\ ~Exists(This)
        BY <1>1, <2>1 DEF Inv, CopyInv, ForCheckpoint
      <3>2. QED
        BY <2>1, <3>1, OneFacts, SourceFacts DEF This
    <2>2. CASE loop.purpose \notin ForCheckpoint
      <3>1. /\ loop.purpose = "final" /\ loop.staged = FinalFiles /\ \A i \in 1..3 : ~Exists(FinalFiles[i])
            /\ loop.copying \in {FinalFiles, Logs, Log2}
            /\ loop.copying # FinalFiles => Ready(FinalFiles[1])
            /\ loop.copying = Log2 => Ready(FinalFiles[2])
        BY <1>1, <2>2 DEF Inv, CopyInv
      <3>2. QED
        BY <3>1, ListFacts, SourceFacts
    <2>3. QED
      BY <2>1, <2>2
  <1>7. /\ name \in Names /\ SourceOf(name) \in Packs /\ SourceOf(name).finished \subseteq Finished
        /\ name = FinalFiles[1] => SourceOf(name) = archive
        /\ rest \in {<<>>, Logs, Log2} /\ rest \in Lists
        /\ rest # <<>> => Head(rest) \in {FinalFiles[2], FinalFiles[3]} /\ Head(rest) # name
    <2>1. This \in Names /\ This \notin {FinalFiles[1], FinalFiles[2], FinalFiles[3]}
      BY <1>2, NameFacts DEF This
    <2>2. snapshot \in Packs /\ archive \in Packs /\ snapshot.finished \subseteq Finished
      BY DEF Inv, TypeOK, MachineInv
    <2>3. archive.state = "whole" => archive.finished = Finished
      BY DEF Inv, MachineInv
    <2>4. rest \in {<<>>, Logs, Log2}
      BY <1>6
    <2>5. rest # <<>> => Head(rest) \in {FinalFiles[2], FinalFiles[3]} /\ Head(rest) # name
      BY <1>6, ListFacts, NameFacts
    <2>6. /\ name \in Names /\ SourceOf(name) \in Packs /\ SourceOf(name).finished \subseteq Finished
          /\ name = FinalFiles[1] => SourceOf(name) = archive
      BY <1>1, <1>5, <1>6, <2>1, <2>2, <2>3, NameFacts
    <2>7. QED
      BY <2>4, <2>5, <2>6 DEF Lists
  <1>8. /\ loop'.copying = rest /\ loop'.pc = (IF rest = <<>> THEN "publish" ELSE "copy") /\ SameNumbers /\ SameSeen
        /\ loop'.purpose = loop.purpose /\ loop'.staged = loop.staged
    BY <1>1, <1>2 DEF Loops, SameNumbers, SameSeen
  <1>9. loop' \in Loops
    BY <1>1, <1>2, <1>7 DEF Loops, LoopPlaces
  <1> HIDE DEF torn
  <1>10. /\ partial'[name] = SourceOf(name)
         /\ rest # <<>> => partial'[Head(rest)] = torn
         /\ \A n \in Names : n # name /\ (rest = <<>> \/ n # Head(rest)) => partial'[n] = partial[n]
    <2>1. Head(rest) \in Names \/ rest = <<>>
      BY <1>7, NameFacts
    <2>2. QED
      BY <1>1, <1>7, <2>1
  <1>11. \A n \in Names : \/ partial'[n] = SourceOf(name) /\ n = name
                          \/ partial'[n] = torn /\ n # name
                          \/ partial'[n] = partial[n] /\ n # name
    BY <1>7, <1>10
  <1>12. TypeOK'
    <2>1. \A n \in Names : partial'[n] \in Packs
      BY <1>2, <1>5, <1>7, <1>11 DEF TypeOK
    <2>2. partial' = [n \in Names |-> partial'[n]]
      BY <1>1
    <2>3. partial' \in [Names -> Packs]
      BY <2>1, <2>2
    <2>4. QED
      BY <1>1, <1>2, <1>9, <2>3 DEF TypeOK
  <1>13. FilesInv'
    <2>1. \A n \in Names : partial'[n].finished \subseteq Finished
      BY <1>5, <1>7, <1>11 DEF Inv, FilesInv
    <2>2. partial'[FinalFiles[1]].state = "whole" => partial'[FinalFiles[1]] = archive
      BY <1>5, <1>7, <1>11, NameFacts DEF Inv, FilesInv
    <2>3. QED
      BY <1>1, <1>3, <2>1, <2>2 DEF Inv, FilesInv, Exists
  <1>14. This' = This /\ Pulled' = Pulled /\ (\A n : Exists(n)' = Exists(n)) /\ Home' = Home
    BY <1>1, <1>3, <1>8 DEF This, Pulled, SameNumbers, Exists, Home
  <1>15. \A n \in Names : ~Exists(n) => files[n] = Absent
    BY DEF Inv, FilesInv, Exists
  <1>16. CopyInv'
    <2>1. CASE loop.purpose \in ForCheckpoint
      <3>1. /\ rest = <<>> /\ name = This /\ SourceOf(name) = snapshot /\ loop.staged = <<This>> /\ ~Exists(This)
            /\ loop.purpose # "final"
        BY <1>6, <2>1 DEF ForCheckpoint
      <3>2. partial'[This] = snapshot /\ snapshot.state = "whole"
        BY <1>1, <1>10, <3>1
      <3>3. QED
        BY <1>1, <1>8, <1>14, <2>1, <3>1, <3>2 DEF CopyInv
    <2>2. CASE loop.purpose \notin ForCheckpoint
      <3>1. loop.purpose = "final" /\ loop.staged = FinalFiles /\ \A i \in 1..3 : ~Exists(FinalFiles[i])
        BY <1>6, <2>2
      <3>6. files' = files /\ SourceOf(name).state = "whole"
        BY <1>1
      <3>7. /\ files[FinalFiles[1]] = Absent /\ files[FinalFiles[2]] = Absent /\ files[FinalFiles[3]] = Absent
            /\ FinalFiles[1] \in Names /\ FinalFiles[2] \in Names /\ FinalFiles[3] \in Names
        BY <1>15, <3>1, NameFacts
      <3>2. CASE loop.copying = FinalFiles
        <4>1. name = FinalFiles[1] /\ rest = Logs /\ SourceOf(name) = archive
          BY <1>6, <2>2, <3>2, ListFacts
        <4>2. Ready(FinalFiles[1])'
          BY <1>10, <3>6, <3>7, <4>1 DEF Ready
        <4>3. QED
          BY <1>8, <1>14, <3>1, <4>1, <4>2, ListFacts DEF CopyInv
      <3>3. CASE loop.copying = Logs
        <4>1. name = FinalFiles[2] /\ rest = Log2 /\ SourceOf(name) = Log /\ Ready(FinalFiles[1])
          BY <1>6, <2>2, <3>3, ListFacts
        <4>2. Ready(FinalFiles[2])'
          BY <1>10, <3>6, <3>7, <4>1 DEF Ready
        <4>3. Ready(FinalFiles[1])'
          BY <1>10, <3>6, <3>7, <4>1, NameFacts, ListFacts DEF Ready
        <4>4. QED
          BY <1>8, <1>14, <3>1, <4>1, <4>2, <4>3, ListFacts DEF CopyInv
      <3>4. CASE loop.copying = Log2
        <4>1. /\ name = FinalFiles[3] /\ rest = <<>> /\ SourceOf(name) = Log
              /\ Ready(FinalFiles[1]) /\ Ready(FinalFiles[2])
          BY <1>6, <2>2, <3>4, ListFacts
        <4>2. Ready(FinalFiles[3])'
          BY <1>10, <3>6, <3>7, <4>1 DEF Ready
        <4>3. Ready(FinalFiles[1])' /\ Ready(FinalFiles[2])'
          BY <1>10, <3>6, <3>7, <4>1, NameFacts DEF Ready
        <4>4. QED
          BY <1>8, <1>14, <3>1, <4>1, <4>2, <4>3, ListFacts DEF CopyInv
      <3>5. QED
        BY <1>6, <2>2, <3>2, <3>3, <3>4
    <2>3. QED
      BY <2>1, <2>2
  <1>17. /\ Doing({"last", "diagnostic"})' = Doing({"last", "diagnostic"})
         /\ Doing({"diagnostic"})' = Doing({"diagnostic"}) /\ Doing({"due"})' = Doing({"due"})
         /\ Closed' = Closed /\ loop'.pc \in {"copy", "publish"}
    BY <1>1, <1>8 DEF Doing, Closed
  <1>18. PhaseInv'
    BY <1>1, <1>3, <1>8, <1>17 DEF Inv, PhaseInv, SameSeen
  <1>19. FaultInv'
    BY <1>1, <1>14, <1>17 DEF Inv, FaultInv
  <1>20. NumberInv'
    <2>1. loop.staged # <<>>
      BY <1>1, CopyFacts
    <2>2. \A n \in 1..MaxSequence : Exists(Checkpoint(n)) =>
             n < loop.sequence \/ (n = loop.sequence /\ Closed /\ files[This].finished = Finished)
      BY <1>1, <1>2, <2>1 DEF NumberInv
    <2>3. QED
      BY <1>1, <1>2, <1>3, <1>8, <1>14, <1>17, <2>2 DEF NumberInv, SameNumbers
  <1>21. QED
    BY <1>4, <1>12, <1>13, <1>16, <1>18, <1>19, <1>20 DEF Inv

\* The file that is published next: it was copied whole, and nothing has its name.
LEMMA NextToPublish ==
  ASSUME Inv, loop.pc = "publish", loop.staged # <<>>
  PROVE  LET name == Head(loop.staged) IN
         /\ \/ /\ loop.purpose \in ForCheckpoint /\ loop.purpose # "final" /\ name = This /\ Tail(loop.staged) = <<>>
              /\ snapshot.state = "whole" /\ partial[This] = snapshot /\ files[This].state = "absent"
           \/ /\ loop.purpose = "final" /\ loop.purpose \notin ForCheckpoint
              /\ \/ /\ name = FinalFiles[1] /\ Tail(loop.staged) = Logs
                    /\ Ready(FinalFiles[1]) /\ Ready(FinalFiles[2]) /\ Ready(FinalFiles[3])
                 \/ /\ name = FinalFiles[2] /\ Tail(loop.staged) = Log2
                    /\ AtHome(FinalFiles[1]) /\ Ready(FinalFiles[2]) /\ Ready(FinalFiles[3])
                 \/ /\ name = FinalFiles[3] /\ Tail(loop.staged) = <<>>
                    /\ AtHome(FinalFiles[1]) /\ AtHome(FinalFiles[2]) /\ Ready(FinalFiles[3])
         /\ name \in Names /\ partial[name].state = "whole" /\ files[name].state = "absent"
  <1> DEFINE name == Head(loop.staged)
  <1>3. \/ /\ loop.purpose \in ForCheckpoint /\ loop.purpose # "final" /\ name = This /\ Tail(loop.staged) = <<>>
           /\ snapshot.state = "whole" /\ partial[This] = snapshot /\ files[This].state = "absent"
        \/ /\ loop.purpose = "final" /\ loop.purpose \notin ForCheckpoint
           /\ \/ /\ name = FinalFiles[1] /\ Tail(loop.staged) = Logs
                 /\ Ready(FinalFiles[1]) /\ Ready(FinalFiles[2]) /\ Ready(FinalFiles[3])
              \/ /\ name = FinalFiles[2] /\ Tail(loop.staged) = Log2
                 /\ AtHome(FinalFiles[1]) /\ Ready(FinalFiles[2]) /\ Ready(FinalFiles[3])
              \/ /\ name = FinalFiles[3] /\ Tail(loop.staged) = <<>>
                 /\ AtHome(FinalFiles[1]) /\ AtHome(FinalFiles[2]) /\ Ready(FinalFiles[3])
    <2>1. CASE loop.purpose \in ForCheckpoint
      <3>1. loop.purpose # "final"
        BY <2>1 DEF ForCheckpoint
      <3>2. loop.staged = <<This>> /\ snapshot.state = "whole" /\ partial[This] = snapshot /\ ~Exists(This)
        BY <3>1 DEF Inv, CopyInv
      <3>3. QED
        BY <2>1, <3>1, <3>2, OneFacts DEF This, Exists
    <2>2. CASE loop.purpose \notin ForCheckpoint
      <3>1. /\ loop.purpose = "final" /\ loop.staged \in {FinalFiles, Logs, Log2}
            /\ IF loop.staged = FinalFiles THEN Ready(FinalFiles[1]) ELSE AtHome(FinalFiles[1])
            /\ IF loop.staged \in {FinalFiles, Logs} THEN Ready(FinalFiles[2]) ELSE AtHome(FinalFiles[2])
            /\ Ready(FinalFiles[3])
        BY <2>2 DEF Inv, CopyInv
      <3>2. QED
        BY <2>2, <3>1, ListFacts
    <2>3. QED
      BY <2>1, <2>2
  <1>4. This \in Names
    BY NameFacts DEF Inv, NumberInv, This
  <1>5. Absent.state = "absent"
    BY DEF Absent
  <1>6. QED
    BY <1>3, <1>4, <1>5, NameFacts DEF Ready

\* publish_partial moves one file to its name.
LEMMA PublishStep ==
  ASSUME Inv, Publish PROVE Inv'
  <1> DEFINE name == Head(loop.staged)
  <1>1. /\ loop.pc = "publish" /\ loop.staged # <<>>
        /\ files' = [files EXCEPT ![name] = partial[name]]
        /\ partial' = [partial EXCEPT ![name] = Absent]
        /\ loop' = [loop EXCEPT !.staged = Tail(@)]
        /\ UNCHANGED <<trial, script, status, archive, snapshot, faults>>
    BY DEF Publish, remoteVars
  <1>2. loop \in Loops /\ NumberInv /\ TypeOK /\ loop.sequence \in 1..MaxSequence /\ loop.sequence \in Nat
    BY <1>1 DEF Inv, TypeOK, NumberInv, Loops
  <1>3. Finished' = Finished /\ First(faults)' = First(faults) /\ faults \in Nat
    BY <1>1, BoundsAssumption DEF Finished, First, Inv, TypeOK
  <1>4. TrialInv' /\ MachineInv'
    BY <1>1, <1>3 DEF Inv, TrialInv, MachineInv
  <1>5. Absent \in Packs /\ Absent.state = "absent" /\ Absent.finished = {}
    BY DEF Absent, Packs
  <1>6. /\ FinalFiles[1] \in Names /\ FinalFiles[2] \in Names /\ FinalFiles[3] \in Names /\ This \in Names
        /\ This \notin {FinalFiles[1], FinalFiles[2], FinalFiles[3]}
        /\ FinalFiles[1] # FinalFiles[2] /\ FinalFiles[1] # FinalFiles[3] /\ FinalFiles[2] # FinalFiles[3]
    BY <1>2, NameFacts DEF This
  <1>7. \/ /\ loop.purpose \in ForCheckpoint /\ loop.purpose # "final" /\ name = This /\ Tail(loop.staged) = <<>>
           /\ snapshot.state = "whole" /\ partial[This] = snapshot /\ files[This].state = "absent"
        \/ /\ loop.purpose = "final" /\ loop.purpose \notin ForCheckpoint
           /\ \/ /\ name = FinalFiles[1] /\ Tail(loop.staged) = Logs
                 /\ Ready(FinalFiles[1]) /\ Ready(FinalFiles[2]) /\ Ready(FinalFiles[3])
              \/ /\ name = FinalFiles[2] /\ Tail(loop.staged) = Log2
                 /\ AtHome(FinalFiles[1]) /\ Ready(FinalFiles[2]) /\ Ready(FinalFiles[3])
              \/ /\ name = FinalFiles[3] /\ Tail(loop.staged) = <<>>
                 /\ AtHome(FinalFiles[1]) /\ AtHome(FinalFiles[2]) /\ Ready(FinalFiles[3])
    BY <1>1, NextToPublish
  <1>8. /\ name \in Names /\ partial[name].state = "whole" /\ files[name].state = "absent"
        /\ Tail(loop.staged) \in {<<>>, Logs, Log2} /\ Tail(loop.staged) \in Lists
    <2>1. name \in Names /\ partial[name].state = "whole" /\ files[name].state = "absent"
      BY <1>1, NextToPublish
    <2>2. Tail(loop.staged) \in {<<>>, Logs, Log2}
      BY <1>7
    <2>3. QED
      BY <2>1, <2>2 DEF Lists
  <1>9. /\ loop'.staged = Tail(loop.staged) /\ loop'.pc = "publish" /\ SameNumbers /\ SameSeen
        /\ loop'.purpose = loop.purpose
    BY <1>1, <1>2 DEF Loops, SameNumbers, SameSeen
  <1>10. loop' \in Loops
    BY <1>1, <1>2, <1>8 DEF Loops
  <1> HIDE DEF name
  <1>11. /\ files' \in [Names -> Packs] /\ partial' \in [Names -> Packs]
         /\ files'[name] = partial[name] /\ partial'[name] = Absent
         /\ \A n \in Names \ {name} : files'[n] = files[n] /\ partial'[n] = partial[n]
    BY <1>1, <1>2, <1>5, <1>8 DEF TypeOK
  <1>12. TypeOK'
    BY <1>1, <1>2, <1>10, <1>11 DEF TypeOK
  <1>13. FilesInv'
    <2>1. \A n \in Names :
             /\ files'[n] = Absent \/ files'[n].state = "whole"
             /\ files'[n].finished \subseteq Finished /\ partial'[n].finished \subseteq Finished
      BY <1>5, <1>8, <1>11 DEF Inv, FilesInv
    <2>2. files'[FinalFiles[1]].state # "absent" => files'[FinalFiles[1]] = archive
      <3>1. CASE name = FinalFiles[1]
        BY <1>8, <1>11, <3>1 DEF Inv, FilesInv
      <3>2. CASE name # FinalFiles[1]
        BY <1>6, <1>11, <3>2 DEF Inv, FilesInv, Exists
      <3>3. QED
        BY <3>1, <3>2
    <2>3. partial'[FinalFiles[1]].state = "whole" => partial'[FinalFiles[1]] = archive
      BY <1>5, <1>6, <1>11 DEF Inv, FilesInv
    <2>4. ASSUME files'[FinalFiles[2]].state # "absent" \/ files'[FinalFiles[3]].state # "absent"
          PROVE  files'[FinalFiles[1]].state # "absent"
      <3>1. CASE name = FinalFiles[1]
        BY <1>8, <1>11, <3>1
      <3>2. CASE name \in {FinalFiles[2], FinalFiles[3]}
        <4>1. AtHome(FinalFiles[1]) /\ FinalFiles[1] # name
          BY <1>6, <1>7, <3>2
        <4>2. QED
          BY <1>6, <1>11, <4>1 DEF AtHome
      <3>3. CASE name \notin {FinalFiles[1], FinalFiles[2], FinalFiles[3]}
        BY <1>6, <1>11, <2>4, <3>3 DEF Inv, FilesInv, Exists
      <3>4. QED
        BY <3>1, <3>2, <3>3
    <2>5. QED
      BY <1>1, <1>3, <2>1, <2>2, <2>3, <2>4 DEF FilesInv, Exists
  <1>14. This' = This /\ Pulled' = Pulled
    BY <1>9 DEF This, Pulled, SameNumbers
  <1>15. CopyInv'
    <2>1. CASE loop.purpose \in ForCheckpoint
      <3>1. /\ loop.purpose # "final" /\ name = This /\ Tail(loop.staged) = <<>> /\ snapshot.state = "whole"
            /\ partial[This] = snapshot
        BY <1>7, <2>1
      <3>2. files'[This] = snapshot
        BY <1>11, <3>1
      <3>3. QED
        BY <1>1, <1>9, <1>14, <2>1, <3>1, <3>2 DEF CopyInv
    <2>2. CASE loop.purpose \notin ForCheckpoint
      <3>1. loop.purpose = "final"
        BY <1>7, <2>2
      <3>2. CASE name = FinalFiles[1]
        <4>1. /\ Tail(loop.staged) = Logs /\ Ready(FinalFiles[1]) /\ Ready(FinalFiles[2]) /\ Ready(FinalFiles[3])
          BY <1>6, <1>7, <2>2, <3>2
        <4>2. AtHome(FinalFiles[1])' /\ Ready(FinalFiles[2])' /\ Ready(FinalFiles[3])'
          BY <1>6, <1>11, <3>2, <4>1 DEF AtHome, Ready
        <4>3. QED
          BY <1>9, <3>1, <4>1, <4>2, ListFacts DEF CopyInv
      <3>3. CASE name = FinalFiles[2]
        <4>1. /\ Tail(loop.staged) = Log2 /\ AtHome(FinalFiles[1]) /\ Ready(FinalFiles[2]) /\ Ready(FinalFiles[3])
          BY <1>6, <1>7, <2>2, <3>3
        <4>2. AtHome(FinalFiles[1])' /\ AtHome(FinalFiles[2])' /\ Ready(FinalFiles[3])'
          BY <1>6, <1>11, <3>3, <4>1 DEF AtHome, Ready
        <4>3. QED
          BY <1>9, <3>1, <4>1, <4>2, ListFacts DEF CopyInv
      <3>4. CASE name = FinalFiles[3]
        <4>1. /\ Tail(loop.staged) = <<>> /\ AtHome(FinalFiles[1]) /\ AtHome(FinalFiles[2]) /\ Ready(FinalFiles[3])
          BY <1>6, <1>7, <2>2, <3>4
        <4>2. AtHome(FinalFiles[1])' /\ AtHome(FinalFiles[2])' /\ AtHome(FinalFiles[3])'
          BY <1>6, <1>11, <3>4, <4>1 DEF AtHome, Ready
        <4>3. QED
          BY <1>9, <3>1, <4>1, <4>2, ListFacts DEF CopyInv
      <3>5. QED
        BY <1>7, <2>2, <3>2, <3>3, <3>4
    <2>3. QED
      BY <2>1, <2>2
  <1>16. /\ Doing({"last", "diagnostic"})' = Doing({"last", "diagnostic"})
         /\ Doing({"diagnostic"})' = Doing({"diagnostic"}) /\ Doing({"due"})' = Doing({"due"})
         /\ Doing(ForCheckpoint)' = Doing(ForCheckpoint)
         /\ Closed' = Closed
    BY <1>1, <1>9 DEF Doing, Closed
  <1>17. PhaseInv'
    BY <1>1, <1>3, <1>9, <1>16 DEF Inv, PhaseInv, SameSeen
  <1>18. Home => Home'
    <2>1. ASSUME NEW n \in Names, files[n].finished = Finished PROVE files'[n].finished = Finished
      <3>1. CASE n # name
        BY <1>11, <2>1, <3>1
      <3>2. CASE n = name
        <4>1. files[n] = Absent /\ Finished = {}
          BY <1>5, <1>8, <2>1, <3>2 DEF Inv, FilesInv
        <4>2. partial[n].finished \subseteq {}
          BY <4>1 DEF Inv, FilesInv
        <4>3. QED
          BY <1>11, <3>2, <4>1, <4>2
      <3>3. QED
        BY <3>1, <3>2
    <2>2. QED
      BY <1>3, <2>1 DEF Home
  <1>19. FaultInv'
    BY <1>1, <1>9, <1>16, <1>18 DEF Inv, FaultInv
  <1>20. NumberInv'
    <2>1. CASE loop.purpose \in ForCheckpoint
      <3>1. name = This /\ loop'.staged = <<>> /\ Doing(ForCheckpoint)
        BY <1>1, <1>7, <1>9, <2>1 DEF Doing
      <3>2. \A n \in 1..MaxSequence : n # loop.sequence => (Exists(Checkpoint(n))' <=> Exists(Checkpoint(n)))
        <4>1. \A n \in 1..MaxSequence : n # loop.sequence => Checkpoint(n) \in Names /\ Checkpoint(n) # name
          BY <3>1, NameFacts DEF This
        <4>2. QED
          BY <1>11, <4>1 DEF Exists
      <3>3. \A n \in 1..MaxSequence : Exists(Checkpoint(n))' => n < loop.sequence \/ n = loop.sequence
        BY <1>1, <1>2, <3>2 DEF NumberInv
      <3>4. QED
        BY <1>1, <1>2, <1>3, <1>9, <1>14, <1>16, <3>1, <3>3 DEF NumberInv, SameNumbers
    <2>2. CASE loop.purpose \notin ForCheckpoint
      <3>1. name \in {FinalFiles[1], FinalFiles[2], FinalFiles[3]} /\ ~Doing(ForCheckpoint)
        BY <1>7, <2>2 DEF Doing
      <3>2. \A n \in 1..MaxSequence : Checkpoint(n) \in Names /\ Checkpoint(n) # name
        BY <3>1, NameFacts
      <3>3. \A n \in 1..MaxSequence : files'[Checkpoint(n)] = files[Checkpoint(n)]
        BY <1>11, <3>2
      <3>4. files'[This] = files[This] /\ \A n \in 1..MaxSequence : Exists(Checkpoint(n))' = Exists(Checkpoint(n))
        BY <1>2, <3>3 DEF This, Exists
      <3>5. QED
        BY <1>1, <1>2, <1>3, <1>9, <1>14, <1>16, <3>1, <3>4 DEF NumberInv, SameNumbers
    <2>3. QED
      BY <2>1, <2>2
  <1>21. QED
    BY <1>4, <1>12, <1>13, <1>15, <1>17, <1>19, <1>20 DEF Inv

-----------------------------------------------------------------------------
\* Before anything ran.
LEMMA InitInv == Init => Inv
  <1> SUFFICES ASSUME Init PROVE Inv
    OBVIOUS
  <1>1. /\ trial = [t \in Trials |-> Waiting] /\ script = "setup" /\ status = 1
        /\ archive = Absent /\ snapshot = Absent
        /\ files = [n \in Names |-> Absent] /\ partial = [n \in Names |-> Absent]
        /\ loop = Off /\ faults = 0
    BY DEF Init
  <1>2. Absent \in Packs /\ Absent.state = "absent" /\ Absent.finished = {}
    BY DEF Absent, Packs
  <1>3. Waiting \in Records /\ Waiting.at = "queued" /\ Waiting.error = "none" /\ Waiting.kind = "pending"
    BY DEF Waiting, Records
  <1>4. Off \in Loops
    BY DEF Off, Loops, LoopPlaces, Purposes, Lists
  <1>5. /\ Off.pc = "off" /\ Off.purpose = "none" /\ Off.how = "none" /\ Off.seenDone = FALSE
        /\ Off.completed = 0 /\ Off.seenCompleted = 0
    BY DEF Off
  <1>6. TypeOK
    BY <1>1, <1>2, <1>3, <1>4, BoundsAssumption DEF TypeOK
  <1>7. TrialInv /\ Finished = {}
    BY <1>1, <1>3 DEF TrialInv, Finished
  <1>8. MachineInv
    BY <1>1, <1>2, <1>3, <1>7 DEF MachineInv
  <1>9. FilesInv
    BY <1>1, <1>2, NameFacts DEF FilesInv, Exists
  <1>10. ~Closed /\ ~Doing({"due"}) /\ ~Doing({"last", "diagnostic"}) /\ ~Doing({"diagnostic"})
    BY <1>1, <1>5 DEF Closed, Doing
  <1>11. CopyInv /\ PhaseInv /\ FaultInv
    BY <1>1, <1>5, <1>10 DEF CopyInv, PhaseInv, FaultInv
  <1>12. \A n \in 1..MaxSequence : ~Exists(Checkpoint(n))
    BY <1>1, <1>2, NameFacts DEF Exists
  <1>13. Cardinality(Finished) \in Nat
    BY CardFacts
  <1>14. NumberInv
    BY <1>1, <1>5, <1>10, <1>12, <1>13 DEF NumberInv
  <1>15. QED
    BY <1>6, <1>7, <1>8, <1>9, <1>11, <1>14 DEF Inv

\* Every step keeps the invariant.
LEMMA StepInv ==
  ASSUME Inv, Next PROVE Inv'
  <1>1. CASE TrialStep
    BY <1>1, TrialSteps
  <1>2. CASE ScriptStep
    BY <1>2, ScriptSteps
  <1>3. CASE LoopStep
    BY <1>3, StartLoopStep, ReadStateStep, PullCheckpointStep, PullFinalStep, FinishCopyStep,
       AfterFailureStep, PublishStep, PullDoneStep DEF LoopStep
  <1>4. CASE FaultStep
    BY <1>4, ScriptFaults, CrashLoopStep, ReadFailsStep, PackingFailsStep, CopyFailsStep DEF FaultStep
  <1>5. QED
    BY <1>1, <1>2, <1>3, <1>4 DEF Next

\* What the run and the loop keep, for any suite, any number of trials at a time and any faults.
THEOREM Invariance == Spec => []Inv
  <1>1. Inv /\ UNCHANGED vars => Inv'
    BY DEF vars, remoteVars, localVars, Inv, TypeOK, TrialInv, MachineInv, FilesInv, CopyInv, PhaseInv,
           NumberInv, FaultInv, Home, Exists, Ready, AtHome, This, Doing, Closed, Pulled, First, Finished
  <1>2. QED
    BY <1>1, InitInv, StepInv, PTL DEF Spec

\* A run reported as a success was judged: from run_trial's outcome over the job's acceptance and the
\* status of the script to the code of run_loop (run_job.py, remote_run.sh, checkpoint_loop.py).
THEOREM Judged == Spec => []SuccessWasJudged
  <1>1. Inv => SuccessWasJudged
    <2> SUFFICES ASSUME Inv, loop.pc = "ended", loop.code = 0
                 PROVE  /\ \A i \in DOMAIN FinalFiles : files[FinalFiles[i]].state = "whole"
                        /\ files[FinalFiles[1]].finished = Trials
                        /\ \E t \in Trials : trial[t].judged
      BY DEF SuccessWasJudged
    <2>1. status = 0 /\ \A i \in 1..3 : AtHome(FinalFiles[i])
      BY DEF Inv, FaultInv
    <2>2. Finished = Trials /\ \E t \in Trials : trial[t].judged
      BY <2>1 DEF Inv, MachineInv
    <2>3. files[FinalFiles[1]].state = "whole" /\ files[FinalFiles[1]] = archive
      BY <2>1 DEF AtHome, Inv, FilesInv, Exists
    <2>4. archive.finished = Finished
      BY <2>3 DEF Inv, MachineInv
    <2>5. QED
      BY <2>1, <2>2, <2>3, <2>4, ListFacts DEF AtHome
  <1>2. QED
    BY <1>1, Invariance, PTL

\* Every finished result is in a file at home when the loop has followed the run to its end, also
\* when one thing went wrong (checkpoint_loop.py: the last checkpoint and the diagnostic one).
THEOREM HomeAtLast == Spec => []ResultsComeHome
  <1>1. Inv => ResultsComeHome
    <2> SUFFICES ASSUME Inv, loop.pc = "ended", loop.how # "lease_lost", faults <= 1
                 PROVE  Finished = UNION {files[n].finished : n \in Names}
      BY DEF ResultsComeHome
    <2>1. faults \in Nat
      BY BoundsAssumption DEF Inv, TypeOK
    <2>2. Home
      BY <2>1 DEF Inv, FaultInv
    <2>3. \A n \in Names : files[n].finished \subseteq Finished
      BY DEF Inv, FilesInv
    <2>4. QED
      BY <2>2, <2>3 DEF Home
  <1>2. QED
    BY <1>1, Invariance, PTL

\* What lies under a final name is a whole file and stays what it is (publish_partial and the test
\* for a file of that name before every pull).
THEOREM WholeAndKept == Spec => ArchivesAreWholeAndKept
  <1> DEFINE Kept == \A n \in Names :
                       /\ files'[n].state \in {"absent", "whole"}
                       /\ Exists(n) => files'[n] = files[n]
  <1>1. Inv /\ Inv' /\ [Next]_vars => [Kept]_vars
    <2> SUFFICES ASSUME Inv, Inv', Next PROVE Kept
      OBVIOUS
    <2>1. \A n \in Names : files'[n].state \in {"absent", "whole"}
      BY DEF Inv, FilesInv, Absent
    <2>2. files' = files \/ Publish
      <3>1. CASE TrialStep
        BY <3>1 DEF TrialStep, StartTrial, SetUp, RunAgent, FinishTrial, MoveTrial, localVars
      <3>2. CASE ScriptStep
        BY <3>2 DEF ScriptStep, ProxyUp, SetupFails, FinishJob, PackFinal, Trap, RemoteStep, localVars
      <3>3. CASE LoopStep
        BY <3>3 DEF LoopStep, StartLoop, ReadState, PullCheckpoint, PullFinal, FinishCopy, AfterFailure,
                    PullDone, BeginCopy, Staged, LocalStep, localVars
      <3>4. CASE FaultStep
        BY <3>4 DEF FaultStep, JobDies, ProxyDies, PackFails, CrashLoop, ReadFails, PackingFails, CopyFails, RemoteStep,
                    LocalStep, localVars
      <3>5. QED
        BY <3>1, <3>2, <3>3, <3>4 DEF Next
    <2>3. CASE Publish
      <3>1. loop.pc = "publish" /\ loop.staged # <<>>
            /\ files' = [files EXCEPT ![Head(loop.staged)] = partial[Head(loop.staged)]]
        BY <2>3 DEF Publish
      <3>2. files[Head(loop.staged)].state = "absent" /\ files \in [Names -> Packs]
        BY <3>1, NextToPublish DEF Inv, TypeOK
      <3>3. \A n \in Names : Exists(n) => files'[n] = files[n]
        BY <3>1, <3>2 DEF Exists
      <3>4. QED
        BY <2>1, <3>3
    <2>4. QED
      BY <2>1, <2>2, <2>3
  <1>2. QED
    BY <1>1, Invariance, PTL DEF Spec, ArchivesAreWholeAndKept

=============================================================================
