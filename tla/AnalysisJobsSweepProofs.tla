---------------------- MODULE AnalysisJobsSweepProofs -----------------------
(***************************************************************************)
(* Proofs about the recovery sweep and the inference lock of AnalysisJobs, *)
(* on top of the invariants of AnalysisJobsProofs.                         *)
(***************************************************************************)
EXTENDS AnalysisJobsProofs, FiniteSetTheorems

Invariants == TypeOK /\ AdmissionInv /\ OwnershipInv

(* What a sweep needs to fail the row of a thread still at work.           *)
LEMMA VerdictOnLiveWork ==
  ASSUME Invariants, NEW b \in Boot, Live(b), NEW row \in seen[b], RecoveryVerdict(b, row),
         pc[row.run] \in Holding
  PROVE  row.age = "stale" /\ HostOf(b) # HostOf(home[row.run])
<1>1. row.run \in Run /\ row.owner = home[row.run]
  BY DEF Invariants, TypeOK, Candidate, OwnershipInv, SeenRowsAreOwned
<1>2. home[row.run] \in Boot /\ Live(home[row.run])
  BY <1>1 DEF Invariants, OwnershipInv, ThreadsLive, Holding, Ended
<1>3. row.owner # NoBoot /\ ProcessIsAlive(place[row.owner])
  BY <1>1, <1>2, NullAssumption DEF ProcessIsAlive
<1>4. QED
  BY <1>1, <1>3 DEF RecoveryVerdict

(* Only ResolveCandidate fails the row of a thread that is at work.        *)
LEMMA OnlyResolveFailsLiveWork ==
  ASSUME Invariants, [Next]_vars, NEW r \in Run, pc[r] \in Holding, status[r] = "running",
         status'[r] = "failed"
  PROVE  \E b \in Boot : ResolveCandidate(b)
<1> USE DEF Invariants, TypeOK, dbVars, runVars, procVars, Holding
<1>1. ASSUME NEW s \in Run, RunStep(s)
      PROVE  FALSE
  <2>1. status' # status
    OBVIOUS
  <2>2. s # r \/ ~MarkFailed(s)
    BY DEF MarkFailed
  <2>3. QED
    BY <1>1, <2>1, <2>2 DEF RunStep, RequestStep, ClaimStep, InferenceStep, PersistStep, ReportStep,
       CommitAdmission, Enqueue, EnqueueDeclined, Submit, Claim, ClaimDeclined, ClaimRaises,
       BeginInference, EndInference, Persist, PersistGate, PersistSave, PersistDeclined,
       PersistRaises, MarkFailed, SkipReport, BeginReport, EndReport, WriteDone
<1>2. ASSUME NEW s \in Run, DeleteAnalysis(s) \/ GrowOld(s)
      PROVE  FALSE
  BY <1>2 DEF DeleteAnalysis, GrowOld, Terminal
<1>3. ASSUME NEW b \in Boot, NEW s \in Run, NEW m \in Media, BeginAdmission(b, s, m)
      PROVE  FALSE
  BY <1>3 DEF BeginAdmission
<1>4. ASSUME NEW m \in Media, BeginMediaDelete(m) \/ CascadeMedia(m) \/ AbandonMediaDelete(m)
      PROVE  FALSE
  BY <1>4 DEF BeginMediaDelete, CascadeMedia, AbandonMediaDelete
<1>5. ASSUME NEW b \in Boot,
             (\E p \in Place : Boots(b, p)) \/ Shutdown(b) \/ Exit(b) \/ Crash(b)
      PROVE  FALSE
  BY <1>5 DEF Boots, Shutdown, Exit, Crash
<1>6. ASSUME NEW b \in Boot, BootstrapStep(b), ~ResolveCandidate(b)
      PROVE  FALSE
  BY <1>6 DEF BootstrapStep, ReadCandidates, EndSweep, BeginWarmup, EndWarmup
<1>7. CASE UNCHANGED vars
  BY <1>7 DEF vars
<1>8. QED
  BY <1>1, <1>2, <1>3, <1>4, <1>5, <1>6, <1>7 DEF Next

(* Live work is failed from outside only by another host's sweep that read *)
(* the row stale.                                                          *)
THEOREM LiveWorkFailsOnlyWhenStale == Spec => OnlyStaleForeignWorkIsTaken
<1> DEFINE Taken == \A r \in Run :
             pc[r] \in Holding /\ status[r] = "running" /\ status'[r] = "failed" =>
               \E b \in Boot : \E row \in seen[b] :
                 row.run = r /\ row.age = "stale" /\ HostOf(b) # HostOf(home[r])
<1>1. ASSUME Invariants, [Next]_vars
      PROVE  Taken
  <2> SUFFICES ASSUME NEW r \in Run, pc[r] \in Holding, status[r] = "running", status'[r] = "failed"
               PROVE  \E b \in Boot : \E row \in seen[b] :
                        row.run = r /\ row.age = "stale" /\ HostOf(b) # HostOf(home[r])
    OBVIOUS
  <2>1. PICK b \in Boot : ResolveCandidate(b)
    BY <1>1, OnlyResolveFailsLiveWork
  <2>2. PICK row \in seen[b] : IF RecoveryVerdict(b, row) THEN FailInterrupted(row.run)
                                                          ELSE UNCHANGED <<status, report>>
    BY <2>1 DEF ResolveCandidate
  <2>3. row.run = r /\ RecoveryVerdict(b, row)
    BY <1>1, <2>2 DEF FailInterrupted, Invariants, TypeOK
  <2>4. Live(b)
    BY <2>1 DEF ResolveCandidate
  <2>5. QED
    BY <1>1, <2>2, <2>3, <2>4, VerdictOnLiveWork
<1>2. Invariants /\ [Next]_vars => [Taken]_vars
  BY <1>1
<1>3. QED
  BY <1>2, InvariantsHold, PTL DEF Spec, OnlyStaleForeignWorkIsTaken, Invariants

-----------------------------------------------------------------------------
(* The inference lock.                                                     *)
LEMMA RunStepKeepsEngine ==
  ASSUME Invariants, EngineInv, NEW r \in Run, RunStep(r)
  PROVE  EngineInv'
<1> USE DEF Invariants, TypeOK, EngineInv, Goto, dbVars, runVars, procVars
<1>1. CASE BeginInference(r)
  <2>1. home[r] \in Boot /\ Warmup # NoRun
    BY <1>1, NullAssumption DEF BeginInference, OwnershipInv, ThreadsLive, Ended
  <2>2. QED
    BY <1>1, <2>1, NullAssumption DEF BeginInference
<1>2. CASE EndInference(r)
  <2>1. PICK l \in {"persisting", "failing"} : Goto(r, l)
    BY <1>2 DEF EndInference
  <2>2. home[r] \in Boot /\ engine[home[r]] = r /\ r # Warmup
    BY <1>2, NullAssumption DEF EndInference, OwnershipInv, ThreadsLive, Ended
  <2>3. QED
    BY <1>2, <2>1, <2>2 DEF EndInference
<1>3. CASE ~(BeginInference(r) \/ EndInference(r))
  <2>1. UNCHANGED <<home, engine, phase>> /\ \A s \in Run : pc'[s] = "inferring" => pc[s] = "inferring"
    BY <1>3 DEF RunStep, RequestStep, ClaimStep, InferenceStep, PersistStep, ReportStep,
       CommitAdmission, Enqueue, EnqueueDeclined, Submit, Claim, ClaimDeclined, ClaimRaises,
       Persist, PersistGate, PersistSave, PersistDeclined, PersistRaises, MarkFailed,
       SkipReport, BeginReport, EndReport, WriteDone
  <2>2. QED
    BY <2>1
<1>4. QED
  BY <1>1, <1>2, <1>3

(* Every step keeps the inference lock with the run that holds it.         *)
LEMMA NextKeepsEngine ==
  ASSUME Invariants, EngineInv, [Next]_vars
  PROVE  EngineInv'
<1> USE DEF Invariants, TypeOK, dbVars, runVars, procVars
<1>1. ASSUME UNCHANGED <<pc, home, engine, phase>>
      PROVE  EngineInv'
  BY <1>1 DEF EngineInv
<1>2. ASSUME NEW r \in Run, DeleteAnalysis(r) \/ GrowOld(r)
      PROVE  UNCHANGED <<pc, home, engine, phase>>
  BY <1>2 DEF DeleteAnalysis, GrowOld
<1>3. ASSUME NEW m \in Media, BeginMediaDelete(m) \/ CascadeMedia(m) \/ AbandonMediaDelete(m)
      PROVE  UNCHANGED <<pc, home, engine, phase>>
  BY <1>3 DEF BeginMediaDelete, CascadeMedia, AbandonMediaDelete
<1>4. ASSUME NEW b \in Boot, NEW s \in Run, NEW m \in Media, BeginAdmission(b, s, m)
      PROVE  EngineInv'
  BY <1>4 DEF BeginAdmission, Goto, EngineInv
<1>5. ASSUME NEW b \in Boot, BootstrapStep(b)
      PROVE  EngineInv'
  <2>1. CASE ReadCandidates(b) \/ ResolveCandidate(b) \/ EndSweep(b)
    BY <2>1 DEF ReadCandidates, ResolveCandidate, EndSweep, EngineInv
  <2>2. CASE BeginWarmup(b)
    BY <2>2, NullAssumption DEF BeginWarmup, EngineInv
  <2>3. CASE EndWarmup(b)
    BY <2>3, NullAssumption DEF EndWarmup, EngineInv
  <2>4. QED
    BY <1>5, <2>1, <2>2, <2>3 DEF BootstrapStep
<1>6. ASSUME NEW b \in Boot, (\E p \in Place : Boots(b, p)) \/ Shutdown(b)
      PROVE  EngineInv'
  <2>1. CASE \E p \in Place : Boots(b, p)
    BY <2>1 DEF Boots, EngineInv
  <2>2. CASE Shutdown(b)
    BY <2>2 DEF Shutdown, EngineInv
  <2>3. QED
    BY <1>6, <2>1, <2>2
<1>7. ASSUME NEW b \in Boot, Exit(b)
      PROVE  EngineInv'
  BY <1>7 DEF Exit, Gone, Ended, EngineInv
<1>8. ASSUME NEW b \in Boot, Crash(b)
      PROVE  EngineInv'
  <2>1. \A r \in Run : pc'[r] = "inferring" =>
          pc[r] = "inferring" /\ home'[r] = home[r] /\ home[r] # b
    BY <1>8 DEF Crash, Ended
  <2>2. engine' = [engine EXCEPT ![b] = NoRun] /\ phase' = [phase EXCEPT ![b] = "off"]
    BY <1>8 DEF Crash, Gone
  <2>3. QED
    BY <2>1, <2>2 DEF EngineInv
<1>9. CASE UNCHANGED vars
  BY <1>1, <1>9 DEF vars
<1>10. QED
  BY <1>1, <1>2, <1>3, <1>4, <1>5, <1>6, <1>7, <1>8, <1>9, RunStepKeepsEngine DEF Next

(* A process never runs two forward passes at once, its warm-up included.  *)
THEOREM OneInferenceAtATime == Spec => []OneInferencePerProcess
<1>1. Init => EngineInv
  BY DEF Init, EngineInv
<1>2. ASSUME TypeOK, EngineInv
      PROVE  OneInferencePerProcess
  <2> SUFFICES ASSUME NEW b \in Boot
               PROVE  Cardinality({r \in Run : home[r] = b /\ pc[r] = "inferring"})
                        + (IF phase[b] = "warming" THEN 1 ELSE 0) <= 1
    BY DEF OneInferencePerProcess
  <2> DEFINE passes == {r \in Run : home[r] = b /\ pc[r] = "inferring"}
  <2>1. \A r \in passes : r = engine[b]
    BY <1>2 DEF EngineInv
  <2>2. CASE passes = {}
    <3>1. Cardinality(passes) = 0
      BY <2>2, FS_EmptySet
    <3>2. QED
      BY <3>1
  <2>3. CASE passes # {}
    <3>1. passes = {engine[b]} /\ engine[b] \in Run
      BY <2>1, <2>3
    <3>2. Cardinality(passes) = 1
      BY <3>1, FS_Singleton
    <3>3. phase[b] # "warming"
      BY <1>2, <3>1, NullAssumption DEF EngineInv
    <3>4. QED
      BY <3>2, <3>3
  <2>4. QED
    BY <2>2, <2>3
<1>3. Invariants /\ EngineInv /\ [Next]_vars => EngineInv'
  BY NextKeepsEngine
<1>4. QED
  BY <1>1, <1>2, <1>3, InvariantsHold, PTL DEF Spec, Invariants

-----------------------------------------------------------------------------
(* The sweep.  What every step but the sweep's own does to a dead process  *)
(* and its rows: nothing that matters.                                     *)
DeadStayDead ==
  /\ \A b \in Boot : proc[b] = "dead" => proc'[b] = "dead" /\ place'[b] = place[b]
  /\ \A r \in Run : home'[r] \in Boot /\ proc[home'[r]] = "dead" =>
       home'[r] = home[r] /\ (status'[r] \in Sweepable => status[r] \in Sweepable)

(* A step of a run changes no row of a process that has ended.             *)
LEMMA RunStepSparesTheDead ==
  ASSUME Invariants, NEW r \in Run, RunStep(r)
  PROVE  DeadStayDead
<1> USE DEF Invariants, TypeOK, dbVars, runVars, procVars
<1>1. UNCHANGED <<proc, place, home>> /\ \A s \in Run \ {r} : status'[s] = status[s]
  BY DEF RunStep, RequestStep, ClaimStep, InferenceStep, PersistStep, ReportStep,
     CommitAdmission, Enqueue, EnqueueDeclined, Submit, Claim, ClaimDeclined, ClaimRaises,
     BeginInference, EndInference, Persist, PersistGate, PersistSave, PersistDeclined,
     PersistRaises, MarkFailed, SkipReport, BeginReport, EndReport, WriteDone
<1>2. pc[r] \notin {"idle"} \cup Ended
  BY DEF Ended, RunStep, RequestStep, ClaimStep, InferenceStep, PersistStep, ReportStep,
     CommitAdmission, Enqueue, EnqueueDeclined, Submit, Claim, ClaimDeclined, ClaimRaises,
     BeginInference, EndInference, Persist, PersistGate, PersistSave, PersistDeclined,
     PersistRaises, MarkFailed, SkipReport, BeginReport, EndReport
<1>3. proc[home[r]] # "dead"
  BY <1>2 DEF OwnershipInv, ThreadsLive, Live
<1>4. QED
  BY <1>1, <1>3 DEF DeadStayDead

(* Nor does any other step: deletes, sweeps and boots included.            *)
LEMMA NextSparesTheDead ==
  ASSUME Invariants, [Next]_vars
  PROVE  DeadStayDead
<1> USE DEF Invariants, TypeOK, dbVars, runVars, procVars, DeadStayDead
<1>1. ASSUME NEW r \in Run, DeleteAnalysis(r) \/ GrowOld(r)
      PROVE  DeadStayDead
  BY <1>1 DEF DeleteAnalysis, GrowOld, Sweepable
<1>2. ASSUME NEW m \in Media, BeginMediaDelete(m) \/ CascadeMedia(m) \/ AbandonMediaDelete(m)
      PROVE  DeadStayDead
  BY <1>2 DEF BeginMediaDelete, CascadeMedia, AbandonMediaDelete, Sweepable
<1>3. ASSUME NEW b \in Boot, NEW s \in Run, NEW m \in Media, BeginAdmission(b, s, m)
      PROVE  DeadStayDead
  BY <1>3 DEF BeginAdmission
<1>4. ASSUME NEW b \in Boot, BootstrapStep(b)
      PROVE  DeadStayDead
  <2>1. CASE ResolveCandidate(b)
    <3>1. PICK row \in seen[b] : IF RecoveryVerdict(b, row) THEN FailInterrupted(row.run)
                                                            ELSE UNCHANGED <<status, report>>
      BY <2>1 DEF ResolveCandidate
    <3>2. QED
      BY <2>1, <3>1 DEF ResolveCandidate, FailInterrupted, Sweepable
  <2>2. CASE ~ResolveCandidate(b)
    BY <1>4, <2>2 DEF BootstrapStep, ReadCandidates, EndSweep, BeginWarmup, EndWarmup
  <2>3. QED
    BY <2>1, <2>2
<1>5. ASSUME NEW b \in Boot, (\E p \in Place : Boots(b, p)) \/ Shutdown(b) \/ Exit(b)
      PROVE  DeadStayDead
  <2>1. CASE \E p \in Place : Boots(b, p)
    BY <2>1 DEF Boots
  <2>2. CASE Shutdown(b)
    BY <2>2 DEF Shutdown
  <2>3. CASE Exit(b)
    BY <2>3 DEF Exit, Gone
  <2>4. QED
    BY <1>5, <2>1, <2>2, <2>3
<1>6. ASSUME NEW b \in Boot, Crash(b)
      PROVE  DeadStayDead
  <2>1. /\ \A r \in Run : home'[r] = home[r] \/ home'[r] = NoBoot
        /\ proc' = [proc EXCEPT ![b] = "dead"]
        /\ UNCHANGED <<place, status>>
    BY <1>6 DEF Crash, Gone
  <2>2. QED
    BY <2>1, NullAssumption
<1>7. CASE UNCHANGED vars
  BY <1>7 DEF vars
<1>8. QED
  BY <1>1, <1>2, <1>3, <1>4, <1>5, <1>6, <1>7, RunStepSparesTheDead DEF Next

(* Every step that leaves the sweep of b where it is keeps what the sweep  *)
(* of b has established.                                                   *)
LEMMA DistantStepKeepsSweep ==
  ASSUME Invariants, DeadStayDead, NEW b \in Boot, SweepOf(b), place'[b] = place[b],
         UNCHANGED <<seen[b], departed[b], phase[b]>>
  PROVE  SweepOf(b)'
<1>1. \A c \in departed[b] : c \in Boot /\ proc[c] = "dead" /\ proc'[c] = "dead" /\ place'[c] = place[c]
  BY DEF Invariants, TypeOK, SweepOf, DeadStayDead
<1>2. \A r \in Run : home'[r] \in departed[b] =>
        /\ home'[r] = home[r]
        /\ HostOf(home[r])' = HostOf(home[r])
        /\ status'[r] \in Sweepable => status[r] \in Sweepable
  BY <1>1 DEF DeadStayDead, HostOf
<1>3. HostOf(b)' = HostOf(b)
  BY DEF HostOf
<1>4. QED
  BY <1>1, <1>2, <1>3 DEF SweepOf

(* A row of a dead process of this host cannot get past the verdict.       *)
LEMMA OrphansAreConvicted ==
  ASSUME Invariants, PlacesDiffer, NEW b \in Boot, Live(b), NEW row \in seen[b],
         proc[home[row.run]] = "dead", HostOf(home[row.run]) = HostOf(b)
  PROVE  RecoveryVerdict(b, row)
<1>1. row.run \in Run /\ row.owner = home[row.run] /\ row.owner \in Boot
  BY DEF Invariants, TypeOK, Candidate, OwnershipInv, SeenRowsAreOwned
<1>2. row.owner # b
  BY <1>1 DEF Live
<1>3. ASSUME NEW c \in Boot, Live(c), place[c] = place[row.owner]
      PROVE  FALSE
  <2>1. place[c] # NoPlace
    BY <1>3 DEF Invariants, OwnershipInv, PlacesKnown, Live
  <2>2. c = row.owner
    BY <1>1, <1>3, <2>1 DEF PlacesDiffer
  <2>3. QED
    BY <1>1, <1>3, <2>2 DEF Live
<1>4. QED
  BY <1>1, <1>2, <1>3 DEF RecoveryVerdict, ProcessIsAlive

(* A candidate the sweep resolves is no longer hanging.                    *)
LEMMA ResolveKeepsSweep ==
  ASSUME Invariants, PlacesDiffer, DeadStayDead, NEW b \in Boot, SweepOf(b), ResolveCandidate(b)
  PROVE  SweepOf(b)'
<1>1. /\ UNCHANGED <<home, proc, place, phase, departed>>
      /\ Live(b)
      /\ phase[b] = "sweep"
  BY DEF ResolveCandidate, runVars
<1>2. PICK row \in seen[b] :
        /\ seen' = [seen EXCEPT ![b] = @ \ {row}]
        /\ IF RecoveryVerdict(b, row) THEN FailInterrupted(row.run)
                                      ELSE UNCHANGED <<status, report>>
  BY DEF ResolveCandidate
<1>3. \A c \in departed'[b] : proc'[c] = "dead"
  BY <1>1 DEF SweepOf
<1>4. ASSUME NEW r \in Run, home[r] \in departed[b], HostOf(home[r]) = HostOf(b),
             status'[r] \in Sweepable
      PROVE  \E other \in seen'[b] : other.run = r
  <2>1. proc[home[r]] = "dead" /\ home[r] \in Boot
    BY <1>4 DEF SweepOf, Invariants, TypeOK
  <2>2. status[r] \in Sweepable
    BY <1>1, <1>4, <2>1 DEF DeadStayDead
  <2>3. PICK other \in seen[b] : other.run = r
    BY <1>1, <1>4, <2>2 DEF SweepOf
  <2>4. other # row
    <3> SUFFICES ASSUME other = row
                 PROVE  FALSE
      OBVIOUS
    <3>1. RecoveryVerdict(b, row)
      BY <1>1, <1>4, <2>1, <2>3, OrphansAreConvicted
    <3>2. status'[r] = "failed"
      BY <1>2, <2>2, <2>3, <3>1 DEF FailInterrupted, Invariants, TypeOK
    <3>3. QED
      BY <1>4, <3>2 DEF Sweepable
  <2>5. QED
    BY <1>2, <2>3, <2>4 DEF Invariants, TypeOK
<1>5. QED
  BY <1>1, <1>3, <1>4 DEF SweepOf, HostOf

(* Every step keeps what a sweep has already seen to.                      *)
LEMMA NextKeepsSweep ==
  ASSUME Invariants, PlacesDiffer, ~Contention, [Next]_vars, NEW b \in Boot, SweepOf(b)
  PROVE  SweepOf(b)'
<1> USE DEF Invariants, TypeOK, dbVars, runVars, procVars
<1>1. DeadStayDead
  BY NextSparesTheDead
<1>2. ASSUME UNCHANGED <<seen[b], departed[b], phase[b], place[b]>>
      PROVE  SweepOf(b)'
  BY <1>1, <1>2, DistantStepKeepsSweep
<1>3. ASSUME NEW r \in Run, RunStep(r)
      PROVE  UNCHANGED <<seen, departed, phase, place>>
  BY <1>3 DEF RunStep, RequestStep, ClaimStep, InferenceStep, PersistStep, ReportStep,
     CommitAdmission, Enqueue, EnqueueDeclined, Submit, Claim, ClaimDeclined, ClaimRaises,
     BeginInference, EndInference, Persist, PersistGate, PersistSave, PersistDeclined,
     PersistRaises, MarkFailed, SkipReport, BeginReport, EndReport, WriteDone
<1>4. ASSUME NEW r \in Run, DeleteAnalysis(r) \/ GrowOld(r)
      PROVE  UNCHANGED <<seen, departed, phase, place>>
  BY <1>4 DEF DeleteAnalysis, GrowOld
<1>5. ASSUME NEW m \in Media, BeginMediaDelete(m) \/ CascadeMedia(m) \/ AbandonMediaDelete(m)
      PROVE  UNCHANGED <<seen, departed, phase, place>>
  BY <1>5 DEF BeginMediaDelete, CascadeMedia, AbandonMediaDelete
<1>6. ASSUME NEW c \in Boot, NEW s \in Run, NEW m \in Media, BeginAdmission(c, s, m)
      PROVE  UNCHANGED <<seen, departed, phase, place>>
  BY <1>6 DEF BeginAdmission
<1>7. ASSUME NEW c \in Boot, Shutdown(c)
      PROVE  UNCHANGED <<seen, departed, phase, place>>
  BY <1>7 DEF Shutdown
<1>8. ASSUME NEW c \in Boot, NEW p \in Place, Boots(c, p)
      PROVE  SweepOf(b)'
  <2>1. CASE c # b
    BY <1>2, <1>8, <2>1 DEF Boots
  <2>2. CASE c = b
    BY <1>1, <1>8, <2>2 DEF Boots, SweepOf, DeadStayDead
  <2>3. QED
    BY <2>1, <2>2
<1>9. ASSUME NEW c \in Boot, Exit(c) \/ Crash(c)
      PROVE  SweepOf(b)'
  <2>1. /\ phase' = [phase EXCEPT ![c] = "off"]
        /\ seen' = [seen EXCEPT ![c] = {}]
        /\ departed' = [departed EXCEPT ![c] = {}]
        /\ UNCHANGED place
    BY <1>9 DEF Exit, Crash, Gone
  <2>2. CASE c # b
    BY <1>2, <2>1, <2>2
  <2>3. CASE c = b
    BY <2>1, <2>3 DEF SweepOf
  <2>4. QED
    BY <2>2, <2>3
<1>10. ASSUME NEW c \in Boot, c # b, BootstrapStep(c)
       PROVE  UNCHANGED <<seen[b], departed[b], phase[b], place[b]>>
  BY <1>10 DEF BootstrapStep, ReadCandidates, ResolveCandidate, EndSweep, BeginWarmup, EndWarmup
<1>11. ASSUME ReadCandidates(b)
       PROVE  SweepOf(b)'
  <2> DEFINE rows == {[run |-> r, owner |-> owner[r], age |-> Age(r)] : r \in SweepCandidates}
  <2>1. /\ seen'[b] = rows
        /\ phase'[b] = "sweep"
        /\ departed'[b] = {c \in Boot : proc[c] = "dead"}
        /\ UNCHANGED <<status, proc>>
    BY <1>11 DEF ReadCandidates
  <2>2. \A r \in Run : status[r] \in Sweepable => \E row \in rows : row.run = r
    <3> SUFFICES ASSUME NEW r \in Run, status[r] \in Sweepable
                 PROVE  \E row \in rows : row.run = r
      OBVIOUS
    <3> DEFINE row == [run |-> r, owner |-> owner[r], age |-> Age(r)]
    <3>1. row \in rows
      BY DEF SweepCandidates
    <3>2. row.run = r
      OBVIOUS
    <3> HIDE DEF row, rows
    <3>3. QED
      BY <3>1, <3>2
  <2> HIDE DEF rows
  <2>3. QED
    BY <2>1, <2>2 DEF SweepOf
<1>12. ASSUME ResolveCandidate(b)
       PROVE  SweepOf(b)'
  BY <1>1, <1>12, ResolveKeepsSweep
<1>13. ASSUME EndSweep(b) \/ BeginWarmup(b) \/ EndWarmup(b)
       PROVE  SweepOf(b)'
  BY <1>13 DEF EndSweep, BeginWarmup, EndWarmup, SweepOf, HostOf
<1>14. CASE UNCHANGED vars
  BY <1>2, <1>14 DEF vars
<1>15. QED
  BY <1>2, <1>3, <1>4, <1>5, <1>6, <1>7, <1>8, <1>9, <1>10, <1>11, <1>12, <1>13, <1>14
     DEF Next, BootstrapStep

(* Two processes that live at once are told apart by their place.          *)
LEMMA NextKeepsPlacesDiffer ==
  ASSUME Invariants, PlacesDiffer, ~ReusePids, [Next]_vars
  PROVE  PlacesDiffer'
<1> USE DEF Invariants, TypeOK, dbVars, runVars, procVars
<1>1. ASSUME NEW b \in Boot, NEW p \in Place, Boots(b, p)
      PROVE  PlacesDiffer'
  BY <1>1 DEF Boots, PidIsFree, PlacesDiffer
<1>2. CASE ~ \E b \in Boot, p \in Place : Boots(b, p)
  <2>1. ASSUME NEW r \in Run, RunStep(r)
        PROVE  UNCHANGED place
    BY <2>1 DEF RunStep, RequestStep, ClaimStep, InferenceStep, PersistStep, ReportStep,
       CommitAdmission, Enqueue, EnqueueDeclined, Submit, Claim, ClaimDeclined, ClaimRaises,
       BeginInference, EndInference, Persist, PersistGate, PersistSave, PersistDeclined,
       PersistRaises, MarkFailed, SkipReport, BeginReport, EndReport, WriteDone
  <2>2. ASSUME NEW b \in Boot, BootstrapStep(b) \/ Shutdown(b) \/ Exit(b) \/ Crash(b)
        PROVE  UNCHANGED place
    BY <2>2 DEF BootstrapStep, ReadCandidates, ResolveCandidate, EndSweep, BeginWarmup,
       EndWarmup, Shutdown, Exit, Crash, Gone
  <2>3. UNCHANGED place
    BY <1>2, <2>1, <2>2 DEF Next, vars, DeleteAnalysis, GrowOld, BeginMediaDelete,
       CascadeMedia, AbandonMediaDelete, BeginAdmission
  <2>4. QED
    BY <2>3 DEF PlacesDiffer
<1>3. QED
  BY <1>1, <1>2

(* While a host does not hand a dead process's pid out again and no UPDATE *)
(* of the sweep gives up, a complete sweep leaves no orphan of its host.   *)
THEOREM SweepIsComplete ==
  ASSUME ~ReusePids, ~Contention
  PROVE  Spec => []SweepLeavesNoOrphan
<1>1. Init => SweepInv
  BY DEF Init, SweepInv, PlacesDiffer, SweepOf
<1>2. Invariants /\ SweepInv /\ [Next]_vars => SweepInv'
  BY NextKeepsSweep, NextKeepsPlacesDiffer DEF SweepInv
<1>3. SweepInv => SweepLeavesNoOrphan
  BY DEF SweepInv, SweepOf, SweepLeavesNoOrphan
<1>4. QED
  BY <1>1, <1>2, <1>3, InvariantsHold, PTL DEF Spec, Invariants
-----------------------------------------------------------------------------
(* No row is left hanging, while retry_on_lock never uses up its attempts. *)
(* A step of a run's own threads: only its own row and report can change,  *)
(* and every move of its thread is one that the row's status allows.       *)
LEMMA RunStepKeepsSettled ==
  ASSUME ~Contention, Invariants, SettledInv, NEW r \in Run, RunStep(r)
  PROVE  SettledInv'
<1> USE DEF Invariants, TypeOK, Goto, dbVars, runVars, procVars, SettledInv, HomesHaveBooted,
            SavedRowsAreDone, NoRowIsLeftHanging, LiveOwnerIsWorking, ReportIsSettled, Live,
            Holding
<1>1. CASE CommitAdmission(r)  BY <1>1 DEF CommitAdmission
<1>2. CASE Enqueue(r)          BY <1>2 DEF Enqueue
<1>3. CASE EnqueueDeclined(r)  BY <1>3 DEF EnqueueDeclined
<1>4. CASE Submit(r)           BY <1>4 DEF Submit
<1>5. CASE Claim(r)            BY <1>5 DEF Claim
<1>6. CASE ClaimDeclined(r)    BY <1>6 DEF ClaimDeclined
<1>7. CASE ClaimRaises(r)      BY <1>7 DEF ClaimRaises
<1>8. CASE BeginInference(r)   BY <1>8 DEF BeginInference
<1>9. CASE EndInference(r)
  <2>1. PICK l \in {"persisting", "failing"} : Goto(r, l)
    BY <1>9 DEF EndInference
  <2>2. QED
    BY <1>9, <2>1 DEF EndInference, OwnershipInv, LiveWorkKeepsItsRow
<1>10. CASE Persist(r)         BY <1>10 DEF Persist, OwnershipGate, WriteDone
<1>11. CASE PersistGate(r)     BY <1>11 DEF PersistGate
<1>12. CASE PersistSave(r)     BY <1>12 DEF PersistSave, RowExists, WriteDone
<1>13. CASE PersistDeclined(r)
  <2>1. status[r] # "running" /\ status[r] # "done"
    BY <1>13 DEF PersistDeclined, OwnershipGate, OwnershipInv, LiveRowsAreOwned, Sweepable
  <2>2. QED
    BY <1>13, <2>1 DEF PersistDeclined
<1>14. CASE PersistRaises(r)   BY <1>14 DEF PersistRaises
<1>15. CASE MarkFailed(r)      BY <1>15 DEF MarkFailed
<1>16. CASE SkipReport(r)      BY <1>16 DEF SkipReport, SetReportStatus, RowExists
<1>17. CASE BeginReport(r)     BY <1>17 DEF BeginReport, SetReportStatus, RowExists
<1>18. CASE EndReport(r)
  <2>1. PICK v \in RenderOutcome : SetReportStatus(r, v)
    BY <1>18 DEF EndReport
  <2>2. QED
    BY <1>18, <2>1 DEF EndReport, SetReportStatus, RowExists, RenderOutcome
<1>19. QED
  BY <1>1, <1>2, <1>3, <1>4, <1>5, <1>6, <1>7, <1>8, <1>9, <1>10, <1>11, <1>12, <1>13,
     <1>14, <1>15, <1>16, <1>17, <1>18
     DEF RunStep, RequestStep, ClaimStep, InferenceStep, PersistStep, ReportStep

(* ... and every other step: a sweep's verdict ends a row and its report   *)
(* at once, a process that closes drops what it had not started, and one   *)
(* that dies is not live.                                                  *)
LEMMA NextKeepsSettled ==
  ASSUME ~Contention, Invariants, SettledInv, [Next]_vars
  PROVE  SettledInv'
<1> USE DEF Invariants, TypeOK, dbVars, runVars, procVars, SettledInv, HomesHaveBooted,
            SavedRowsAreDone, NoRowIsLeftHanging, LiveOwnerIsWorking, ReportIsSettled, Live
<1>1. ASSUME NEW b \in Boot, NEW r \in Run, NEW m \in Media, BeginAdmission(b, r, m)
      PROVE  SettledInv'
  BY <1>1 DEF BeginAdmission, Goto, AdmissionInv
<1>2. ASSUME NEW r \in Run, DeleteAnalysis(r)
      PROVE  SettledInv'
  BY <1>2 DEF DeleteAnalysis
<1>3. ASSUME NEW m \in Media, CascadeMedia(m)
      PROVE  SettledInv'
  BY <1>3 DEF CascadeMedia
<1>4. ASSUME NEW b \in Boot, NEW p \in Place, Boots(b, p)
      PROVE  SettledInv'
  BY <1>4, NullAssumption DEF Boots, OwnershipInv, LiveRowsAreOwned, Sweepable
<1>5. ASSUME NEW b \in Boot, ResolveCandidate(b)
      PROVE  SettledInv'
  <2>1. PICK row \in seen[b] :
          IF RecoveryVerdict(b, row) THEN FailInterrupted(row.run)
                                     ELSE UNCHANGED <<status, report>>
    BY <1>5 DEF ResolveCandidate
  <2>2. row.run \in Run /\ UNCHANGED <<pc, home, proc>>
    BY <1>5 DEF ResolveCandidate, Candidate
  <2>3. QED
    BY <2>1, <2>2 DEF FailInterrupted, Sweepable
<1>6. ASSUME NEW b \in Boot, Shutdown(b)
      PROVE  SettledInv'
  BY <1>6 DEF Shutdown, Holding
<1>7. ASSUME NEW b \in Boot, Exit(b)
      PROVE  SettledInv'
  BY <1>7 DEF Exit, Gone
<1>8. ASSUME NEW b \in Boot, Crash(b)
      PROVE  SettledInv'
  <2> DEFINE undone == {r \in Run : home[r] = b /\ pc[r] = "checked"}
  <2>1. /\ pc' = [r \in Run |-> IF r \in undone THEN "idle"
                                 ELSE IF home[r] = b /\ pc[r] \notin Ended THEN "lost"
                                 ELSE pc[r]]
        /\ home' = [r \in Run |-> IF r \in undone THEN NoBoot ELSE home[r]]
        /\ proc' = [proc EXCEPT ![b] = "dead"]
        /\ UNCHANGED <<status, report>>
    BY <1>8 DEF Crash, Gone
  <2>2. \A r \in undone : r \in Run /\ status[r] = "absent"
    BY DEF undone, AdmissionInv
  <2> HIDE DEF undone
  <2>3. HomesHaveBooted' /\ SavedRowsAreDone'
    BY <2>1, <2>2, NullAssumption DEF Ended
  <2>4. LiveOwnerIsWorking'
    BY <2>1, <2>2, NullAssumption DEF Holding, OwnershipInv, LiveRowsAreOwned, Sweepable
  <2>5. ReportIsSettled'
    BY <2>1, <2>2
  <2>6. QED
    BY <2>3, <2>4, <2>5
<1>9. ASSUME UNCHANGED <<status, report, pc, home, proc>>
      PROVE  SettledInv'
  BY <1>9
<1>10. ASSUME NEW b \in Boot, BootstrapStep(b), ~ResolveCandidate(b)
       PROVE  UNCHANGED <<status, report, pc, home, proc>>
  BY <1>10 DEF BootstrapStep, ReadCandidates, EndSweep, BeginWarmup, EndWarmup
<1>11. ASSUME NEW m \in Media, BeginMediaDelete(m) \/ AbandonMediaDelete(m)
       PROVE  UNCHANGED <<status, report, pc, home, proc>>
  BY <1>11 DEF BeginMediaDelete, AbandonMediaDelete
<1>12. ASSUME NEW r \in Run, GrowOld(r)
       PROVE  UNCHANGED <<status, report, pc, home, proc>>
  BY <1>12 DEF GrowOld
<1>13. CASE UNCHANGED vars
  BY <1>9, <1>13 DEF vars
<1> HIDE DEF Invariants, TypeOK, SettledInv
<1>14. QED
  BY <1>1, <1>2, <1>3, <1>4, <1>5, <1>6, <1>7, <1>8, <1>9, <1>10, <1>11, <1>12, <1>13,
     RunStepKeepsSettled DEF Next

(* Every row of a live process is on its way to a verdict and every other  *)
(* is settled, its report with it: nothing waits for work nobody does.     *)
(* With lock retries used up it fails: run_analysis lets go of the row.    *)
THEOREM NothingHangs ==
  ASSUME ~Contention
  PROVE  Spec => []NoRowIsLeftHanging
<1>1. Init => SettledInv
  BY NullAssumption DEF Init, SettledInv, HomesHaveBooted, SavedRowsAreDone, NoRowIsLeftHanging,
     LiveOwnerIsWorking, ReportIsSettled
<1>2. Invariants /\ SettledInv /\ [Next]_vars => SettledInv'
  BY NextKeepsSettled
<1>3. SettledInv => NoRowIsLeftHanging
  BY DEF SettledInv
<1>4. QED
  BY <1>1, <1>2, <1>3, InvariantsHold, PTL DEF Spec, Invariants
=============================================================================
