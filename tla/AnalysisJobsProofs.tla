------------------------- MODULE AnalysisJobsProofs -------------------------
(***************************************************************************)
(* Machine-checked proofs about AnalysisJobs, for every number of runs,    *)
(* uploads, processes, hosts and threads.                                  *)
(***************************************************************************)
EXTENDS AnalysisJobs, TLAPS

(* The state stays well-typed: steps of a run's threads.                   *)
LEMMA RunStepTypeOK ==
  ASSUME TypeOK, NEW r \in Run, RunStep(r)
  PROVE  TypeOK'
<1> USE DEF TypeOK, Goto, dbVars, runVars, procVars, Location, Requesting, Holding,
            Working, Ended, Status, Active, Terminal, ReportState
<1>1. CASE CommitAdmission(r)  BY <1>1 DEF CommitAdmission
<1>2. CASE Enqueue(r)          BY <1>2 DEF Enqueue
<1>3. CASE EnqueueDeclined(r)  BY <1>3 DEF EnqueueDeclined
<1>4. CASE Submit(r)           BY <1>4 DEF Submit
<1>5. CASE Claim(r)            BY <1>5 DEF Claim
<1>6. CASE ClaimDeclined(r)    BY <1>6 DEF ClaimDeclined
<1>7. CASE ClaimRaises(r)      BY <1>7 DEF ClaimRaises
<1>8. CASE BeginInference(r)   BY <1>8 DEF BeginInference
<1>9. CASE EndInference(r)
  <2>1. PICK l \in {"persisting", "failing"} : Goto(r, l)
    BY <1>9 DEF EndInference
  <2>2. QED
    BY <1>9, <2>1 DEF EndInference
<1>10. CASE Persist(r)         BY <1>10 DEF Persist, WriteDone
<1>11. CASE PersistGate(r)     BY <1>11 DEF PersistGate
<1>12. CASE PersistSave(r)     BY <1>12 DEF PersistSave, WriteDone
<1>13. CASE PersistDeclined(r) BY <1>13 DEF PersistDeclined
<1>14. CASE PersistRaises(r)   BY <1>14 DEF PersistRaises
<1>15. CASE MarkFailed(r)      BY <1>15 DEF MarkFailed
<1>16. CASE SkipReport(r)      BY <1>16 DEF SkipReport, SetReportStatus
<1>17. CASE BeginReport(r)     BY <1>17 DEF BeginReport, SetReportStatus
<1>18. CASE EndReport(r)       BY <1>18 DEF EndReport, SetReportStatus, RenderOutcome
<1>19. QED
  BY <1>1, <1>2, <1>3, <1>4, <1>5, <1>6, <1>7, <1>8, <1>9, <1>10, <1>11,
     <1>12, <1>13, <1>14, <1>15, <1>16, <1>17, <1>18
     DEF RunStep, RequestStep, ClaimStep, InferenceStep, PersistStep, ReportStep

(* ... steps of the bootstrap thread of a process.                         *)
LEMMA BootstrapStepTypeOK ==
  ASSUME TypeOK, NEW b \in Boot, BootstrapStep(b)
  PROVE  TypeOK'
<1> USE DEF TypeOK, dbVars, runVars, procVars, Candidate
<1>1. CASE ReadCandidates(b)
  <2> DEFINE rows == {[run |-> r, owner |-> owner[r], age |-> Age(r)] : r \in SweepCandidates}
  <2>1. ASSUME NEW r \in SweepCandidates
        PROVE  [run |-> r, owner |-> owner[r], age |-> Age(r)] \in Candidate
    BY DEF SweepCandidates, Age
  <2>2. rows \in SUBSET Candidate
    BY <2>1
  <2>3. seen' = [seen EXCEPT ![b] = rows]
    BY <1>1 DEF ReadCandidates
  <2>4. seen' \in [Boot -> SUBSET Candidate]
    BY <2>2, <2>3
  <2>5. QED
    BY <1>1, <2>4 DEF ReadCandidates
<1>2. CASE ResolveCandidate(b)
  <2>1. PICK row \in seen[b] :
          /\ seen' = [seen EXCEPT ![b] = @ \ {row}]
          /\ IF RecoveryVerdict(b, row) THEN FailInterrupted(row.run)
                                        ELSE UNCHANGED <<status, report>>
    BY <1>2 DEF ResolveCandidate
  <2>2. /\ status' = status \/ status' = [status EXCEPT ![row.run] = "failed"]
        /\ report' = report \/ report' = [report EXCEPT ![row.run] = "skipped"]
    BY <2>1 DEF FailInterrupted
  <2>3. status' \in [Run -> Status] /\ report' \in [Run -> ReportState]
    BY <2>2 DEF Status, Terminal, ReportState
  <2>4. seen' \in [Boot -> SUBSET Candidate]
    BY <2>1
  <2>5. QED
    BY <1>2, <2>3, <2>4 DEF ResolveCandidate
<1>3. CASE EndSweep(b)    BY <1>3 DEF EndSweep
<1>4. CASE BeginWarmup(b) BY <1>4 DEF BeginWarmup
<1>5. CASE EndWarmup(b)   BY <1>5 DEF EndWarmup
<1>6. QED
  BY <1>1, <1>2, <1>3, <1>4, <1>5 DEF BootstrapStep

(* Every other step, and a stutter.                                        *)
LEMMA NextTypeOK ==
  ASSUME TypeOK, [Next]_vars
  PROVE  TypeOK'
<1> USE DEF TypeOK, dbVars, runVars, procVars
<1>1. ASSUME NEW b \in Boot, NEW r \in Run, NEW m \in Media, BeginAdmission(b, r, m)
      PROVE  TypeOK'
  BY <1>1 DEF BeginAdmission, Goto, Location, Requesting
<1>2. ASSUME NEW r \in Run, DeleteAnalysis(r)
      PROVE  TypeOK'
  BY <1>2 DEF DeleteAnalysis, Status
<1>3. ASSUME NEW r \in Run, GrowOld(r)
      PROVE  TypeOK'
  BY <1>3 DEF GrowOld
<1>4. ASSUME NEW m \in Media, BeginMediaDelete(m)
      PROVE  TypeOK'
  BY <1>4 DEF BeginMediaDelete
<1>5. ASSUME NEW m \in Media, CascadeMedia(m)
      PROVE  TypeOK'
  BY <1>5 DEF CascadeMedia, Status
<1>6. ASSUME NEW m \in Media, AbandonMediaDelete(m)
      PROVE  TypeOK'
  BY <1>6 DEF AbandonMediaDelete
<1>7. ASSUME NEW b \in Boot, NEW p \in Place, Boots(b, p)
      PROVE  TypeOK'
  BY <1>7 DEF Boots
<1>8. ASSUME NEW b \in Boot, Shutdown(b)
      PROVE  TypeOK'
  BY <1>8 DEF Shutdown, Location, Ended
<1>9. ASSUME NEW b \in Boot, Exit(b)
      PROVE  TypeOK'
  BY <1>9 DEF Exit, Gone
<1>10. ASSUME NEW b \in Boot, Crash(b)
       PROVE  TypeOK'
  BY <1>10 DEF Crash, Gone, Location, Ended
<1>11. CASE UNCHANGED vars
  BY <1>11 DEF vars
<1>12. QED
  BY <1>1, <1>2, <1>3, <1>4, <1>5, <1>6, <1>7, <1>8, <1>9, <1>10, <1>11, RunStepTypeOK,
     BootstrapStepTypeOK DEF Next

(* Type correctness of the specification.                                  *)
THEOREM TypeCorrect == Spec => []TypeOK
<1>1. Init => TypeOK
  BY DEF Init, TypeOK, Status, ReportState, Location, Place
<1>2. TypeOK /\ [Next]_vars => TypeOK'
  BY NextTypeOK
<1>3. QED
  BY <1>1, <1>2, PTL DEF Spec

-----------------------------------------------------------------------------
(* Admission.  Most steps leave the gate, the uploads of the runs and the  *)
(* idle and checked threads alone and put no run in flight that was not:   *)
(* those keep the invariant for one and the same reason.                   *)
Quiet ==
  /\ UNCHANGED <<gate, mediaOf, home>>
  /\ \A r \in Run :
       /\ status'[r] \in Active => status[r] \in Active
       /\ status[r] = "absent" <=> status'[r] = "absent"
       /\ pc[r] \in {"idle", "checked"} => pc'[r] = pc[r]
       /\ pc'[r] \in {"idle", "checked"} => pc'[r] = pc[r]

(* A quiet step neither opens nor closes an admission.                     *)
LEMMA QuietKeepsAdmission ==
  ASSUME TypeOK, AdmissionInv, Quiet
  PROVE  AdmissionInv'
<1> USE DEF TypeOK, AdmissionInv, Quiet
<1>1. \A m \in Media : gate'[m] # NoRun =>
        pc'[gate'[m]] = "checked" /\ mediaOf'[gate'[m]] = m /\ InFlight(m)' = {}
  BY DEF InFlight
<1>2. \A r \in Run :
        /\ pc'[r] = "checked" => mediaOf'[r] \in Media /\ gate'[mediaOf'[r]] = r
        /\ pc'[r] = "idle" => mediaOf'[r] = NoMedia /\ home'[r] = NoBoot
        /\ pc'[r] \in {"idle", "checked"} <=> status'[r] = "absent"
  OBVIOUS
<1>3. OneRunPerUpload'
  BY DEF OneRunPerUpload
<1>4. QED
  BY <1>1, <1>2, <1>3

(* Every step of a run but the commit of its admission is quiet.           *)
LEMMA RunStepIsQuiet ==
  ASSUME TypeOK, NEW r \in Run, RunStep(r), ~CommitAdmission(r)
  PROVE  Quiet
<1> USE DEF TypeOK, Quiet, Goto, dbVars, runVars, procVars, Active, Requesting, Holding,
            Working, Ended
<1>2. CASE Enqueue(r)          BY <1>2 DEF Enqueue
<1>3. CASE EnqueueDeclined(r)  BY <1>3 DEF EnqueueDeclined
<1>4. CASE Submit(r)           BY <1>4 DEF Submit
<1>5. CASE Claim(r)            BY <1>5 DEF Claim
<1>6. CASE ClaimDeclined(r)    BY <1>6 DEF ClaimDeclined
<1>7. CASE ClaimRaises(r)      BY <1>7 DEF ClaimRaises
<1>8. CASE BeginInference(r)   BY <1>8 DEF BeginInference
<1>9. CASE EndInference(r)
  <2>1. PICK l \in {"persisting", "failing"} : Goto(r, l)
    BY <1>9 DEF EndInference
  <2>2. QED
    BY <1>9, <2>1 DEF EndInference
<1>10. CASE Persist(r)         BY <1>10 DEF Persist, OwnershipGate, WriteDone
<1>11. CASE PersistGate(r)     BY <1>11 DEF PersistGate
<1>12. CASE PersistSave(r)     BY <1>12 DEF PersistSave, RowExists, WriteDone
<1>13. CASE PersistDeclined(r) BY <1>13 DEF PersistDeclined
<1>14. CASE PersistRaises(r)   BY <1>14 DEF PersistRaises
<1>15. CASE MarkFailed(r)      BY <1>15 DEF MarkFailed
<1>16. CASE SkipReport(r)      BY <1>16 DEF SkipReport
<1>17. CASE BeginReport(r)     BY <1>17 DEF BeginReport
<1>18. CASE EndReport(r)       BY <1>18 DEF EndReport
<1>19. QED
  BY <1>2, <1>3, <1>4, <1>5, <1>6, <1>7, <1>8, <1>9, <1>10, <1>11, <1>12, <1>13, <1>14,
     <1>15, <1>16, <1>17, <1>18
     DEF RunStep, RequestStep, ClaimStep, InferenceStep, PersistStep, ReportStep

(* The steps of a boot are quiet: a sweep only ends runs.                  *)
LEMMA BootstrapStepIsQuiet ==
  ASSUME TypeOK, NEW b \in Boot, BootstrapStep(b)
  PROVE  Quiet
<1> USE DEF TypeOK, Quiet, dbVars, runVars, procVars
<1>1. CASE ReadCandidates(b) BY <1>1 DEF ReadCandidates
<1>2. CASE ResolveCandidate(b)
  <2>1. PICK row \in seen[b] :
          IF RecoveryVerdict(b, row) THEN FailInterrupted(row.run)
                                     ELSE UNCHANGED <<status, report>>
    BY <1>2 DEF ResolveCandidate
  <2>2. QED
    BY <1>2, <2>1 DEF ResolveCandidate, FailInterrupted, Sweepable, Active
<1>3. CASE EndSweep(b)    BY <1>3 DEF EndSweep
<1>4. CASE BeginWarmup(b) BY <1>4 DEF BeginWarmup
<1>5. CASE EndWarmup(b)   BY <1>5 DEF EndWarmup
<1>6. QED
  BY <1>1, <1>2, <1>3, <1>4, <1>5 DEF BootstrapStep

(* The check that found nothing in flight still holds when the row of the  *)
(* admission that made it is inserted.                                     *)
LEMMA CommitAdmissionKeepsAdmission ==
  ASSUME TypeOK, AdmissionInv, NEW r \in Run, CommitAdmission(r)
  PROVE  AdmissionInv'
<1> USE DEF TypeOK, AdmissionInv, CommitAdmission, Goto
<1>1. PICK n \in Media : n = mediaOf[r] /\ gate[n] = r
  OBVIOUS
<1>2. \A m \in Media \ {n} : gate[m] # r
  BY <1>1, NullAssumption
<1>3. \A m \in Media : gate'[m] = IF m = n THEN NoRun ELSE gate[m]
  BY <1>1, <1>2
<1>4. InFlight(n) = {}
  BY <1>1, NullAssumption
<1>5. \A m \in Media : gate'[m] # NoRun =>
        pc'[gate'[m]] = "checked" /\ mediaOf'[gate'[m]] = m /\ InFlight(m)' = {}
  BY <1>1, <1>2, <1>3 DEF InFlight
<1>6. \A s \in Run :
        /\ pc'[s] = "checked" => mediaOf'[s] \in Media /\ gate'[mediaOf'[s]] = s
        /\ pc'[s] = "idle" => mediaOf'[s] = NoMedia /\ home'[s] = NoBoot
        /\ pc'[s] \in {"idle", "checked"} <=> status'[s] = "absent"
  BY <1>1, <1>3
<1>7. OneRunPerUpload'
  BY <1>1, <1>4 DEF OneRunPerUpload, InFlight
<1>8. QED
  BY <1>5, <1>6, <1>7

(* Every step keeps one admission at a time per upload.                    *)
LEMMA NextKeepsAdmission ==
  ASSUME TypeOK, AdmissionInv, [Next]_vars
  PROVE  AdmissionInv'
<1> USE DEF TypeOK, dbVars, runVars, procVars
<1>1. ASSUME NEW b \in Boot, NEW r \in Run, NEW m \in Media, BeginAdmission(b, r, m)
      PROVE  AdmissionInv'
  <2> USE <1>1 DEF BeginAdmission, Goto, AdmissionInv, AdmissionLockFree
  <2>1. \A n \in Media : gate[n] # r
    BY NullAssumption
  <2>2. \A n \in Media : gate'[n] # NoRun =>
          pc'[gate'[n]] = "checked" /\ mediaOf'[gate'[n]] = n /\ InFlight(n)' = {}
    BY <2>1 DEF InFlight, Active
  <2>3. \A s \in Run :
          /\ pc'[s] = "checked" => mediaOf'[s] \in Media /\ gate'[mediaOf'[s]] = s
          /\ pc'[s] = "idle" => mediaOf'[s] = NoMedia /\ home'[s] = NoBoot
          /\ pc'[s] \in {"idle", "checked"} <=> status'[s] = "absent"
    BY NullAssumption
  <2>4. OneRunPerUpload'
    BY DEF OneRunPerUpload, Active
  <2>5. QED
    BY <2>2, <2>3, <2>4
<1>2. ASSUME NEW r \in Run, DeleteAnalysis(r)
      PROVE  Quiet
  BY <1>2 DEF Quiet, DeleteAnalysis, Active, Terminal
<1>3. ASSUME NEW r \in Run, GrowOld(r)
      PROVE  Quiet
  BY <1>3 DEF Quiet, GrowOld
<1>4. ASSUME NEW m \in Media, BeginMediaDelete(m) \/ AbandonMediaDelete(m)
      PROVE  Quiet
  BY <1>4 DEF Quiet, BeginMediaDelete, AbandonMediaDelete
<1>5. ASSUME NEW m \in Media, CascadeMedia(m)
      PROVE  AdmissionInv'
  <2> USE <1>5 DEF CascadeMedia
  <2>1. ASSUME AdmissionInv, NEW r \in Run, status[r] = "absent", pc[r] \in {"idle", "checked"}
        PROVE  status'[r] = "absent"
    BY <2>1, NullAssumption DEF AdmissionInv
  <2>2. QED
    BY <2>1 DEF AdmissionInv, InFlight, OneRunPerUpload, Active
<1>6. ASSUME NEW b \in Boot, NEW p \in Place, Boots(b, p)
      PROVE  Quiet
  BY <1>6 DEF Quiet, Boots
<1>7. ASSUME NEW b \in Boot, Shutdown(b) \/ Exit(b)
      PROVE  Quiet
  BY <1>7 DEF Quiet, Shutdown, Exit
<1>8. ASSUME NEW b \in Boot, Crash(b)
      PROVE  AdmissionInv'
  <2> DEFINE undone == {r \in Run : home[r] = b /\ pc[r] = "checked"}
  <2>1. /\ pc' = [r \in Run |-> IF r \in undone THEN "idle"
                                 ELSE IF home[r] = b /\ pc[r] \notin Ended THEN "lost"
                                 ELSE pc[r]]
        /\ home' = [r \in Run |-> IF r \in undone THEN NoBoot ELSE home[r]]
        /\ mediaOf' = [r \in Run |-> IF r \in undone THEN NoMedia ELSE mediaOf[r]]
        /\ gate' = [m \in Media |-> IF gate[m] \in undone THEN NoRun ELSE gate[m]]
        /\ UNCHANGED status
    BY <1>8 DEF Crash
  <2> HIDE DEF undone
  <2>2. \A s \in undone : s \in Run /\ pc[s] = "checked" /\ status[s] = "absent"
    BY DEF undone, AdmissionInv
  <2>3. \A m \in Media : gate'[m] # NoRun =>
          pc'[gate'[m]] = "checked" /\ mediaOf'[gate'[m]] = m /\ InFlight(m)' = {}
    <3>1. ASSUME NEW m \in Media, gate'[m] # NoRun
          PROVE  gate'[m] = gate[m] /\ gate[m] \in Run \ undone
      BY <2>1, <3>1
    <3>2. ASSUME NEW s \in Run \ undone, pc[s] = "checked"
          PROVE  pc'[s] = "checked" /\ mediaOf'[s] = mediaOf[s]
      BY <2>1, <3>2 DEF undone
    <3>3. ASSUME NEW m \in Media, InFlight(m) = {}
          PROVE  InFlight(m)' = {}
      BY <2>1, <2>2, <3>3, NullAssumption DEF InFlight
    <3>4. QED
      BY <3>1, <3>2, <3>3 DEF AdmissionInv
  <2>4. \A s \in Run :
          /\ pc'[s] = "checked" => mediaOf'[s] \in Media /\ gate'[mediaOf'[s]] = s
          /\ pc'[s] = "idle" => mediaOf'[s] = NoMedia /\ home'[s] = NoBoot
          /\ pc'[s] \in {"idle", "checked"} <=> status'[s] = "absent"
    <3>1. \A s \in undone : pc'[s] = "idle" /\ mediaOf'[s] = NoMedia /\ home'[s] = NoBoot
      BY <2>1, <2>2
    <3>2. ASSUME NEW s \in Run \ undone, pc[s] \in {"idle", "checked"}
          PROVE  home[s] # b /\ pc'[s] = pc[s]
      BY <2>1, <3>2, NullAssumption DEF AdmissionInv, undone
    <3>3. ASSUME NEW s \in Run \ undone, pc'[s] \in {"idle", "checked"}
          PROVE  pc'[s] = pc[s]
      BY <2>1, <3>3 DEF undone
    <3>4. QED
      BY <2>1, <2>2, <3>1, <3>2, <3>3 DEF AdmissionInv
  <2>5. OneRunPerUpload'
    BY <2>1, <2>2 DEF AdmissionInv, OneRunPerUpload, Active
  <2>6. QED
    BY <2>3, <2>4, <2>5 DEF AdmissionInv
<1>9. CASE UNCHANGED vars
  BY <1>9, QuietKeepsAdmission DEF Quiet, vars
<1>10. QED
  BY <1>1, <1>2, <1>3, <1>4, <1>5, <1>6, <1>7, <1>8, <1>9, RunStepIsQuiet,
     BootstrapStepIsQuiet, CommitAdmissionKeepsAdmission, QuietKeepsAdmission DEF Next

(* At most one run of an upload is in flight, in every reachable state.    *)
THEOREM AtMostOneRunPerUpload == Spec => []OneRunPerUpload
<1>1. Init => AdmissionInv
  BY DEF Init, AdmissionInv, OneRunPerUpload, InFlight, Active
<1>2. TypeOK /\ AdmissionInv /\ [Next]_vars => AdmissionInv'
  BY NextKeepsAdmission
<1>3. AdmissionInv => OneRunPerUpload
  BY DEF AdmissionInv
<1>4. QED
  BY <1>1, <1>2, <1>3, TypeCorrect, PTL DEF Spec

-----------------------------------------------------------------------------
(* Ownership.  A step of a run's own threads.                              *)
LEMMA RunStepKeepsOwnership ==
  ASSUME TypeOK, AdmissionInv, OwnershipInv, NEW r \in Run, RunStep(r)
  PROVE  OwnershipInv'
<1> USE DEF TypeOK, Goto, dbVars, runVars, procVars, OwnershipInv, ThreadsLive, PlacesKnown,
            SeenRowsAreOwned, LiveRowsAreOwned, LiveWorkKeepsItsRow, Live, HostOf,
            Requesting, Holding, Working, Ended, Sweepable
<1>1. CASE CommitAdmission(r)  BY <1>1 DEF CommitAdmission
<1>2. CASE Enqueue(r)          BY <1>2 DEF Enqueue
<1>3. CASE EnqueueDeclined(r)  BY <1>3 DEF EnqueueDeclined
<1>4. CASE Submit(r)           BY <1>4 DEF Submit
<1>5. CASE Claim(r)            BY <1>5 DEF Claim
<1>6. CASE ClaimDeclined(r)    BY <1>6 DEF ClaimDeclined
<1>7. CASE ClaimRaises(r)      BY <1>7 DEF ClaimRaises
<1>8. CASE BeginInference(r)   BY <1>8 DEF BeginInference
<1>9. CASE EndInference(r)
  <2>1. PICK l \in {"persisting", "failing"} : Goto(r, l)
    BY <1>9 DEF EndInference
  <2>2. QED
    BY <1>9, <2>1 DEF EndInference
<1>10. CASE Persist(r)         BY <1>10 DEF Persist, OwnershipGate, WriteDone
<1>11. CASE PersistGate(r)     BY <1>11 DEF PersistGate
<1>12. CASE PersistSave(r)     BY <1>12 DEF PersistSave, RowExists, WriteDone
<1>13. CASE PersistDeclined(r) BY <1>13 DEF PersistDeclined
<1>14. CASE PersistRaises(r)   BY <1>14 DEF PersistRaises
<1>15. CASE MarkFailed(r)      BY <1>15 DEF MarkFailed
<1>16. CASE SkipReport(r)      BY <1>16 DEF SkipReport
<1>17. CASE BeginReport(r)     BY <1>17 DEF BeginReport
<1>18. CASE EndReport(r)       BY <1>18 DEF EndReport
<1>19. QED
  BY <1>1, <1>2, <1>3, <1>4, <1>5, <1>6, <1>7, <1>8, <1>9, <1>10, <1>11, <1>12, <1>13,
     <1>14, <1>15, <1>16, <1>17, <1>18
     DEF RunStep, RequestStep, ClaimStep, InferenceStep, PersistStep, ReportStep

(* The sweep of b never resolves the row of a thread that still works on   *)
(* it, unless that thread is on another host and the row was read stale.   *)
LEMMA ResolveKeepsOwnership ==
  ASSUME TypeOK, AdmissionInv, OwnershipInv, NEW b \in Boot, ResolveCandidate(b)
  PROVE  OwnershipInv'
<1> USE DEF TypeOK, dbVars, runVars, procVars
<1>1. PICK row \in seen[b] :
        /\ seen' = [seen EXCEPT ![b] = @ \ {row}]
        /\ IF RecoveryVerdict(b, row) THEN FailInterrupted(row.run)
                                      ELSE UNCHANGED <<status, report>>
  BY DEF ResolveCandidate
<1>2. UNCHANGED <<owner, mediaOf, aged, media, gate, pc, home, proc, place, phase, departed, engine>>
  BY DEF ResolveCandidate
<1>3. /\ row.run \in Run
      /\ row.owner = home[row.run]
      /\ row.age = "stale" => JobsAge
      /\ Live(b)
      /\ place[b] # NoPlace
  BY DEF Candidate, OwnershipInv, SeenRowsAreOwned, PlacesKnown, ResolveCandidate, Live
<1>4. ASSUME RecoveryVerdict(b, row), pc[row.run] \in Holding
      PROVE  JobsAge /\ HostOf(b) # HostOf(home[row.run])
  <2>1. home[row.run] \in Boot /\ Live(home[row.run])
    BY <1>3, <1>4 DEF OwnershipInv, ThreadsLive, Holding, Ended
  <2>2. row.owner # NoBoot /\ ProcessIsAlive(place[row.owner])
    BY <1>3, <2>1, NullAssumption DEF ProcessIsAlive
  <2>3. QED
    BY <1>3, <1>4, <2>2 DEF RecoveryVerdict
<1>5. \A s \in Run : status'[s] # status[s] =>
        s = row.run /\ status'[s] = "failed" /\ RecoveryVerdict(b, row)
  BY <1>1, <1>3 DEF FailInterrupted
<1>6. ThreadsLive' /\ PlacesKnown' /\ (aged # {} => JobsAge)'
  BY <1>2 DEF OwnershipInv, ThreadsLive, PlacesKnown, Live
<1>7. SeenRowsAreOwned'
  BY <1>1, <1>2 DEF OwnershipInv, SeenRowsAreOwned
<1>8. LiveRowsAreOwned'
  BY <1>2, <1>5 DEF OwnershipInv, LiveRowsAreOwned, Sweepable
<1>9. LiveWorkKeepsItsRow'
  BY <1>2, <1>3, <1>4, <1>5 DEF OwnershipInv, LiveWorkKeepsItsRow, HostOf
<1>10. QED
  BY <1>6, <1>7, <1>8, <1>9 DEF OwnershipInv

(* Every step keeps a run with the worker that claimed it.                 *)
LEMMA NextKeepsOwnership ==
  ASSUME TypeOK, AdmissionInv, OwnershipInv, [Next]_vars
  PROVE  OwnershipInv'
<1> USE DEF TypeOK, dbVars, runVars, procVars
<1>1. ASSUME NEW b \in Boot, NEW r \in Run, NEW m \in Media, BeginAdmission(b, r, m)
      PROVE  OwnershipInv'
  BY <1>1 DEF BeginAdmission, Goto, AdmissionInv, OwnershipInv, ThreadsLive, PlacesKnown,
     SeenRowsAreOwned, LiveRowsAreOwned, LiveWorkKeepsItsRow, Live, HostOf, Sweepable, Holding
<1>2. ASSUME NEW r \in Run, DeleteAnalysis(r)
      PROVE  OwnershipInv'
  BY <1>2 DEF DeleteAnalysis, OwnershipInv, ThreadsLive, PlacesKnown,
     SeenRowsAreOwned, LiveRowsAreOwned, LiveWorkKeepsItsRow, Live, HostOf, Sweepable, Terminal
<1>3. ASSUME NEW r \in Run, GrowOld(r)
      PROVE  OwnershipInv'
  BY <1>3 DEF GrowOld, OwnershipInv, ThreadsLive, PlacesKnown,
     SeenRowsAreOwned, LiveRowsAreOwned, LiveWorkKeepsItsRow, Live, HostOf
<1>4. ASSUME NEW m \in Media, BeginMediaDelete(m) \/ AbandonMediaDelete(m)
      PROVE  OwnershipInv'
  <2>1. UNCHANGED <<status, owner, aged, pc, home, proc, place, seen>>
    BY <1>4 DEF BeginMediaDelete, AbandonMediaDelete
  <2>2. ThreadsLive' /\ PlacesKnown' /\ SeenRowsAreOwned' /\ (aged' # {} => JobsAge)
    BY <2>1 DEF OwnershipInv, ThreadsLive, PlacesKnown, SeenRowsAreOwned, Live
  <2>3. LiveRowsAreOwned' /\ LiveWorkKeepsItsRow'
    BY <2>1 DEF OwnershipInv, LiveRowsAreOwned, LiveWorkKeepsItsRow, HostOf
  <2>4. QED
    BY <2>2, <2>3 DEF OwnershipInv
<1>5. ASSUME NEW m \in Media, CascadeMedia(m)
      PROVE  OwnershipInv'
  BY <1>5 DEF CascadeMedia, OwnershipInv, ThreadsLive, PlacesKnown,
     SeenRowsAreOwned, LiveRowsAreOwned, LiveWorkKeepsItsRow, Live, HostOf, Sweepable
<1>6. ASSUME NEW b \in Boot, NEW p \in Place, Boots(b, p)
      PROVE  OwnershipInv'
  BY <1>6, NullAssumption DEF Boots, Place, OwnershipInv, ThreadsLive, PlacesKnown,
     SeenRowsAreOwned, LiveRowsAreOwned, LiveWorkKeepsItsRow, Live, HostOf, Holding, Ended
<1>7. ASSUME NEW b \in Boot, BootstrapStep(b), ~ResolveCandidate(b), ~ReadCandidates(b)
      PROVE  OwnershipInv'
  <2>1. /\ UNCHANGED <<status, owner, aged, pc, home, proc, place>>
        /\ seen' = seen \/ seen' = [seen EXCEPT ![b] = {}]
    BY <1>7 DEF BootstrapStep, EndSweep, BeginWarmup, EndWarmup
  <2>2. ThreadsLive' /\ PlacesKnown' /\ (aged' # {} => JobsAge)
    BY <2>1 DEF OwnershipInv, ThreadsLive, PlacesKnown, Live
  <2>3. SeenRowsAreOwned'
    BY <2>1 DEF OwnershipInv, SeenRowsAreOwned
  <2>4. LiveRowsAreOwned' /\ LiveWorkKeepsItsRow'
    BY <2>1 DEF OwnershipInv, LiveRowsAreOwned, LiveWorkKeepsItsRow, HostOf
  <2>5. QED
    BY <2>2, <2>3, <2>4 DEF OwnershipInv
<1>8. ASSUME NEW b \in Boot, ReadCandidates(b)
      PROVE  OwnershipInv'
  <2> DEFINE rows == {[run |-> r, owner |-> owner[r], age |-> Age(r)] : r \in SweepCandidates}
  <2>1. /\ seen' = [seen EXCEPT ![b] = rows]
        /\ UNCHANGED <<status, owner, aged, pc, home, proc, place>>
    BY <1>8 DEF ReadCandidates
  <2>2. \A r \in SweepCandidates : /\ r \in Run
                                   /\ owner[r] = home[r]
                                   /\ owner[r] \in Boot
                                   /\ pc[r] \notin {"idle", "checked"}
                                   /\ Age(r) = "stale" => JobsAge
    BY DEF SweepCandidates, OwnershipInv, LiveRowsAreOwned, AdmissionInv, Age, Sweepable
  <2>3. SeenRowsAreOwned'
    BY <2>1, <2>2 DEF OwnershipInv, SeenRowsAreOwned
  <2> HIDE DEF rows
  <2>4. QED
    BY <2>1, <2>3 DEF OwnershipInv, ThreadsLive, PlacesKnown, LiveRowsAreOwned,
       LiveWorkKeepsItsRow, Live, HostOf
<1>9. ASSUME NEW b \in Boot, Shutdown(b)
      PROVE  OwnershipInv'
  <2> USE <1>9 DEF Shutdown, OwnershipInv, Live
  <2>1. \A r \in Run : pc'[r] # pc[r] => pc[r] = "submitted" /\ pc'[r] = "dropped"
    OBVIOUS
  <2>2. ThreadsLive'
    BY <2>1 DEF ThreadsLive, Ended
  <2>3. PlacesKnown' /\ (aged # {} => JobsAge)'
    BY DEF PlacesKnown
  <2>4. SeenRowsAreOwned'
    <3>1. \A c \in Boot : \A row \in seen[c] : row.run \in Run
      BY DEF Candidate
    <3>2. QED
      BY <2>1, <3>1 DEF SeenRowsAreOwned
  <2>5. LiveRowsAreOwned' /\ LiveWorkKeepsItsRow'
    BY <2>1 DEF LiveRowsAreOwned, LiveWorkKeepsItsRow, HostOf, Holding
  <2>6. QED
    BY <2>2, <2>3, <2>4, <2>5
<1>10. ASSUME NEW b \in Boot, Exit(b)
       PROVE  OwnershipInv'
  <2> USE <1>10 DEF Exit, Gone, OwnershipInv, Live
  <2>1. ThreadsLive'
    BY DEF ThreadsLive
  <2>2. PlacesKnown' /\ (aged # {} => JobsAge)'
    BY DEF PlacesKnown
  <2>3. SeenRowsAreOwned'
    BY DEF SeenRowsAreOwned
  <2>4. LiveRowsAreOwned' /\ LiveWorkKeepsItsRow'
    BY DEF LiveRowsAreOwned, LiveWorkKeepsItsRow, HostOf
  <2>5. QED
    BY <2>1, <2>2, <2>3, <2>4
<1>11. ASSUME NEW b \in Boot, Crash(b)
       PROVE  OwnershipInv'
  <2> DEFINE undone == {r \in Run : home[r] = b /\ pc[r] = "checked"}
  <2>1. /\ pc' = [r \in Run |-> IF r \in undone THEN "idle"
                                 ELSE IF home[r] = b /\ pc[r] \notin Ended THEN "lost"
                                 ELSE pc[r]]
        /\ home' = [r \in Run |-> IF r \in undone THEN NoBoot ELSE home[r]]
        /\ proc' = [proc EXCEPT ![b] = "dead"]
        /\ seen' = [seen EXCEPT ![b] = {}]
        /\ UNCHANGED <<status, owner, aged, place>>
        /\ Live(b)
    BY <1>11 DEF Crash, Gone
  <2>2. \A r \in undone : r \in Run /\ pc[r] = "checked" /\ status[r] = "absent"
    BY DEF undone, AdmissionInv
  <2>3. \A r \in Run \ undone : home[r] = b => pc'[r] \in Ended
    BY <2>1 DEF Ended
  <2> HIDE DEF undone
  <2>4. ThreadsLive'
    BY <2>1, <2>2, <2>3 DEF OwnershipInv, ThreadsLive, Live, Ended
  <2>5. PlacesKnown' /\ (aged # {} => JobsAge)'
    BY <2>1 DEF OwnershipInv, PlacesKnown, Live
  <2>6. SeenRowsAreOwned'
    <3> SUFFICES ASSUME NEW c \in Boot, NEW row \in seen'[c]
                 PROVE  /\ row.owner = home'[row.run]
                        /\ row.owner \in Boot
                        /\ pc'[row.run] \notin {"idle", "checked"}
                        /\ row.age = "stale" => JobsAge
      BY DEF SeenRowsAreOwned
    <3>1. row \in seen[c] /\ row.run \in Run
      BY <2>1 DEF Candidate
    <3>2. row.run \notin undone
      BY <2>2, <3>1 DEF OwnershipInv, SeenRowsAreOwned
    <3>3. QED
      BY <2>1, <3>1, <3>2 DEF OwnershipInv, SeenRowsAreOwned
  <2>7. LiveRowsAreOwned'
    BY <2>1, <2>2 DEF OwnershipInv, LiveRowsAreOwned, Sweepable
  <2>8. LiveWorkKeepsItsRow'
    BY <2>1, <2>2 DEF OwnershipInv, LiveWorkKeepsItsRow, HostOf, Holding
  <2>9. QED
    BY <2>4, <2>5, <2>6, <2>7, <2>8 DEF OwnershipInv
<1>12. CASE UNCHANGED vars
  BY <1>12 DEF vars, OwnershipInv, ThreadsLive, PlacesKnown,
     SeenRowsAreOwned, LiveRowsAreOwned, LiveWorkKeepsItsRow, Live, HostOf
<1>13. QED
  BY <1>1, <1>2, <1>3, <1>4, <1>5, <1>6, <1>7, <1>8, <1>9, <1>10, <1>11, <1>12,
     RunStepKeepsOwnership, ResolveKeepsOwnership DEF Next

(* The three invariants together are inductive.                            *)
LEMMA InvariantsHold == Spec => [](TypeOK /\ AdmissionInv /\ OwnershipInv)
<1> DEFINE Inv == TypeOK /\ AdmissionInv /\ OwnershipInv
<1>1. Init => TypeOK
  BY DEF Init, TypeOK, Status, ReportState, Location, Place
<1>2. Init => AdmissionInv
  BY DEF Init, AdmissionInv, OneRunPerUpload, InFlight, Active
<1>3. Init => OwnershipInv
  BY DEF Init, OwnershipInv, ThreadsLive, PlacesKnown, SeenRowsAreOwned, LiveRowsAreOwned,
     LiveWorkKeepsItsRow, Sweepable, Holding
<1>4. Inv /\ [Next]_vars => Inv'
  BY NextTypeOK, NextKeepsAdmission, NextKeepsOwnership
<1>5. QED
  BY <1>1, <1>2, <1>3, <1>4, PTL DEF Spec

(* "There is no window in which a live row has no owner".                  *)
THEOREM EveryLiveRowIsOwned == Spec => []LiveRowsAreOwned
<1>1. OwnershipInv => LiveRowsAreOwned
  BY DEF OwnershipInv
<1>2. QED
  BY <1>1, InvariantsHold, PTL

(* No sweep takes the row of live work away, however many processes boot,  *)
(* crash and sweep, except that of another host for a row read stale.      *)
THEOREM LiveWorkIsSafe == Spec => []LiveWorkKeepsItsRow
<1>1. OwnershipInv => LiveWorkKeepsItsRow
  BY DEF OwnershipInv
<1>2. QED
  BY <1>1, InvariantsHold, PTL

-----------------------------------------------------------------------------
(* Where one writer at a time holds the write lock (SQLite), a row moves   *)
(* exactly as JobLifecycle allows.  On PostgreSQL it does not: PersistSave *)
(* may write `done` over a verdict given after its gate was read.          *)
NoneGated == \A r \in Run : pc[r] # "gated"

(* Where writes are serial nothing waits between check and commit.         *)
LEMMA SerialWritesNeverGate ==
  ASSUME SerialWrites
  PROVE  Spec => []NoneGated
<1>1. Init => NoneGated
  BY DEF Init, NoneGated
<1>2. ASSUME TypeOK, NoneGated, [Next]_vars
      PROVE  NoneGated'
  <2> USE <1>2 DEF TypeOK, NoneGated, Goto, dbVars, runVars, procVars
  <2>1. ASSUME NEW r \in Run, RunStep(r)
        PROVE  NoneGated'
    BY <2>1 DEF RunStep, RequestStep, ClaimStep, InferenceStep, PersistStep, ReportStep,
       CommitAdmission, Enqueue, EnqueueDeclined, Submit, Claim, ClaimDeclined, ClaimRaises,
       BeginInference, EndInference, Persist, PersistGate, PersistSave, PersistDeclined,
       PersistRaises, MarkFailed, SkipReport, BeginReport, EndReport, WriteDone
  <2>2. ASSUME NEW b \in Boot, NEW r \in Run, NEW m \in Media, BeginAdmission(b, r, m)
        PROVE  NoneGated'
    BY <2>2 DEF BeginAdmission
  <2>3. ASSUME NEW b \in Boot, Shutdown(b) \/ Exit(b) \/ Crash(b)
        PROVE  NoneGated'
    BY <2>3 DEF Shutdown, Exit, Crash
  <2>4. ASSUME NEW b \in Boot, BootstrapStep(b)
        PROVE  UNCHANGED pc
    BY <2>4 DEF BootstrapStep, ReadCandidates, ResolveCandidate, EndSweep, BeginWarmup, EndWarmup
  <2>5. ASSUME NEW r \in Run, DeleteAnalysis(r) \/ GrowOld(r)
        PROVE  UNCHANGED pc
    BY <2>5 DEF DeleteAnalysis, GrowOld
  <2>6. ASSUME NEW m \in Media, BeginMediaDelete(m) \/ CascadeMedia(m) \/ AbandonMediaDelete(m)
        PROVE  UNCHANGED pc
    BY <2>6 DEF BeginMediaDelete, CascadeMedia, AbandonMediaDelete
  <2>7. ASSUME NEW b \in Boot, NEW p \in Place, Boots(b, p)
        PROVE  UNCHANGED pc
    BY <2>7 DEF Boots
  <2>8. CASE UNCHANGED vars
    BY <2>8 DEF vars
  <2>9. QED
    BY <2>1, <2>2, <2>3, <2>4, <2>5, <2>6, <2>7, <2>8 DEF Next
<1>3. QED
  BY <1>1, <1>2, TypeCorrect, PTL DEF Spec

(* The rows' steps, seen through the mapping.                              *)
LEMMA Unmoved ==
  ASSUME TypeOK, status' = status,
         \A r \in Run : status[r] # "absent" => mediaOf'[r] = mediaOf[r]
  PROVE  UNCHANGED Lifecycle!vars
BY DEF TypeOK, Lifecycle!vars

(* A change of one row's status is a move of its lifecycle.                *)
LEMMA Moved ==
  ASSUME TypeOK, NEW r \in Run, NEW from \in Status \ {"absent"}, NEW to \in Status \ {"absent"},
         status[r] = from, status' = [status EXCEPT ![r] = to], UNCHANGED mediaOf
  PROVE  Lifecycle!Move(r, from, to)
BY DEF TypeOK, Lifecycle!Move

(* A step of a run is a step of the lifecycle, or none.                    *)
LEMMA RunStepRefines ==
  ASSUME TypeOK, AdmissionInv, NoneGated, NEW r \in Run, RunStep(r)
  PROVE  [Lifecycle!Next]_(Lifecycle!vars)
<1> USE DEF TypeOK, Goto, dbVars, runVars, procVars
<1>1. CASE CommitAdmission(r)
  <2>1. /\ status[r] = "absent"
        /\ mediaOf[r] \in Media
        /\ \A s \in Run : mediaOf[s] = mediaOf[r] => status[s] \notin Active
    BY <1>1, NullAssumption DEF CommitAdmission, AdmissionInv, InFlight
  <2>2. PICK m \in Media : m = mediaOf[r]
    BY <2>1
  <2> DEFINE masked == [s \in Run |-> IF status[s] = "absent" THEN NoMedia ELSE mediaOf[s]]
  <2>3. masked' = [masked EXCEPT ![r] = m]
    BY <1>1, <2>1, <2>2 DEF CommitAdmission
  <2>4. \A s \in Run : masked[s] = m => status[s] \notin Active
    BY <2>1, <2>2, NullAssumption
  <2>5. Lifecycle!Admit(r, m)
    BY <1>1, <2>1, <2>3, <2>4 DEF CommitAdmission, Lifecycle!Admit, Lifecycle!Active, Active
  <2>6. QED
    BY <2>5 DEF Lifecycle!Next
<1>2. CASE Enqueue(r)
  <2>1. CASE status[r] = "pending"
    <3>1. Lifecycle!Queue(r)
      BY <1>2, <2>1, Moved DEF Enqueue, Lifecycle!Queue, Status, Active
    <3>2. QED
      BY <3>1 DEF Lifecycle!Next
  <2>2. CASE status[r] = "queued"
    BY <1>2, <2>2, Unmoved DEF Enqueue
  <2>3. QED
    BY <1>2, <2>1, <2>2 DEF Enqueue
<1>3. CASE Claim(r)
  <2>1. Lifecycle!Start(r)
    BY <1>3, Moved DEF Claim, Lifecycle!Start, Status, Active
  <2>2. QED
    BY <2>1 DEF Lifecycle!Next
<1>4. CASE Persist(r)
  <2>1. Lifecycle!Finish(r)
    BY <1>4, Moved DEF Persist, OwnershipGate, WriteDone, Lifecycle!Finish, Status, Active, Terminal
  <2>2. QED
    BY <2>1 DEF Lifecycle!Next
<1>5. CASE MarkFailed(r)
  <2>1. CASE UNCHANGED status
    BY <1>5, <2>1, Unmoved DEF MarkFailed
  <2>2. CASE status[r] = "running" /\ status' = [status EXCEPT ![r] = "failed"]
    <3>1. Lifecycle!Move(r, "running", "failed")
      BY <1>5, <2>2, Moved DEF MarkFailed, Status, Active, Terminal
    <3>2. QED
      BY <3>1 DEF Lifecycle!Fail, Lifecycle!Next
  <2>3. QED
    BY <1>5, <2>1, <2>2 DEF MarkFailed
<1>6. CASE ~ (CommitAdmission(r) \/ Enqueue(r) \/ Claim(r) \/ Persist(r) \/ MarkFailed(r))
  <2>1. UNCHANGED <<status, mediaOf>>
    BY <1>6 DEF RunStep, RequestStep, ClaimStep, InferenceStep, PersistStep, ReportStep,
       EnqueueDeclined, Submit, ClaimDeclined, ClaimRaises, BeginInference, EndInference,
       PersistGate, PersistSave, PersistDeclined, PersistRaises, SkipReport, BeginReport,
       EndReport, NoneGated
  <2>2. QED
    BY <2>1, Unmoved
<1>7. QED
  BY <1>1, <1>2, <1>3, <1>4, <1>5, <1>6

(* So is every step of the system.                                         *)
LEMMA NextRefines ==
  ASSUME TypeOK, AdmissionInv, NoneGated, [Next]_vars
  PROVE  [Lifecycle!Next]_(Lifecycle!vars)
<1> USE DEF TypeOK, dbVars, runVars, procVars
<1>1. ASSUME NEW b \in Boot, NEW r \in Run, NEW m \in Media, BeginAdmission(b, r, m)
      PROVE  UNCHANGED Lifecycle!vars
  BY <1>1, Unmoved DEF BeginAdmission, AdmissionInv
<1>2. ASSUME NEW r \in Run, DeleteAnalysis(r)
      PROVE  Lifecycle!Next
  <2>1. PICK from \in Terminal : status[r] = from
    BY <1>2 DEF DeleteAnalysis
  <2>2. Lifecycle!Move(r, from, "deleted")
    BY <1>2, <2>1, Moved DEF DeleteAnalysis, Status, Terminal
  <2>3. QED
    BY <2>2 DEF Lifecycle!Delete, Lifecycle!Terminal, Terminal, Lifecycle!Next
<1>3. ASSUME NEW m \in Media, CascadeMedia(m)
      PROVE  Lifecycle!Next
  <2>1. \A r \in Run : status[r] = "absent" => mediaOf[r] # m
    BY <1>3, NullAssumption DEF CascadeMedia, AdmissionInv
  <2>2. QED
    BY <1>3, <2>1, NullAssumption DEF CascadeMedia, Lifecycle!DeleteMedia, Lifecycle!Next
<1>4. ASSUME NEW b \in Boot, ResolveCandidate(b)
      PROVE  [Lifecycle!Next]_(Lifecycle!vars)
  <2>1. PICK row \in seen[b] :
          IF RecoveryVerdict(b, row) THEN FailInterrupted(row.run)
                                     ELSE UNCHANGED <<status, report>>
    BY <1>4 DEF ResolveCandidate
  <2>2. row.run \in Run /\ UNCHANGED mediaOf
    BY <1>4 DEF ResolveCandidate, Candidate
  <2>3. CASE UNCHANGED status
    BY <2>2, <2>3, Unmoved
  <2>4. CASE status[row.run] \in Sweepable /\ status' = [status EXCEPT ![row.run] = "failed"]
    <3>1. PICK from \in Sweepable : status[row.run] = from
      BY <2>4
    <3>2. Lifecycle!Move(row.run, from, "failed")
      BY <2>2, <2>4, <3>1, Moved DEF Status, Sweepable, Active, Terminal
    <3>3. QED
      BY <2>2, <3>1, <3>2 DEF Lifecycle!Fail, Lifecycle!Next, Sweepable
  <2>5. QED
    BY <2>1, <2>3, <2>4 DEF FailInterrupted
<1>5. ASSUME NEW b \in Boot, BootstrapStep(b), ~ResolveCandidate(b)
      PROVE  UNCHANGED Lifecycle!vars
  <2>1. UNCHANGED <<status, mediaOf>>
    BY <1>5 DEF BootstrapStep, ReadCandidates, EndSweep, BeginWarmup, EndWarmup
  <2>2. QED
    BY <2>1, Unmoved
<1>6. ASSUME NEW b \in Boot, Crash(b)
      PROVE  UNCHANGED Lifecycle!vars
  <2>1. \A r \in Run : status[r] # "absent" => mediaOf'[r] = mediaOf[r]
    BY <1>6 DEF Crash, AdmissionInv
  <2>2. QED
    BY <1>6, <2>1, Unmoved DEF Crash
<1>7. ASSUME UNCHANGED <<status, mediaOf>>
      PROVE  UNCHANGED Lifecycle!vars
  BY <1>7, Unmoved
<1>8. ASSUME NEW r \in Run, GrowOld(r)
      PROVE  UNCHANGED <<status, mediaOf>>
  BY <1>8 DEF GrowOld
<1>9. ASSUME NEW m \in Media, BeginMediaDelete(m) \/ AbandonMediaDelete(m)
      PROVE  UNCHANGED <<status, mediaOf>>
  BY <1>9 DEF BeginMediaDelete, AbandonMediaDelete
<1>10. ASSUME NEW b \in Boot, (\E p \in Place : Boots(b, p)) \/ Shutdown(b) \/ Exit(b)
       PROVE  UNCHANGED <<status, mediaOf>>
  BY <1>10 DEF Boots, Shutdown, Exit
<1>11. CASE UNCHANGED vars
  BY <1>7, <1>11 DEF vars
<1>12. QED
  BY <1>1, <1>2, <1>3, <1>4, <1>5, <1>6, <1>7, <1>8, <1>9, <1>10, <1>11, RunStepRefines DEF Next

(* The jobs implement the lifecycle of a row where writes are serial.      *)
THEOREM JobsImplementLifecycle ==
  ASSUME SerialWrites
  PROVE  Spec => ImplementsLifecycle
<1>1. Init => Lifecycle!Init
  BY DEF Init, Lifecycle!Init
<1>2. TypeOK /\ AdmissionInv /\ NoneGated /\ [Next]_vars => [Lifecycle!Next]_(Lifecycle!vars)
  BY NextRefines
<1>3. QED
  BY <1>1, <1>2, InvariantsHold, SerialWritesNeverGate, PTL
     DEF Spec, ImplementsLifecycle, Lifecycle!Spec

(* ... so no step rewrites the verdict on a row.                           *)
THEOREM VerdictsStand ==
  ASSUME SerialWrites
  PROVE  Spec => NoResurrection
<1>1. ASSUME TypeOK, AdmissionInv, NoneGated, [Next]_vars
      PROVE  [\A r \in Run : status[r] \in Terminal => status'[r] \in {status[r], "deleted"}]_vars
  <2>1. CASE Lifecycle!Next
    <3>1. status \in [Run -> Status]
      BY <1>1 DEF TypeOK
    <3>2. ASSUME NEW r \in Run, NEW m \in Media, Lifecycle!Admit(r, m)
          PROVE  \A s \in Run : status[s] \in Terminal => status'[s] = status[s]
      BY <3>1, <3>2 DEF Lifecycle!Admit, Terminal
    <3>3. ASSUME NEW r \in Run, Lifecycle!Queue(r) \/ Lifecycle!Start(r) \/ Lifecycle!Finish(r)
          PROVE  \A s \in Run : status[s] \in Terminal => status'[s] = status[s]
      BY <3>1, <3>3 DEF Lifecycle!Queue, Lifecycle!Start, Lifecycle!Finish, Lifecycle!Move, Terminal
    <3>4. ASSUME NEW r \in Run, Lifecycle!Fail(r)
          PROVE  \A s \in Run : status[s] \in Terminal => status'[s] = status[s]
      BY <3>1, <3>4 DEF Lifecycle!Fail, Lifecycle!Move, Terminal
    <3>5. ASSUME NEW r \in Run, Lifecycle!Delete(r)
          PROVE  \A s \in Run : status'[s] \in {status[s], "deleted"}
      BY <3>1, <3>5 DEF Lifecycle!Delete, Lifecycle!Move
    <3>6. ASSUME NEW m \in Media, Lifecycle!DeleteMedia(m)
          PROVE  \A s \in Run : status'[s] \in {status[s], "deleted"}
      BY <3>6 DEF Lifecycle!DeleteMedia
    <3>7. QED
      BY <2>1, <3>2, <3>3, <3>4, <3>5, <3>6 DEF Lifecycle!Next
  <2>2. CASE UNCHANGED Lifecycle!vars
    BY <2>2 DEF Lifecycle!vars
  <2>3. QED
    BY <1>1, <2>1, <2>2, NextRefines
<1>2. QED
  BY <1>1, InvariantsHold, SerialWritesNeverGate, PTL DEF Spec, NoResurrection
=============================================================================
