---------------------------- MODULE AnalysisJobs ----------------------------
(***************************************************************************)
(* Analysis jobs from admission to a terminal row: analysis/views.py,      *)
(* analysis/services.py and analysis/worker.py, run by several server      *)
(* processes that share one database, crash and are replaced.              *)
(*                                                                         *)
(* A row is created at most once and is enqueued by the request thread     *)
(* that created it, so one program counter per run, pc[r], follows first   *)
(* that request thread and then the pool thread that executes the job.     *)
(***************************************************************************)
EXTENDS Naturals, FiniteSets

CONSTANTS
  Run,           \* analysis ids
  Media,         \* uploads
  Boot,          \* process incarnations: the `boot` uuid of an ownership stamp
  Host,          \* hostnames
  Pid,           \* pids a host hands out
  NoRun, NoMedia, NoBoot, NoPlace,
  Warmup,        \* holder of the inference lock during mlcore.warmup()
  Threads,       \* ASG['WORKER_THREADS']
  Workers,       \* bound: processes serving at the same time (gunicorn --workers)
  SerialWrites,  \* TRUE: SQLite, BEGIN IMMEDIATE; FALSE: PostgreSQL, READ COMMITTED
  ReusePids,     \* a host may hand the pid of a dead process out again
  JobsAge,       \* a job may sit longer than STALE_JOB_SECONDS
  Contention,    \* retry_on_lock may use up its attempts
  UploadDeletes  \* bound: whether users delete uploads

ASSUME BoundsAssumption ==
  /\ Threads \in Nat \ {0}
  /\ Workers \in Nat \ {0}

ASSUME SwitchAssumption ==
  /\ SerialWrites \in BOOLEAN
  /\ ReusePids \in BOOLEAN
  /\ JobsAge \in BOOLEAN
  /\ Contention \in BOOLEAN
  /\ UploadDeletes \in BOOLEAN

ASSUME NullAssumption ==
  /\ NoRun \notin Run
  /\ NoMedia \notin Media
  /\ NoBoot \notin Boot
  /\ NoPlace \notin Host \X Pid
  /\ Warmup \notin Run \cup {NoRun}

VARIABLES
  \* The database.
  status,   \* AnalysisResult.status; "absent" before the INSERT, "deleted" after a DELETE
  owner,    \* the boot in settings_snapshot['_runtime']['owner']
  mediaOf,  \* AnalysisResult.media
  report,   \* AnalysisResult.report_status
  aged,     \* runs whose start_time (or created_at) is before the stale cutoff
  media,    \* UploadedMedia rows and where a DELETE of one has got to
  gate,     \* the admission that holds the upload's row lock / the write lock
  \* The threads working for a run.
  pc,       \* where the request thread, then the pool thread, of a run is
  home,     \* the process those threads live in
  \* The processes.
  proc,     \* unborn, up, closing (JobQueue._closed), dead
  place,    \* host and pid of an incarnation
  phase,    \* the bootstrap thread
  seen,     \* candidate rows its recovery sweep has read and not resolved yet
  departed, \* history: the incarnations that were dead when the sweep read the rows
  engine    \* holder of the process's _INFERENCE_LOCK

dbVars   == <<status, owner, mediaOf, report, aged, media, gate>>
runVars  == <<pc, home>>
procVars == <<proc, place, phase, seen, departed, engine>>
vars     == <<dbVars, runVars, procVars>>

Place == Host \X Pid

Active      == {"pending", "queued", "running"}
Terminal    == {"done", "failed"}
Sweepable   == {"queued", "running"}
Status      == {"absent", "deleted"} \cup Active \cup Terminal
ReportState == {"pending", "generating", "ready", "failed", "skipped"}

(* Where a run's thread can be.  "dropped": the thread ended and nobody    *)
(* will work on the row; "raised": an exception left run_analysis;         *)
(* "lost": its process died under it; "finished": run_analysis returned.   *)
Requesting == {"checked", "admitted", "stamped"}
Holding    == {"claimed", "inferring", "persisting", "gated"}
Working    == Holding \cup {"failing", "persisted", "rendering"}
Ended      == {"dropped", "raised", "lost", "finished"}
Location   == {"idle", "submitted"} \cup Requesting \cup Working \cup Ended

Candidate == [run : Run, owner : Boot \cup {NoBoot}, age : {"fresh", "stale"}]

TypeOK ==
  /\ status  \in [Run -> Status]
  /\ owner   \in [Run -> Boot \cup {NoBoot}]
  /\ mediaOf \in [Run -> Media \cup {NoMedia}]
  /\ report  \in [Run -> ReportState]
  /\ aged    \subseteq Run
  /\ media   \in [Media -> {"present", "deleting", "gone"}]
  /\ gate    \in [Media -> Run \cup {NoRun}]
  /\ pc      \in [Run -> Location]
  /\ home    \in [Run -> Boot \cup {NoBoot}]
  /\ proc    \in [Boot -> {"unborn", "up", "closing", "dead"}]
  /\ place   \in [Boot -> Place \cup {NoPlace}]
  /\ phase   \in [Boot -> {"off", "select", "sweep", "warm", "warming", "ready"}]
  /\ seen    \in [Boot -> SUBSET Candidate]
  /\ departed \in [Boot -> SUBSET Boot]
  /\ engine  \in [Boot -> Run \cup {NoRun, Warmup}]

Init ==
  /\ status  = [r \in Run |-> "absent"]
  /\ owner   = [r \in Run |-> NoBoot]
  /\ mediaOf = [r \in Run |-> NoMedia]
  /\ report  = [r \in Run |-> "pending"]
  /\ aged    = {}
  /\ media   = [m \in Media |-> "present"]
  /\ gate    = [m \in Media |-> NoRun]
  /\ pc      = [r \in Run |-> "idle"]
  /\ home    = [r \in Run |-> NoBoot]
  /\ proc    = [b \in Boot |-> "unborn"]
  /\ place   = [b \in Boot |-> NoPlace]
  /\ phase   = [b \in Boot |-> "off"]
  /\ seen    = [b \in Boot |-> {}]
  /\ departed = [b \in Boot |-> {}]
  /\ engine  = [b \in Boot |-> NoRun]

Live(b) == proc[b] \in {"up", "closing"}

(* A DELETE removed the row under the thread: UPDATEs match nothing.       *)
RowExists(r) == status[r] \notin {"absent", "deleted"}

Goto(r, l) == pc' = [pc EXCEPT ![r] = l]

-----------------------------------------------------------------------------
(* Admission: AnalyzeView.post and services.start_analysis.  admit() locks, *)
(* asks whether a run is in flight, inserts and commits.  The lock is taken *)
(* by _serialise_admissions_for on PostgreSQL and by BEGIN IMMEDIATE on     *)
(* SQLite; a refusal (409) writes nothing.                                  *)

InFlightNotPending(m) == {r \in Run : mediaOf[r] = m /\ status[r] \in Sweepable}

InFlight(m) == {r \in Run : mediaOf[r] = m /\ status[r] \in Active}

AdmissionLockFree(m) == gate[m] = NoRun

BeginAdmission(b, r, m) ==
  /\ proc[b] = "up"
  /\ media[m] # "gone"
  /\ pc[r] = "idle"
  /\ AdmissionLockFree(m)
  /\ InFlight(m) = {}
  /\ gate'    = [gate EXCEPT ![m] = r]
  /\ mediaOf' = [mediaOf EXCEPT ![r] = m]
  /\ home'    = [home EXCEPT ![r] = b]
  /\ Goto(r, "checked")
  /\ UNCHANGED <<status, owner, report, aged, media, procVars>>

CommitAdmission(r) ==
  /\ pc[r] = "checked"
  /\ status' = [status EXCEPT ![r] = "pending"]
  /\ gate'   = [m \in Media |-> IF gate[m] = r THEN NoRun ELSE gate[m]]
  /\ Goto(r, "admitted")
  /\ UNCHANGED <<owner, mediaOf, report, aged, media, home, procVars>>

-----------------------------------------------------------------------------
(* JobQueue.enqueue, on the request thread, after the commit.              *)

EnqueueUnstamped(r) ==
  /\ pc[r] = "admitted"
  /\ status[r] \in {"pending", "queued"}
  /\ status' = [status EXCEPT ![r] = "queued"]
  /\ Goto(r, "stamped")
  /\ UNCHANGED <<owner, mediaOf, report, aged, media, gate, home, procVars>>

(* One UPDATE moves the row to queued and stamps the owner.                *)
Enqueue(r) ==
  /\ pc[r] = "admitted"
  /\ status[r] \in {"pending", "queued"}
  /\ status' = [status EXCEPT ![r] = "queued"]
  /\ owner'  = [owner EXCEPT ![r] = home[r]]
  /\ Goto(r, "stamped")
  /\ UNCHANGED <<mediaOf, report, aged, media, gate, home, procVars>>

(* The row is gone, or the statement never got the write lock and          *)
(* start_analysis raised: the row, if any, stays as it was.                *)
EnqueueDeclined(r) ==
  /\ pc[r] = "admitted"
  /\ Contention \/ status[r] \notin {"pending", "queued"}
  /\ Goto(r, "dropped")
  /\ UNCHANGED <<dbVars, home, procVars>>

(* executor.submit under JobQueue._lock, or "Queue is shutting down;       *)
(* analysis stays queued".                                                 *)
Submit(r) ==
  /\ pc[r] = "stamped"
  /\ Goto(r, IF proc[home[r]] = "closing" THEN "dropped" ELSE "submitted")
  /\ UNCHANGED <<dbVars, home, procVars>>

-----------------------------------------------------------------------------
(* The pool thread: run_analysis.                                          *)

Busy(b) == {r \in Run : home[r] = b /\ pc[r] \in Working}

ThreadFree(b) == Cardinality(Busy(b)) < Threads

(* _claim wins the conditional UPDATE: running, stamped, start_time = now. *)
Claim(r) ==
  /\ pc[r] = "submitted"
  /\ ThreadFree(home[r])
  /\ status[r] = "queued"
  /\ status' = [status EXCEPT ![r] = "running"]
  /\ owner'  = [owner EXCEPT ![r] = home[r]]
  /\ aged'   = aged \ {r}
  /\ Goto(r, "claimed")
  /\ UNCHANGED <<mediaOf, report, media, gate, home, procVars>>

(* _claim finds the row gone or no longer queued.                          *)
ClaimDeclined(r) ==
  /\ pc[r] = "submitted"
  /\ ThreadFree(home[r])
  /\ status[r] # "queued"
  /\ Goto(r, "dropped")
  /\ UNCHANGED <<dbVars, home, procVars>>

(* _claim runs out of lock retries, before the UPDATE or between it and    *)
(* the load; it is called outside run_analysis's try.                      *)
ClaimRaises(r) ==
  /\ Contention
  /\ \/ /\ pc[r] = "submitted"
        /\ ThreadFree(home[r])
     \/ pc[r] = "claimed"
  /\ Goto(r, "raised")
  /\ UNCHANGED <<dbVars, home, procVars>>

BeginInferenceUnlocked(r) ==
  /\ pc[r] = "claimed"
  /\ engine' = [engine EXCEPT ![home[r]] = r]
  /\ Goto(r, "inferring")
  /\ UNCHANGED <<dbVars, home, proc, place, phase, seen, departed>>

(* _execute: with _INFERENCE_LOCK: analyze_media(...)                      *)
BeginInference(r) ==
  /\ pc[r] = "claimed"
  /\ engine[home[r]] = NoRun
  /\ engine' = [engine EXCEPT ![home[r]] = r]
  /\ Goto(r, "inferring")
  /\ UNCHANGED <<dbVars, home, proc, place, phase, seen, departed>>

(* The pipeline returns a result, or raises into run_analysis's except.    *)
EndInference(r) ==
  /\ pc[r] = "inferring"
  /\ engine' = [engine EXCEPT ![home[r]] = NoRun]
  /\ \E l \in {"persisting", "failing"} : Goto(r, l)
  /\ UNCHANGED <<dbVars, home, proc, place, phase, seen, departed>>

(* _persist's ownership gate, read inside the transaction that writes.     *)
OwnershipGate(r) == status[r] = "running" /\ owner[r] = home[r]

WriteDone(r) ==
  /\ status' = [status EXCEPT ![r] = "done"]
  /\ owner'  = [owner EXCEPT ![r] = NoBoot]
  /\ Goto(r, "persisted")
  /\ UNCHANGED <<mediaOf, report, aged, media, gate, home, procVars>>

(* SQLite: BEGIN IMMEDIATE holds the write lock from the gate to the save. *)
Persist(r) ==
  /\ SerialWrites
  /\ pc[r] = "persisting"
  /\ OwnershipGate(r)
  /\ WriteDone(r)

(* PostgreSQL: the gate is a plain read; others may write before the save. *)
PersistGate(r) ==
  /\ ~SerialWrites
  /\ pc[r] = "persisting"
  /\ OwnershipGate(r)
  /\ Goto(r, "gated")
  /\ UNCHANGED <<dbVars, home, procVars>>

(* analysis.save(update_fields=...): an UPDATE by primary key alone.       *)
PersistSave(r) ==
  /\ pc[r] = "gated"
  /\ RowExists(r)
  /\ WriteDone(r)

(* Refused by the gate: the result is discarded, the row left alone.       *)
PersistDeclined(r) ==
  /\ pc[r] = "persisting"
  /\ ~OwnershipGate(r)
  /\ Goto(r, "dropped")
  /\ UNCHANGED <<dbVars, home, procVars>>

(* The write raises: a save that matched no row, or no lock in time.       *)
PersistRaises(r) ==
  /\ \/ pc[r] = "gated" /\ ~RowExists(r)
     \/ Contention /\ pc[r] \in {"persisting", "gated"}
  /\ Goto(r, "failing")
  /\ UNCHANGED <<dbVars, home, procVars>>

MarkFailedKeepsReport(r) ==
  /\ pc[r] = "failing"
  /\ \/ /\ status[r] = "running"
        /\ status' = [status EXCEPT ![r] = "failed"]
     \/ /\ status[r] # "running" \/ Contention
        /\ UNCHANGED status
  /\ Goto(r, "finished")
  /\ UNCHANGED <<owner, mediaOf, report, aged, media, gate, home, procVars>>

(* _mark_failed: UPDATE ... WHERE status = 'running'.  Somebody else's     *)
(* verdict is left alone; a database that stays locked is only logged.     *)
MarkFailed(r) ==
  /\ pc[r] = "failing"
  /\ \/ /\ status[r] = "running"
        /\ status' = [status EXCEPT ![r] = "failed"]
        /\ report' = [report EXCEPT ![r] = "skipped"]
     \/ /\ status[r] # "running" \/ Contention
        /\ UNCHANGED <<status, report>>
  /\ Goto(r, "finished")
  /\ UNCHANGED <<owner, mediaOf, aged, media, gate, home, procVars>>

-----------------------------------------------------------------------------
(* _maybe_generate_report.  What reports.services does in between is       *)
(* ReportRendering's subject; here a render ends in one of its outcomes.   *)

(* set_report_status: never raises, and a row that is gone matches nothing. *)
SetReportStatus(r, v) ==
  \/ report' = IF RowExists(r) THEN [report EXCEPT ![r] = v] ELSE report
  \/ Contention /\ UNCHANGED report

(* auto_generate_pdf is off in the frozen snapshot.                        *)
SkipReport(r) ==
  /\ pc[r] = "persisted"
  /\ SetReportStatus(r, "skipped")
  /\ Goto(r, "finished")
  /\ UNCHANGED <<status, owner, mediaOf, aged, media, gate, home, procVars>>

BeginReport(r) ==
  /\ pc[r] = "persisted"
  /\ SetReportStatus(r, "generating")
  /\ Goto(r, "rendering")
  /\ UNCHANGED <<status, owner, mediaOf, aged, media, gate, home, procVars>>

RenderOutcomeByRunStatus == {"done", "failed"}

RenderOutcome == {"ready", "failed"}

EndReport(r) ==
  /\ pc[r] = "rendering"
  /\ \E v \in RenderOutcome : SetReportStatus(r, v)
  /\ Goto(r, "finished")
  /\ UNCHANGED <<status, owner, mediaOf, aged, media, gate, home, procVars>>

-----------------------------------------------------------------------------
DeleteAnalysisUnguarded(r) ==
  /\ \E b \in Boot : proc[b] = "up"
  /\ RowExists(r)
  /\ status' = [status EXCEPT ![r] = "deleted"]
  /\ UNCHANGED <<owner, mediaOf, report, aged, media, gate, runVars, procVars>>

(* DELETE /api/analysis/{id}: refused until the row is terminal.           *)
DeleteAnalysis(r) ==
  /\ \E b \in Boot : proc[b] = "up"
  /\ status[r] \in Terminal
  /\ status' = [status EXCEPT ![r] = "deleted"]
  /\ UNCHANGED <<owner, mediaOf, report, aged, media, gate, runVars, procVars>>

(* DELETE /api/media/{id}: the check, on its own ...                       *)
BeginMediaDelete(m) ==
  /\ UploadDeletes
  /\ \E b \in Boot : proc[b] = "up"
  /\ media[m] = "present"
  /\ \A r \in Run : mediaOf[r] = m => status[r] \notin {"queued", "running"}
  /\ media' = [media EXCEPT ![m] = "deleting"]
  /\ UNCHANGED <<status, owner, mediaOf, report, aged, gate, runVars, procVars>>

(* ... and the cascade later.  It waits for an admission's lock.           *)
CascadeMedia(m) ==
  /\ media[m] = "deleting"
  /\ gate[m] = NoRun
  /\ media'  = [media EXCEPT ![m] = "gone"]
  /\ status' = [r \in Run |-> IF mediaOf[r] = m THEN "deleted" ELSE status[r]]
  /\ UNCHANGED <<owner, mediaOf, report, aged, gate, runVars, procVars>>

(* The request dies between the two.                                       *)
AbandonMediaDelete(m) ==
  /\ media[m] = "deleting"
  /\ media' = [media EXCEPT ![m] = "present"]
  /\ UNCHANGED <<status, owner, mediaOf, report, aged, gate, runVars, procVars>>

-----------------------------------------------------------------------------
(* Processes.                                                              *)

(* Bound: the last incarnation boots when nothing is closing and serves    *)
(* for ever, so a behaviour never ends with nobody left to sweep.          *)
Spare == {b \in Boot : proc[b] = "unborn"}

LastOneStays(b) == Spare = {b} => \A c \in Boot : proc[c] # "closing"

(* A fresh pid; with ReusePids also one whose process is gone, which is    *)
(* what a restarted container hands out.                                   *)
PidIsFree(p) == \A c \in Boot : place[c] = p => ~Live(c) /\ ReusePids

Boots(b, p) ==
  /\ proc[b] = "unborn"
  /\ LastOneStays(b)
  /\ Cardinality({c \in Boot : Live(c)}) < Workers
  /\ PidIsFree(p)
  /\ proc'  = [proc EXCEPT ![b] = "up"]
  /\ place' = [place EXCEPT ![b] = p]
  /\ phase' = [phase EXCEPT ![b] = "select"]
  /\ UNCHANGED <<dbVars, runVars, seen, departed, engine>>

(* STALE_JOB_SECONDS go by.                                                *)
GrowOld(r) ==
  /\ JobsAge
  /\ status[r] \in Sweepable
  /\ aged' = aged \cup {r}
  /\ UNCHANGED <<status, owner, mediaOf, report, media, gate, runVars, procVars>>

SweepCandidatesRunningOnly == {r \in Run : status[r] = "running"}

SweepCandidates == {r \in Run : status[r] \in Sweepable}

Age(r) == IF r \in aged THEN "stale" ELSE "fresh"

(* recover_interrupted_jobs: the SELECT ...                                *)
ReadCandidates(b) ==
  /\ Live(b)
  /\ phase[b] = "select"
  /\ seen'     = [seen EXCEPT ![b] = {[run |-> r, owner |-> owner[r], age |-> Age(r)] :
                                        r \in SweepCandidates}]
  /\ departed' = [departed EXCEPT ![b] = {c \in Boot : proc[c] = "dead"}]
  /\ phase'    = [phase EXCEPT ![b] = "sweep"]
  /\ UNCHANGED <<dbVars, runVars, proc, place, engine>>

HostOf(b) == place[b][1]

(* os.kill(pid, 0): does anything on this host hold the pid?               *)
ProcessIsAlive(p) == \E c \in Boot : Live(c) /\ place[c] = p

(* The sweep before ownership: every row in flight is an orphan.           *)
BlanketVerdict(b, row) == TRUE

(* Whether the sweep of b may fail a row it read.                          *)
RecoveryVerdict(b, row) ==
  \/ row.owner = NoBoot
  \/ /\ row.owner # b
     /\ HostOf(row.owner) # HostOf(b)
     /\ row.age = "stale"
  \/ /\ row.owner # b
     /\ HostOf(row.owner) = HostOf(b)
     /\ ~ProcessIsAlive(place[row.owner])

FailInterruptedUnconditionally(r) ==
  /\ status' = [status EXCEPT ![r] = "failed"]
  /\ report' = [report EXCEPT ![r] = "skipped"]

(* The UPDATE re-asserts the status and nothing else.                      *)
FailInterrupted(r) ==
  IF status[r] \in Sweepable
    THEN /\ status' = [status EXCEPT ![r] = "failed"]
         /\ report' = [report EXCEPT ![r] = "skipped"]
    ELSE UNCHANGED <<status, report>>

(* ... and one candidate of the loop: the verdict and its UPDATE.          *)
ResolveCandidate(b) ==
  /\ Live(b)
  /\ phase[b] = "sweep"
  /\ \E row \in seen[b] :
       /\ seen' = [seen EXCEPT ![b] = @ \ {row}]
       /\ IF RecoveryVerdict(b, row) THEN FailInterrupted(row.run)
                                     ELSE UNCHANGED <<status, report>>
  /\ UNCHANGED <<owner, mediaOf, aged, media, gate, runVars, proc, place, phase,
                 departed, engine>>

(* The loop is through, or an UPDATE ran out of lock retries: _bootstrap   *)
(* logs the exception and goes on to the warm-up.                          *)
EndSweep(b) ==
  /\ Live(b)
  /\ phase[b] = "sweep"
  /\ seen[b] = {} \/ Contention
  /\ seen'  = [seen EXCEPT ![b] = {}]
  /\ phase' = [phase EXCEPT ![b] = "warm"]
  /\ UNCHANGED <<dbVars, runVars, proc, place, departed, engine>>

BeginWarmup(b) ==
  /\ Live(b)
  /\ phase[b] = "warm"
  /\ engine[b] = NoRun
  /\ engine' = [engine EXCEPT ![b] = Warmup]
  /\ phase'  = [phase EXCEPT ![b] = "warming"]
  /\ UNCHANGED <<dbVars, runVars, proc, place, seen, departed>>

EndWarmup(b) ==
  /\ Live(b)
  /\ phase[b] = "warming"
  /\ engine' = [engine EXCEPT ![b] = NoRun]
  /\ phase'  = [phase EXCEPT ![b] = "ready"]
  /\ UNCHANGED <<dbVars, runVars, proc, place, seen, departed>>

-----------------------------------------------------------------------------
(* graceful_shutdown: JobQueue.shutdown closes the queue and cancels the   *)
(* futures no thread has started.                                          *)
Shutdown(b) ==
  /\ proc[b] = "up"
  /\ Spare # {}
  /\ proc' = [proc EXCEPT ![b] = "closing"]
  /\ pc'   = [r \in Run |-> IF home[r] = b /\ pc[r] = "submitted" THEN "dropped" ELSE pc[r]]
  /\ UNCHANGED <<dbVars, home, place, phase, seen, departed, engine>>

Gone(b) ==
  /\ proc'   = [proc EXCEPT ![b] = "dead"]
  /\ phase'  = [phase EXCEPT ![b] = "off"]
  /\ seen'   = [seen EXCEPT ![b] = {}]
  /\ departed' = [departed EXCEPT ![b] = {}]
  /\ engine' = [engine EXCEPT ![b] = NoRun]
  /\ UNCHANGED place

(* shutdown(wait=True) returned: no request and no job is left.            *)
Exit(b) ==
  /\ proc[b] = "closing"
  /\ \A r \in Run : home[r] = b => pc[r] \in Ended
  /\ Gone(b)
  /\ UNCHANGED <<dbVars, runVars>>

(* SIGKILL, OOM, an arbiter timeout: every thread of the process stops     *)
(* where it is, and an admission that had not committed never happened.    *)
Crash(b) ==
  LET undone == {r \in Run : home[r] = b /\ pc[r] = "checked"} IN
  /\ Live(b)
  /\ Spare # {}
  /\ Gone(b)
  /\ pc'      = [r \in Run |-> IF r \in undone THEN "idle"
                               ELSE IF home[r] = b /\ pc[r] \notin Ended THEN "lost"
                               ELSE pc[r]]
  /\ home'    = [r \in Run |-> IF r \in undone THEN NoBoot ELSE home[r]]
  /\ mediaOf' = [r \in Run |-> IF r \in undone THEN NoMedia ELSE mediaOf[r]]
  /\ gate'    = [m \in Media |-> IF gate[m] \in undone THEN NoRun ELSE gate[m]]
  /\ UNCHANGED <<status, owner, report, aged, media>>

-----------------------------------------------------------------------------
RequestStep(r) == CommitAdmission(r) \/ Enqueue(r) \/ EnqueueDeclined(r) \/ Submit(r)

ClaimStep(r) == Claim(r) \/ ClaimDeclined(r) \/ ClaimRaises(r)

InferenceStep(r) == BeginInference(r) \/ EndInference(r)

PersistStep(r) ==
  \/ Persist(r)
  \/ PersistGate(r)
  \/ PersistSave(r)
  \/ PersistDeclined(r)
  \/ PersistRaises(r)
  \/ MarkFailed(r)

ReportStep(r) == SkipReport(r) \/ BeginReport(r) \/ EndReport(r)

RunStep(r) ==
  \/ RequestStep(r)
  \/ ClaimStep(r)
  \/ InferenceStep(r)
  \/ PersistStep(r)
  \/ ReportStep(r)

BootstrapStep(b) ==
  \/ ReadCandidates(b)
  \/ ResolveCandidate(b)
  \/ EndSweep(b)
  \/ BeginWarmup(b)
  \/ EndWarmup(b)

Next ==
  \/ \E b \in Boot, r \in Run, m \in Media : BeginAdmission(b, r, m)
  \/ \E r \in Run : RunStep(r) \/ DeleteAnalysis(r) \/ GrowOld(r)
  \/ \E m \in Media : BeginMediaDelete(m) \/ CascadeMedia(m) \/ AbandonMediaDelete(m)
  \/ \E b \in Boot, p \in Place : Boots(b, p)
  \/ \E b \in Boot : BootstrapStep(b) \/ Shutdown(b) \/ Exit(b) \/ Crash(b)

Spec == Init /\ [][Next]_vars

(* A live process keeps its threads running; inference, rendering and a    *)
(* statement end; the arbiter replaces a process that is gone and a        *)
(* closing one exits.  Nobody has to send a request or to stop.            *)
Fairness ==
  /\ \A r \in Run : /\ WF_vars(RequestStep(r))
                    /\ WF_vars(ClaimStep(r))
                    /\ WF_vars(InferenceStep(r))
                    /\ WF_vars(PersistStep(r))
                    /\ WF_vars(ReportStep(r))
  /\ \A b \in Boot : /\ WF_vars(BootstrapStep(b))
                     /\ WF_vars(Exit(b))
                     /\ WF_vars(\E p \in Place : Boots(b, p))

FairSpec == Spec /\ Fairness

-----------------------------------------------------------------------------
(* One in-flight run per upload (F20b): whatever the interleaving of two   *)
(* admissions, a worker, a sweep and a delete, two rows of the same upload *)
(* are never pending, queued or running together.                          *)
OneRunPerUpload ==
  \A r, s \in Run : /\ status[r] \in Active
                    /\ status[s] \in Active
                    /\ mediaOf[r] = mediaOf[s]
                    => r = s

(* "There is no window in which a live row has no owner": a queued or      *)
(* running row always names the process whose pool its job is in.          *)
LiveRowsAreOwned ==
  \A r \in Run : status[r] \in Sweepable => owner[r] = home[r] /\ home[r] \in Boot

(* While a live thread is between its claim and its save, nobody has taken *)
(* the row away: it is running and stamped with that thread's process.     *)
(* Two things may: the cascade of a media delete, and the sweep of another *)
(* host that read the row when it was past STALE_JOB_SECONDS (it may have  *)
(* been claimed since: the verdict is not asked again).                    *)
LiveWorkKeepsItsRow ==
  \A r \in Run : pc[r] \in Holding =>
    \/ status[r] = "running" /\ owner[r] = home[r]
    \/ status[r] = "deleted"
    \/ /\ status[r] = "failed"
       /\ JobsAge
       /\ \E b \in Boot : place[b] # NoPlace /\ HostOf(b) # HostOf(home[r])

(* Why the sweep may leave the rows of a live process alone: a thread of   *)
(* that process is on its way to resolve each of them, except the queued   *)
(* ones whose future a shutdown cancelled.  Holds while retry_on_lock      *)
(* never uses up its attempts.                                             *)
LiveOwnerIsWorking ==
  \A r \in Run :
    /\ status[r] = "queued" /\ proc[home[r]] = "up" => pc[r] \in {"stamped", "submitted"}
    /\ status[r] = "running" /\ Live(home[r]) => pc[r] \in Holding \cup {"failing"}

(* Two forward passes never run at once in a process: jobs of several pool *)
(* threads and the bootstrap thread's warm-up exclude one another.         *)
OneInferencePerProcess ==
  \A b \in Boot :
    Cardinality({r \in Run : home[r] = b /\ pc[r] = "inferring"})
      + (IF phase[b] = "warming" THEN 1 ELSE 0) <= 1

(* When run_analysis has returned, the report column no longer promises a  *)
(* PDF nobody makes; a failed run, however it failed, says "skipped".      *)
ReportIsSettled ==
  \A r \in Run :
    /\ status[r] = "failed" => report[r] = "skipped"
    /\ pc[r] = "finished" /\ status[r] = "done" => report[r] \in {"skipped", "ready", "failed"}

(* Both: every row of a live process is on its way, every other is settled. *)
NoRowIsLeftHanging == LiveOwnerIsWorking /\ ReportIsSettled

(* After a complete boot sweep, no queued or running row is left that      *)
(* belongs to a process of the same host already dead when it began.       *)
SweepLeavesNoOrphan ==
  \A b \in Boot, r \in Run :
    /\ phase[b] \in {"warm", "warming", "ready"}
    /\ home[r] \in departed[b]
    /\ HostOf(home[r]) = HostOf(b)
    => status[r] \notin Sweepable

(* The same for every status that blocks a new run of the upload           *)
(* (services.ACTIVE_STATUSES), pending included.                           *)
SweepUnblocksUploads ==
  \A b \in Boot, r \in Run :
    /\ phase[b] \in {"warm", "warming", "ready"}
    /\ home[r] \in departed[b]
    /\ HostOf(home[r]) = HostOf(b)
    => status[r] \notin Active

(* The only step that fails the row of a thread still at work is the sweep *)
(* of another host, for a row it read when past STALE_JOB_SECONDS: never a *)
(* sibling's or a replacement's sweep, never a row that host read fresh.   *)
OnlyStaleForeignWorkIsTaken ==
  [][\A r \in Run :
       pc[r] \in Holding /\ status[r] = "running" /\ status'[r] = "failed" =>
         \E b \in Boot : \E row \in seen[b] :
           row.run = r /\ row.age = "stale" /\ HostOf(b) # HostOf(home[r])]_vars

(* No step rewrites a terminal row, except by deleting it (ASG-R06).       *)
NoResurrection ==
  [][\A r \in Run : status[r] \in Terminal => status'[r] \in {status[r], "deleted"}]_vars

(* Every job that was queued or running ends, one way or another, whatever *)
(* crashed in between: by its own thread or by a later process's sweep.    *)
EveryJobEnds ==
  \A r \in Run : status[r] \in Sweepable ~> status[r] \notin Sweepable

-----------------------------------------------------------------------------
(* Inductive invariants: what makes the ones above true step by step.      *)

(* Why admissions exclude one another: the lock of an upload is held by    *)
(* the one admission that found nothing in flight and has not inserted its *)
(* row, and nothing else can put a run of that upload in flight meanwhile. *)
AdmissionInv ==
  /\ \A m \in Media : gate[m] # NoRun =>
       pc[gate[m]] = "checked" /\ mediaOf[gate[m]] = m /\ InFlight(m) = {}
  /\ \A r \in Run :
       /\ pc[r] = "checked" => mediaOf[r] \in Media /\ gate[mediaOf[r]] = r
       /\ pc[r] = "idle" => mediaOf[r] = NoMedia /\ home[r] = NoBoot
       /\ pc[r] \in {"idle", "checked"} <=> status[r] = "absent"
  /\ OneRunPerUpload

(* Why ownership protects live work: a thread that is still working lives  *)
(* in a live process, and that process is what its row, and every copy of  *)
(* the row a sweep has read, is stamped with.                              *)
ThreadsLive ==
  \A r \in Run : pc[r] \notin {"idle"} \cup Ended => home[r] \in Boot /\ Live(home[r])

PlacesKnown == \A b \in Boot : proc[b] = "unborn" <=> place[b] = NoPlace

SeenRowsAreOwned ==
  \A b \in Boot : \A row \in seen[b] :
    /\ row.owner = home[row.run]
    /\ row.owner \in Boot
    /\ pc[row.run] \notin {"idle", "checked"}
    /\ row.age = "stale" => JobsAge

OwnershipInv ==
  /\ ThreadsLive
  /\ PlacesKnown
  /\ SeenRowsAreOwned
  /\ aged # {} => JobsAge
  /\ LiveRowsAreOwned
  /\ LiveWorkKeepsItsRow

(* Why no row is left hanging: a run's process has booted; a row is done   *)
(* exactly from its thread's save on, so nobody else's verdict, and no     *)
(* report status that is set after the save, lands on a row that failed.   *)
HomesHaveBooted == \A r \in Run : home[r] \in Boot => proc[home[r]] # "unborn"

SavedRowsAreDone ==
  \A r \in Run :
    /\ pc[r] \in {"persisted", "rendering"} => status[r] \in {"done", "deleted"}
    /\ status[r] = "done" => pc[r] \in {"persisted", "rendering", "finished", "lost"}

SettledInv == HomesHaveBooted /\ SavedRowsAreDone /\ NoRowIsLeftHanging

(* Why a job and the warm-up exclude one another: whoever is in a forward  *)
(* pass is the holder of the process's _INFERENCE_LOCK.                    *)
EngineInv ==
  /\ \A r \in Run : pc[r] = "inferring" => engine[home[r]] = r
  /\ \A b \in Boot : phase[b] = "warming" => engine[b] = Warmup

(* Why a complete sweep leaves no orphan (while pids are not reused and no *)
(* UPDATE gives up): the dead stay dead, their rows are among those read,  *)
(* and no live process answers the probe in their place.                   *)
PlacesDiffer == \A b, c \in Boot : place[b] # NoPlace /\ place[b] = place[c] => b = c

SweepOf(b) ==
  /\ \A c \in departed[b] : proc[c] = "dead"
  /\ \A r \in Run :
       home[r] \in departed[b] /\ HostOf(home[r]) = HostOf(b) /\ status[r] \in Sweepable =>
         /\ phase[b] = "sweep" => \E row \in seen[b] : row.run = r
         /\ phase[b] \notin {"warm", "warming", "ready"}

SweepInv == PlacesDiffer /\ \A b \in Boot : SweepOf(b)

-----------------------------------------------------------------------------
(* The rows behave as JobLifecycle promises.                               *)
Lifecycle == INSTANCE JobLifecycle
  WITH mediaOf <- [r \in Run |-> IF status[r] = "absent" THEN NoMedia ELSE mediaOf[r]]

ImplementsLifecycle == Lifecycle!Spec
=============================================================================
