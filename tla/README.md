# AutoSmokeGuard backend: a TLA+ verification project

AutoSmokeGuard is a Django service. A user uploads a traffic photo or clip, asks for an analysis,
a background pool runs a detection and segmentation pipeline on it, and a PDF report is made of
the result. The service runs as several gunicorn processes with several threads each, on SQLite or
PostgreSQL, and keeps files under `MEDIA_ROOT` beside the rows that point at them. There is no
task broker: the pool lives inside the web processes, so a process that dies takes its jobs with
it and another process has to notice.

This directory models that machinery in TLA+, checks it with TLC on small instances and proves the
parts that matter most with TLAPS for every value of the constants. Paths below are relative to
`src/`.

Run it from this directory:

    tlc -workers 2 -config AnalysisJobsReplacement.cfg MCAnalysisJobs.tla
    tlapm AnalysisJobsProofs.tla

`PROJECT.json` lists the runs, the mutant that breaks each property, the source lines each
definition stands for, the hazards and the theorems.

## 1. Inventory

| Component | State | Operations | What is hard |
|---|---|---|---|
| **Analysis jobs** `analysis/{views,services,worker,models}.py` | `AnalysisResult.status`, `report_status`, the ownership stamp `settings_snapshot._runtime.owner`, the upload's admission lock, the executor, `_INFERENCE_LOCK`, `JobQueue._closed` | admit, enqueue, claim, infer, persist, mark failed, report hook, delete, boot sweep, warm-up, shutdown | several processes write one row; a process dies between any two of its steps; the sweep of a replaced process must end the dead one's rows and no others |
| **Report rendering** `reports/{services,views,pdf,models}.py` | `GeneratedReport` row, `reports/<id>.pdf`, `report_status`, the reference-counted lock registry | render on completion (hook), render on demand (POST, forced), adopt, yield to another process's row | the hook and the user's POST race; the lock works within one process only; file, row and column are three stores, written one after another, and each write may give up |
| **Uploads** `uploads/{services,views,models}.py`, `common/validators.py` | `UploadedMedia` rows, files under `uploads/` | validate, deduplicate by checksum, write, insert, probe, reject, delete | the file is written before the row and probed after it; each step can fail alone |
| **Storage helpers** `common/storage.py` | files and directory trees | path construction, best-effort deletion | order of row and file deletion |
| **Reading views** `analysis/{views,serializers,filters}.py` | none | status, history, dashboard | reads of rows others are writing; rounding |
| **System settings, severity bands** `system_config/` | one `SystemSetting` row with two severity bands and two thresholds | read, validate, save the whole row (PATCH and Django admin); freeze into a run's snapshot | two changes overlap; live and frozen bands are both used when a run is saved; strict against non-strict comparison |
| **ML pipeline: scan and tracking** `mlcore/{pipeline,preprocess,tracking}.py` | the reader, tracks, vehicle records, artefact budget and files, shortlist, progress | sample frames, associate, write artefacts, shortlist, judge persistence, take transient smoke back, write frames and preview | off-by-one in gaps and run lengths changes a verdict; every step may fail and is caught; the frame count is a guess |
| **ML pipeline: severity** `mlcore/intensity.py` | none | classify, aggregate | threshold equality |
| **ML pipeline: networks** `mlcore/{detector,segmenter,model,annotate}.py` | two process-wide caches, weights | load, fall back, forward passes | a cache filled at boot decides the mode of every later scan; concurrent passes crash on MPS, hence `_INFERENCE_LOCK` |
| **Training, self-test** `mlcore/training/`, `mlcore/selftest.py` | data set, manifest, checkpoint | generate or reuse, train with early stopping, keep the best epoch | a run that is cut short leaves files a later run trusts |
| **Accounts** `accounts/` | users, JWT blacklist, `PasswordResetToken` rows | register, log in, refresh, log out, request and consume a reset, edit the profile, upgrade a hash at login | a token consumed twice; sessions revoked while one refreshes; a whole-row save writes back an old password and stamp |
| **Common** `common/{exceptions,middleware,pagination,permissions}.py` | none | request and error translation | - |
| **Configuration, health** `config/`, `health/` | settings | database options, pool size, probes | `BEGIN IMMEDIATE` or `READ COMMITTED` decides what is atomic |
| **Deployment** `docker/entrypoint.sh` | processes | `gunicorn --workers 2 --threads 4` | workers are replaced one at a time while siblings keep serving |
| **Launcher** `tools/dev_runner.py` | virtualenv, `node_modules` and their stamps, weights, database, sample media, child processes | eleven phases: install, download, train, migrate, seed, start, await, supervise, shut down | any step may be cut short and the next launch trusts what is there; a child that dies while starting; signals during shutdown |
| **Tools** `tools/{seed,make_samples,benchmark}.py` | files | one-shot scripts | - |

How they interact. `POST /api/analyze` checks and inserts the row under a lock, commits, and the
same thread calls `JobQueue.enqueue`, which stamps the row with its process and submits the job to
the process's executor. A pool thread claims the row with a conditional UPDATE, runs the pipeline
under the process's inference lock, saves through an ownership gate, and calls the report hook.
The bootstrap thread of a new process sweeps the rows of processes that are gone, then warms the
model up under the same inference lock. Deleting an upload or an analysis resolves paths, drops
rows (a cascade), then removes files. Every arrow between two of these steps is a place where
another thread, another process or a crash can come in.

What makes each component correct:

- **Jobs.** At most one run of an upload in flight; live work is never failed by a sweep of its
  own host; a dead process's rows are ended; a verdict is written once; two forward passes never
  overlap in a process; a finished run's `report_status` is settled; every job ends.
- **Reports.** One render per analysis and process; a listed report's file exists and is the one
  described; no file without a row; the column never stays at `generating`, never says `ready`
  without a report, and says `failed` only of the latest attempt; the lock is always handed on.
  Where a save fails after its file got its name, a file cannot be removed or a write of the
  column is lost, the code promises less, and the properties name what is left.
- **Uploads.** A row names whole, probed bytes; no file without a row; bytes stored once are found
  again; a rejected upload leaves nothing.
- **Settings and severity.** Stored bands stay ordered whatever changes overlap; a stored verdict
  can be explained from its own row, and where it disagrees with the stored counts a retune or a
  threshold is the reason.
- **Scan and tracking.** Association is stable; smoke is reported exactly when one vehicle's smoke
  persisted, and is then the worst measured; records, mask files, shortlist and preview agree,
  faults or not; progress never falls and the scan always ends.
- **Networks.** The stored mode names the engine that measured.
- **Accounts.** Older reset links die with a newer one; a confirmed reset ends every session that
  existed; tokens older than the password are refused and nobody with the current one is locked
  out; only a request that had read the row before the reset can write the old password or stamp
  back.
- **Launcher.** What a launch trusts is true, though the one before was cut short; the servers die
  together and with the launcher; every launch that is to end does.
- **Reading views.** Arithmetic over what others stored; not modelled.

The hazards, each at its line and with the properties that watch it, are in `PROJECT.json`.

## 2. Modules

| Module | Models | Kind |
|---|---|---|
| `JobLifecycle` | what the analysis app promises about one row | abstract specification |
| `AnalysisJobs` | admission, queue, pool, inference lock, ownership, sweep, processes | detailed specification; implements `JobLifecycle` |
| `MCAnalysisJobs` | symmetry sets for TLC | model |
| `AnalysisJobsProofs` | typing, admission, ownership, the refinement | proofs |
| `AnalysisJobsSweepProofs` | sweep, inference lock, rows left hanging | proofs |
| `ReportRendering`, `MCReportRendering`, `ReportRenderingProofs` | one analysis's PDF | specification, model, proofs |
| `UploadStore`, `MCUploadStore`, `UploadStoreProofs` | upload and delete of the same bytes | specification, model, proofs |
| `VehicleTracker` | `tracking.py`: matching, track update, persistence rule | operators |
| `Severity` | the two bandings, aggregation, band validation | operators |
| `ScanContract` | what `analyze_media` promises its caller | abstract specification |
| `MediaScan`, `MCMediaScan`, `MediaScanProofs` | `analyze_media` with its reader; uses `VehicleTracker` and `Severity` | detailed specification, implements `ScanContract`; model, proofs |
| `SystemSettings` | the settings row and concurrent changes | specification |
| `Engines` | the networks of one process, their caches and fallback | specification |
| `AnalysisVerdict`, `MCAnalysisVerdict`, `AnalysisVerdictProofs` | from frozen settings to stored verdict: composes `SystemSettings`, `ScanContract` and `Engines` | composition, model, proofs |
| `Accounts`, `MCAccounts`, `AccountsProofs` | one account and its overlapping requests | specification, model, proofs |
| `Provisioning` | the launcher's set-up phases and the programs they run | specification |
| `Launcher`, `MCLauncher`, `LauncherProofs` | a launch from command line to exit code; extends `Provisioning` | specification, model, proofs of both |

### AnalysisJobs

State. `status`, `owner`, `mediaOf`, `report` are the columns of `AnalysisResult`; `media` the
uploads and how far a delete of one has got; `gate` is the lock that serialises admissions of an
upload. A row is enqueued by the thread that inserted it and later executed by one pool thread, so
a single program counter `pc[r]` follows both, in process `home[r]`. A process is an *incarnation*
`b` in `Boot` (the `boot` uuid of the ownership stamp) with a host and a pid (`place`), a life
(`proc`), a bootstrap thread (`phase`, `seen`) and an inference lock (`engine`). `departed` is a
history variable: who was dead when a sweep read its rows.

| Action | Code |
|---|---|
| `BeginAdmission`, `CommitAdmission` | `AnalyzeView.post`, `start_analysis`: lock, look for a run in flight, insert, commit |
| `Enqueue`, `EnqueueDeclined`, `Submit` | `JobQueue.enqueue`: one UPDATE for status and owner, then the executor |
| `Claim`, `ClaimDeclined`, `ClaimRaises` | `_claim`: conditional UPDATE, fresh load, lost claims, exhausted retries |
| `BeginInference`, `EndInference` | `_execute` under `_INFERENCE_LOCK` |
| `Persist` or `PersistGate` + `PersistSave` | `_persist`: on SQLite gate and save are one transaction; on PostgreSQL the gate is a plain read and the save a second statement |
| `PersistDeclined`, `PersistRaises`, `MarkFailed` | the gate's refusal, an exception, `_mark_failed` with both columns |
| `SkipReport`, `BeginReport`, `EndReport` | `_maybe_generate_report` (rendering abstracted; `ReportRendering` has it in full) |
| `DeleteAnalysis`, `BeginMediaDelete`, `CascadeMedia`, `AbandonMediaDelete` | the two DELETE views; the last one also stands for a cascade refused by a foreign key |
| `ReadCandidates`, `ResolveCandidate`, `EndSweep` | `recover_interrupted_jobs`, `_recovery_verdict` |
| `BeginWarmup`, `EndWarmup` | `mlcore.warmup` on the bootstrap thread |
| `Boots`, `Shutdown`, `Exit`, `Crash`, `GrowOld` | process life, `JobQueue.shutdown`, SIGKILL, the passing of `STALE_JOB_SECONDS` |

Simplifications, and why they are sound.
- The executor's FIFO order is forgotten: a free thread may claim any submitted job.
- `enqueue`'s snapshot read is merged with the UPDATE that depends on it, a claim with its load,
  and a sweep's liveness probe with the UPDATE it decides: an incarnation that is dead stays dead,
  so an answer cannot become wrong in between.
- The progress and stage columns are left out; no guard reads them.
- `Shutdown` follows the text of `JobQueue.shutdown` and cancels every future that has not
  started. A normal exit of recent CPython drains the pool first, which is a subset of these
  behaviours.
- Not modelled: `WORKER_ENABLED` off (the job runs inline in the request) and hosts whose pids
  cannot be probed (Windows), where the sweep falls back to age alone.

### ReportRendering

One analysis, since locks, rows and files of two analyses never meet. Calls of
`generate_report_for_analysis` (`Call`) run in processes (`Proc`) as a hook or as a forced POST;
`pc[c]` follows the function, from the fast path through the lock (`Register`, `Acquire`,
`Release`, `Unregister` are the four critical points of `_analysis_report_lock`), the recheck, the
render, the save and its `IntegrityError`, to the hook's own late stamp. `registry`, `interest`
and `holder` are `_LOCK_REGISTRY` and its lock objects. A call mints at most one report id and at
most one lock object, so both carry its name. `row` remembers whose bytes the saved size, page
count and time describe; `file` whose bytes are on disk.

With `Contention` a statement may give up and a file may resist removal. `SetColumn` is
`set_report_status`, which logs an UPDATE that exhausts its retries and returns: the column keeps
its value, and the history variable `unsaid` remembers that its last write was such a one.
`CheckRaises` and `RecheckRaises` are the look-ups outside and under the lock that raise before
anything was announced. `SaveRaises` is any error of `report.save()` but the `IntegrityError`: the
call goes on to `Fail` with its file in place, without a row on a first render, under a row that
describes the old bytes on a forced one. `Remove` is `delete_paths`, best effort; `stuck`
remembers the ids whose file stayed.

`Crash` kills a process with all its calls and its registry; `ResolvePaths`, `DropRows`, `Reclaim`
are `delete_analysis`. The download view's regeneration (only when a file was lost outside the
program) is the same forced call as a POST and has no action of its own.

### UploadStore

One owner and one checksum, since nothing else deduplicates against it. `Upload` are requests; a
request creates at most one row and one file and both carry its name. The actions are the steps of
`store_upload` in order (validate, find by checksum, look at the disk, write, insert, probe,
apply) with a failure branch at every step that can fail: an `OSError` that leaves part of a file,
a database error at the INSERT, at the probe's UPDATE and at the DELETE, a file removal that fails
and is swallowed. What a decoder accepts is a free choice, since the settings a probe reads can
change between two requests. `DropMedia` is the delete view with the database refusing as an
alternative.

### VehicleTracker, Severity, MediaScan

`MediaScan` is one call of `analyze_media`. The stage `pc` follows the function; `reader` is the
loop of `iter_frames`; `tracks` and `step` are the tracker; `records`, `regions`, `budget`,
`masks`, `shortlist`, `annotated`, `preview` are the vehicle dicts, the smoke regions, the
artefact budget and what is on disk; `percent` is what `progress_cb` was last given. The two
ghosts are `history` (the frames the tracker was fed, with the ids it gave), against which the
verdict is judged, and `faults`.

| Action | Code |
|---|---|
| `Start`, `CannotLoad`, `LoadImage`, `ProbeVideo` | directories, `_detect_kind`, `load_image`, `probe_video`; the frame count the container claims is free |
| `DecoderHiccup`, `PassOver`, `EndOfFrames`, `ReopenFails` | `iter_frames`: every `SampleRate`-th frame, three failures in a row end it |
| `ProcessFrame`, `SkipFrame` | the loop body, whole: detect, associate, artefacts within the budget, progress, shortlist; or the frame is skipped because it raised |
| `Aggregate` | persistence judged, transient smoke taken back from records, masks, shortlist and regions; masks that cannot be unlinked stay |
| `StartWriting`, `WriteFrame`, `Finish` | re-ranking without smoke, overlay files, the preview with its own fallback, the result |

What a frame shows is a choice from `FrameMenu`: boxes are integers, overlaps are compared as
fractions by cross multiplication, region features are compared with the `MIN_SMOKE_*` floors.
Intensities are natural numbers in hundredths, so that equality with a threshold happens. Some
loops and sorts of the code are stated by what they leave behind: who of a frame's vehicles gets
an artefact is who has fewer eligible ones before it than the budget has left (`Granted`); a sort
puts the entry that k - 1 others precede in place k (`Ranked`, used for `candidates.sort` in
`Sorted` and for `best_frames.sort` in `InOrder`); and `smoke_regions`, of which only counts and
the worst are used, is a set. The greedy loop over the sorted candidates is a recursive function
of the number looked at (`Assigned`). `ScanContract` abstracts all this to a phase, a percentage
and an answer.

### SystemSettings, Engines, AnalysisVerdict

`SystemSettings` keeps the row and, per administrator, a request that has read it: `Fetch` is
`get_solo`, `Save` the UPDATE of every column, `Valid` the serializer's check against the row that
was read, which the Django form lacks. `Engines` keeps the two caches of a process and the objects
of the scan at work; a load is one step because the inference lock keeps scans and warm-ups apart
(`OneInferencePerProcess`). What a weight file holds when it is looked at is free, since it may be
trained, replaced or removed at any time. `AnalysisVerdict` follows one run: `Admit` freezes the
row (`build_settings_snapshot` with the sensitivity slider), `Begin` validates the bands as
`MLConfig` does, `ScanReports`, `ScanFrame`, `ScanAnswers`, `ScanFails` are steps of
`ScanContract` with the networks and the progress writes, `ReadSettings` and `Persist` are
`_persist`.

### Accounts

One e-mail address and requests of any kind. None of the views opens a transaction, so every
database statement is an action: `RegisterProbe`/`RegisterInsert`, `LoginVerify`/`IssueTokens`,
`RefreshVerify`/`RefreshRotate`, `Logout`, `ResetClear`/`ResetIssue`, and for a confirmation
`ConfirmRead`, `ConfirmSpend`, `ConfirmStamp`, `ConfirmSave`, `RevokeList`, `RevokeOne` once per
session, `ConfirmEnd`. Two more requests write the password: `LoginRehash`, as `check_password`
upgrades the hash of an old account and saves the password it was given, without the stamp; and
`ProfileRead`/`ProfileSave`, as `MeView.patch` (and the admin's user form) saves every column of
the row it read when the request began. `BreakOff` is a database error or a death between two
statements. Refresh tokens are rows; access tokens are a set in clients' hands and are judged by
`iat` against `password_changed_at` alone. Passwords are numbered as they are saved: `password` is
the one in the row, the ghost `stamped` the one its stamp was taken for, and the ghost `epoch`
counts the saves, so that `authority` and `minted` say which password a token goes back to and how
many there had been. Only the first password's hash can be old enough to be upgraded; a later one
is made with the hasher's present parameters. A tick is half a second, so that the cut of `iat` to
whole seconds shows.

### Provisioning, Launcher

`Provisioning` is phases 1 to 6 and `--check`; a variable per thing on disk. A dependency file's
content is a version and its digest the same. `BreakOff` stands for a command that fails, a
time-out, Ctrl-C and a kill at any step, `Torn` for whatever mixture pip or npm then leaves,
`Edit` for the developer who edits a dependency file between or during launches. Data-set
generation, training and sample making are modelled step by step inside it, from their own
sources, for what they leave when cut short. `Launcher` adds ports, the two servers (each a
process group whose leader has a helper that listens: npm and Vite, the autoreloader and the
serving process), readiness, supervision, signals and shutdown. Servers, other programs, signals
and edits are the environment. A second launch starts from what the first left.

## 3. Runs

| Run | Instance | Shows |
|---|---|---|
| `jobs_replacement` | 2 runs of 1 upload, 1 host, SQLite, 2 serving processes and a third incarnation that replaces one | `OneRunPerUpload`, `LiveWorkKeepsItsRow`, `NoRowIsLeftHanging`, `SweepLeavesNoOrphan`, `NoResurrection`, and that the jobs implement `JobLifecycle` |
| `jobs_postgres` | 2 runs, 2 hosts with one process each, PostgreSQL, ageing jobs, exhausted retries, upload deletes, 2 pool threads | what survives all of that: `LiveRowsAreOwned`, `OneInferencePerProcess`, `OnlyStaleForeignWorkIsTaken` |
| `jobs_liveness` | 2 runs, 2 incarnations, fairness | `EveryJobEnds` |
| `reports_race` | hook and 2 POSTs, 2 processes, a delete, statements that give up, files that cannot be removed | `OneRenderPerProcess`, `RowHasItsFile`, `SettledReportIsTrue` (row and file are of one render, no file without a row, `failed` only of the latest attempt, each with the exceptions of section 6), `GeneratingIsNotAbandoned`, `ReadyMeansAReport` |
| `reports_crash` | 3 calls, 1 process, crashes, fairness | `EveryCallEnds`: the lock is always handed on |
| `uploads` | 3 requests, deletes, faults, crashes | `RowsHaveTheirBytes`, `NoStrayFile`, `NoUnprobedRow`, `NoSecondCopy` |
| `scan` | an image, or a clip of up to 4 sampled frames out of 7 indices, six kinds of frame, 1 caught fault, hiccups | `VerdictMatchesEvidence`, `MasksMatchRecords`, `BestFramesAreShown`, `MatchingIsStable`, and that the scan implements `ScanContract` (`KeepsTheContract`) |
| `verdict` | 1 run, 2 administrators with one change each, by API or form, three changes, four media, two checkpoint sizes | bands stay ordered (`TypeOK`), `VerdictIsExplained`, `EngineIsNamed` |
| `accounts` | 3 requests of any kind, profile edits and hash upgrades among them, 4 ticks, breaks anywhere, a registered or a new account | `OneLiveLink`, `SessionsEndWithTheReset`, `AccessFollowsThePassword` |
| `launcher` | 2 launches with 3 pairs of command lines, 1 step that breaks off, 1 edit, 3 ports, an old virtualenv or none, fairness | `TrustedFilesAreTrue`, `DieTogether`, `LaunchEnds` |
| `jobs_pending_orphan`, `launcher_orphans` | the smallest instance each | a sentence of the repository's comments or docs that the code does not keep (section 6) |

Bounds and why they are enough.
- Two runs of one upload is the least that can collide in admission, in the pool and on the
  inference lock; a third run meets the same guards. One upload, since `gate`, cascade and
  admission never relate two.
- A replacement needs three incarnations: one that dies, its sibling that keeps working, and the
  one whose sweep must tell the two apart. `Workers` bounds how many serve at once (gunicorn's
  `--workers 2`). `Spare` and `LastOneStays` in `AnalysisJobs` bound deaths: with finitely many
  incarnations the last may neither crash nor be stopped, since "some later process sweeps" is
  what gunicorn provides.
- One pool thread where the question is about processes, two in `jobs_postgres` and
  `jobs_pending_orphan`, where it is about threads.
- Symmetry is declared for the safety runs only; both liveness runs go without it.
- `reports_race` has deletes and no crashes, `reports_crash` crashes, one process and no deletes;
  the proofs cover them together. `Contention` is on in `reports_race`, whose properties are about
  what it leaves behind, and off in `reports_crash`: a statement that gives up only shortens a
  call, on the branches a failing render takes anyway, and the liveness graph with it is beyond
  the time limit. States of `reports_race` are told apart by a `VIEW` that leaves out what no
  later step reads and no property asks of such a state: the local variables of a call that is
  over, a lock object nobody can reach any more, and the column (with its history) of a row that
  is deleted.
- Three calls or requests: two that race and a third that arrives for what they leave behind.
- `scan`: four sampled frames is the least in which a vehicle is seen, missed and seen again
  (`MaxMissed` 1) and still has or lacks the two sightings in a row of `MinRun`; two shortlisted
  frames of four, so that frames are dropped from the list; artefact budgets of one or two, so
  that they run out. The code's `MIN_SMOKE_TRACK_HITS`, `_RUN` and `_FRACTION` of 4, 3 and 0.30
  become 2, 2 and three fifths, so that four frames reach both sides of the run length and of the
  share (the hit count alone would need more frames to decide). One caught fault (`MaxFaults`)
  meets each place once; decoder hiccups are unbounded but for the reader itself.
- `verdict`: bands that cross when two valid changes are merged, bands the pipeline has to
  correct, and readings on both thresholds. One change per administrator, since a change reads
  nothing of an earlier one but the row.
- `accounts`: `Second` is 2 ticks and `Leeway` 2, so that a stamp falls within a second and beyond
  the leeway; `MaxTime` lets a link expire.
- `launcher`: `MaxBreaks` bounds broken steps, crashes of servers and ports taken, together; each
  alone is met at every point, and a second would start from a state the second launch's own
  choices reach. Two data-set pairs tell whole from partial, two epochs tell best from last.
- Deadlock is not checked: with a finite set of runs, calls or requests every system comes to
  rest.

Fairness. `AnalysisJobs!Fairness` is weak fairness of each thread of a live process, of its
bootstrap thread, of the exit of a process that was told to stop, and of the arbiter's replacement
of a process that is gone. No fairness of requests, deletes, crashes or shutdowns. The inference
lock needs no strong fairness because each thread waits for it at most once per job and the
holders always leave. `ReportRendering!FairSpec` is weak fairness of each call, which stops when
its process is lost. In both, a forward pass and a render are assumed to end. `MediaScan!Spec` is
weak fairness of the single thread that runs the scan, each of whose loops is bounded.
`Launcher!Spec` is weak fairness of the launcher's own steps, because each wait in it has a
time-out; servers, signals, edits and the start of a launch have no fairness, so `LaunchEnds`
relies on nobody else.

Every property of a passing run has a mutant: a definition with a plausible mistake (a blanket
verdict in the sweep, an entry dropped one thread early, a file removed before its row) that makes
TLC report that property violated. The mutants stand beside the definitions they imitate and are
used by nothing else.

## 4. Proofs

Assumptions are those the modules declare: positive bounds and Boolean switches
(`BoundsAssumption`, `SwitchAssumption`, `Contention` of the reports among them, so that their
theorems hold with it on and off), null values outside the sets they complete (`NullAssumption`),
finite sets of calls and requests (`CallAssumption`, `UploadAssumption`), what frames, settings,
checkpoints, ports and clocks are made of (`ScanAssumption`, `MenuAssumption`,
`TrackerAssumption`, `SettingsAssumption`, `EnginesAssumption`, `ProvisioningAssumption`, ...). A
theorem that needs more says so in its statement: `NothingHangs` and `SweepIsComplete` exclude
statements that give up, `AccountsTypes` has a finite set of requests.

**Jobs.** `TypeCorrect`; then two inductive invariants. `AdmissionInv` says who holds an upload's
gate and that nothing is in flight while it is held; "no two rows in flight" alone is not
inductive, because the commit of an admission relies on what its check saw. It gives
`AtMostOneRunPerUpload`. `OwnershipInv` relates every thread to a live process, every live row to
the process of its thread and every copy a sweep holds to the row's owner; without the clause
about the copies a sweep could act on a stamp that never existed. It gives `EveryLiveRowIsOwned`
and `LiveWorkIsSafe` and, with the verdict's guard, `LiveWorkFailsOnlyWhenStale`. `EngineInv` (who
infers holds the lock) gives `OneInferenceAtATime`. `SweepInv` (the departed stay dead, their rows
are among those read, no two incarnations share a place) gives `SweepIsComplete`, under
`~ReusePids` and `~Contention`: both assumptions are needed, and both fail without (section 6).
With `SerialWrites`, every step of the jobs maps to a step of `JobLifecycle` or a stutter
(`JobsImplementLifecycle`), so no verdict is rewritten (`VerdictsStand`); on PostgreSQL it does
not hold (section 6).

**Reports.** `LockInv` is the argument for the reference-counted lock: all calls of a process that
wait for, hold or leave the lock share the registered object (`SharedLock`), whoever is past
acquire is its holder (`HeldLock`), its count is the number of sharers (`CountedLock`, by
cardinality lemmas on finite sets), and a call that has yet to register can bring a fresh object
(`FreshLock`). Typing depends on it: the count is a natural number because a leaver is among those
counted. `RenderingInv` says a call that yields has a winner other than itself, one that will
report success has seen a row, and a column at `generating` has a call that will settle it, unless
the last attempt to write it gave up. Together they are inductive (crashes and deletes included)
and give `LockExcludes`, `RowsHaveFiles`, `ReadyIsTrue` and `GeneratingIsSettled`.

**Uploads.** `StoreInv` says what each stage of a request implies about its row and file, that a
file without a row is about to get one or about to go, and that a stored copy is passed over only
once its row is gone. It gives `RowsAreWhole`, `FilesHaveRows`, `RowsAreProbed` and
`CopiesAreFound`.

**Accounts.** From `AccountsAssumption` (a leeway of at least the second that `iat` is cut to),
`AccountsInv`: the links a request has spent before it makes its own stay spent; while a
confirmation revokes, every older session is revoked or on its list; what a profile edit or a hash
upgrade holds is a past row, written back at most once (`ReadsArePast`); a token that goes back to
the password of a stamp is new enough for it, whether the stamp is in the row or in the hands of a
profile edit that will write it back (`TokensAreFresh`); and each such stamp is at least that of
every password saved before it, unless one stamped earlier was saved later or the stamp was taken
back (`StampsAreFollowed`). None is visible in the properties, and each is what carries one of
them over the steps in between: without the list a session could be missed between two
blacklistings, without the clause about tokens a refresh could hand an old `iat` to a new
password, without the clauses about edits in progress a `ProfileSave` could put any stamp in the
row. `AccessFollowsThePassword` has three parts. `NewPasswordStays` is inductive with
`ReadsArePast`. `AccessEndsWithTheReset` follows from the stamps, and once a stamp was overtaken
or taken back it stays so (`OvertakenStays`). `FreshTokensAreAccepted` follows from the tokens.
Steps are sorted by what they move (`Moving`, `KindsOfStep`): most move one request and no
password, and share one lemma per invariant; those that write the row have a step of their own. It
gives `LinksAreSpent`, `ResetEndsSessions` and `StampSeparatesTokens`. For `AccountsTypes`,
`epoch` is the number of the confirmations that have saved, a cardinality of a finite set of
requests.

**Jobs left hanging.** `SettledInv` adds to the properties' own clauses that a run's process has
booted and that a row is `done` exactly from its thread's save on, so that no other verdict and no
report status of a later step lands on a row that failed. With `AdmissionInv` and `OwnershipInv`
it is inductive under `~Contention` and gives `NothingHangs`; where a statement may give up
(`Contention`), a thread can end without its verdict, and the property is about the other case.

**Settled reports.** `SettledInv` of `ReportRendering` has a part for each of the three stores.
`DescribedInv`: while one process renders, there is one render at a time (`LockMakesSole`), and a
row that does not describe its file has a call that is about to make it so, was lost or failed to
save. `StrayInv`: as long as the analysis is there a call renders under its own id or the row's
(`TargetInv`), so that a file without a row is its namesake's (`Unowned`): that call is about to
save or remove it, failed or was lost, or the file is stuck; and what is found under a reclaimed
id after a delete was rendered by a call that was under way, or is stuck. `FailedInv`: a column at
`failed` is true of the latest attempt, or is about to be set to `ready`, or is a hook's late
stamp, or the write that was to change it was lost. It gives `SettledReportsAreTrue`, with
crashes, deletes and contention in one system, for any number of calls.

**Verdict.** `ValidBandsAreOrdered` is the arithmetic of `MLConfig.validate`. `VerdictInv` says
that a loaded segmenter agrees with the process's cache, which never changes once set, that what
measured is explained by the net and the mishaps of this scan (`EnginesAgree`), and that the scan
answers by the bands frozen on the run (`ScanAgrees`). Lemmas about `Counts` and `Worst` carry it
over to what is stored: a list is counted as nothing exactly when it has no region.

**Launcher.** `ProvisionInv` has a part for each thing on disk, and each says what is true at the
steps that are about to change it: a stamp is the old one until its own install is over, a split
is whole before the next is begun, the checkpoint is the best score seen. `LaunchInv` says that
before the shutdown nobody's process group was sent a signal, that what still runs while stopping
is still on the list, and that a code of 0 was asked for. Every step keeps its own part; frame
lemmas (`VenvFrame`, `NodeFrame`, ...) keep the others. They give `WhatIsTrustedIsTrue`,
`ServersDieTogether` and `LauncherTypes`, for any number of launches, breaks and edits.

**Scan.** `ScanInv` holds the counters, the records, `smoke_regions` as the image of the records,
the masks and the percentage. `GrantedFits` is the lemma for the budget: of the eligible vehicles
no more are granted than are left, as the last one granted shows, so `MaxMasks` is never exceeded
(`MasksTellTheTruth`). For the percentage, `PercentInv` bounds it by the share of frames *counted
so far*: that it is between 40 and 72 is not inductive, as the next share must not be smaller
(`SharesGrow`, `AnnounceRises`). With `OverallIsTheWorst` (the worst of the counts is the worst of
the vehicles) every step maps to a step of `ScanContract` or a stutter
(`ScanStepsKeepTheContract`). The shortlist is the hardest: the code compares a frame with the
last entry of a list it has cut, and cuts again. `Better` is a strict order, total on distinct
frames (`BetterIsAnOrder`), so ranks differ and `InOrder` is a sorted enumeration (`RanksDiffer`,
`InOrderIs`); the first places do not depend on what is below them (`TopIsLocal`), so the best of
the best and one more is the best of all, and a frame that does not beat the last place changes
nothing (`ShortlistStep`). `HistoryInv` supplies that frames are distinct. It gives
`BestFramesAreKept` for any number of frames and any `MaxAnnotated`.

**Tracks and verdict.** Overlaps are fractions compared by cross multiplication; that this is
transitive for positive unions (`FractionsCompare`) makes `Before` a strict order on the
candidates (`BeforeOrders`), so that `Sorted` lists each once, the better first
(`SortedCandidates`). That the greedy loop's function exists, though a recursive definition, is a
least-counterexample argument over its initial segments rather than an induction schema
(`LoopIsDefined`); the same argument gives what `Assigned` returns: candidates of which no two
conflict, and each that was passed over conflicts with an earlier one (`AssignedAre`,
`MatchingIs`). `TrackIds` and `Update` follow: matched tracks are observed once, the others are
left alone, the new ones are numbered in order (`TrackIdsAre`, `UpdateIs`). `TracksInv` ties
tracks to `history`: ids name tracks, no two of a frame the same, and `Remembers` says of each
track's counters what they count. The run length needs more than its own clause: that the current
run is exactly the stretch that ends in the last sighting, as `StretchGrows` (how one more step
changes `LongestStretch`) then gives the next. `EvidenceInv` adds that until smoke is taken back
the records hold what was measured, afterwards nothing, and which of the two was decided by the
tracks. With them `AssociationIsStable` and `VerdictsAreTrue` hold for any frames, floors and
faults.

The inductive invariants were checked with TLC before they were proved.

## 5. What is only model-checked

- Liveness: `EveryJobEnds`, `EveryCallEnds`, `LaunchEnds` and the fairness conjunct of
  `KeepsTheContract`; temporal reasoning under fairness is out of the prover's reach.

Every invariant and every `[][A]_vars` property of a passing run is proved, `NoRowIsLeftHanging`,
`SweepLeavesNoOrphan`, `NoResurrection` and `ImplementsLifecycle` under the assumptions section 4
names.

## 6. Findings

Two have a run whose trace is the evidence and are quoted with their lines in `PROJECT.json`.
1. `jobs_pending_orphan`: a crash between the insert's commit and `enqueue` leaves a `pending` row
   that no sweep reads and that blocks its upload.
2. `launcher_orphans`: `ManagedProcess.stop` waits for the leader of a process group; a helper
   that is slower than its leader outlives the launch on its port.

The others were met while modelling. The properties name them as their exceptions, or their
switches exclude them, and the models reach them when the exception is dropped or the switch is
turned.
- The sweep compares `boot` only with its own, so that the orphan of a process whose pid was
  handed out again is taken for live work (`analysis/worker.py:1215`; `ReusePids`).
- The check before an upload's delete and the cascade are separate statements, so that a job
  admitted in between is deleted under its thread (`uploads/views.py:236`; `UploadDeletes`).
- On PostgreSQL a sweep can come between the ownership gate and the save, and `failed` becomes
  `done` (`analysis/worker.py:754`; `SerialWrites` off).
- The hook stamps `failed` a second time, after the lock, over a newer `ready`
  (`analysis/worker.py:842`).
- A `report.save()` that fails after `os.replace` (`reports/services.py:315`, 331 to 340) leaves
  the new bytes in place: a first render a PDF that no row will ever name, since a retry mints a
  new id; a forced re-render a row that describes the bytes before (`SaveRaises`).
- An UPDATE of `report_status` that exhausts its retries is logged and passed over
  (`analysis/services.py:551` to 561), so that `generating` can stay without a crash, although it
  is the "One state this row must never be abandoned in" (`analysis/worker.py:828`); `unsaid`
  marks that case.
- Deleting an analysis while its PDF is being rendered leaves the file behind
  (`analysis/services.py:925`).
- A lost update between two administrators: the later save takes back every field it did not
  change (`system_config/serializers.py:335`).
- A reset link can be confirmed twice by two overlapping requests, since reading, judging and
  spending it are separate statements (`accounts/services.py:144`; `accounts/models.py:253` calls
  it single-use).
- A profile edit (`accounts/views.py:377`; likewise the admin's user form) that overlaps a reset
  saves the whole row it had read: the old password and the old stamp are back, and with the stamp
  every access token the reset had refused. The upgrade of a hash at login writes the old password
  back under the new stamp (`accounts/models.py:223` to 227). `PasswordTakenBack` and
  `StampTakenBack` name these requests.
- A batch the network fails on is measured by the heuristic within a run stored as `unet`
  (`mlcore/segmenter.py:276`), though results are to "carry the mode that produced them"
  (`mlcore/segmenter.py:6`).
- A scan that finds the network in the cache uses the configured input size, not the checkpoint's
  (`mlcore/segmenter.py:103`).
- The runtime block of the settings reports the mode from the presence of the file, not from the
  process's cache (`system_config/serializers.py:211`).
- A virtualenv whose interpreter does not answer its probe within 25 seconds is passed over in the
  choice and reused all the same (`tools/dev_runner.py:515` and 1347).
- A virtualenv cut short before pip was installed is never repaired; a checkpoint below the target
  and a partial set of samples are taken as present by the next launch (`tools/dev_runner.py:1502`
  and 1614).

## 7. Plan

1. Reading views: the dashboard's untransacted queries against writers, if its answers are ever
   relied on.
2. Windows: process groups of the launcher, and the sweep that falls back to age.

## 8. Not modelled

Forward passes, image arithmetic, drawing, rendering of synthetic data, PDF layout, the self-test,
the evaluation script and the benchmark: numerical or one-shot code without states of its own.
Pagination, permissions, error translation, middleware and API schemas: stateless. The reading
views (status, history, dashboard): queries over rows others write, on which nothing is decided.
Throttles, password hashing and the encoding of tokens: library code. The inline mode of the
worker and hosts whose processes cannot be probed. Of the accounts: what a profile says,
deactivation, `manage.py changepassword` (one more save of password and stamp, by an operator) and
the admin's form for reset links. Of the launcher: Ctrl-C during the tests of `--check`, the
branch for a missing lock file, and sample images cut short while they are written.
