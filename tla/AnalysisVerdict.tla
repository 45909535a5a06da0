-------------------------- MODULE AnalysisVerdict ---------------------------
(***************************************************************************)
(* How severe one analysis is said to be.  analysis/services.py freezes    *)
(* the settings when it is admitted, analysis/worker.py gives the frozen   *)
(* bands to the pipeline (ScanContract), which looks through the frames    *)
(* with the networks of its process (Engines), writes its progress, and    *)
(* stores the pipeline's verdict and mode beside counts that it bands      *)
(* again with the settings as they are by then (SystemSettings).           *)
(***************************************************************************)
EXTENDS SystemSettings, ScanContract, Engines

CONSTANTS
  Readings,   \* what the media can hold: sequences of intensities
  Reports,    \* bound: percentages a scan reports
  Sliders,    \* sensitivity values a client may send
  NoSlider    \* the client sent none

ASSUME VerdictAssumption ==
  /\ Readings \subseteq Seq({None} \union Intensities)
  /\ Reports \subseteq 0..99
  /\ Sliders \subseteq 0..100 /\ NoSlider \notin Nat

VARIABLES
  stage,      \* of the analysis: none, admitted, running, persisting, done, failed
  snapshot,   \* settings_snapshot
  progress,   \* the progress column
  live,       \* the row _persist read
  stored      \* [counts, overall, mode]

vars == <<settingsVars, scanVars, engineVars, stage, snapshot, progress, live, stored>>

Init ==
  /\ SettingsInit /\ EnginesInit
  /\ phase = "waiting" /\ percent = 0 /\ answer = NoAnswer
  /\ bands = [low |-> 0, moderate |-> 0]
  /\ stage = "none" /\ progress = 0
  /\ snapshot = Defaults /\ live = Defaults
  /\ stored = [counts |-> [n \in Names |-> 0], overall |-> None, mode |-> ""]

Settings == SettingsNext /\ UNCHANGED <<scanVars, engineVars, stage, snapshot, progress, live, stored>>

(* build_settings_snapshot: the slider sets the mask threshold, ascending  *)
(* with it, and both thresholds are clamped.                               *)
Freeze(slider) ==
  [row EXCEPT
     !.confidence = Clamp(@, 5, 95),
     !.mask = Clamp(IF slider = NoSlider THEN @ ELSE MaskThreshold(slider) \div 100, 5, 95)]

Admit(slider) ==
  /\ stage = "none" /\ stage' = "admitted"
  /\ snapshot' = Freeze(slider)
  /\ UNCHANGED <<settingsVars, scanVars, engineVars, progress, live, stored>>

(* The claim, and build_ml_config with MLConfig.validate.                  *)
Begin ==
  /\ stage = "admitted" /\ stage' = "running"
  /\ phase' = "running"
  /\ bands' = ValidBands([low |-> snapshot.low, moderate |-> snapshot.moderate])
  /\ progress' = 0 /\ NewAnalyzer
  /\ UNCHANGED <<settingsVars, percent, answer, snapshot, live, stored>>

(* _ProgressReporter writes a percentage, or drops it: repeated, too soon  *)
(* after the last (never 100), or the database is locked.                  *)
WriteProgress == progress' \in {progress, percent'}

ScanReports ==
  /\ stage = "running"
  /\ percent' \in Reports
  /\ Report
  /\ WriteProgress
  /\ UNCHANGED <<settingsVars, engineVars, stage, snapshot, live, stored>>

(* The warm-up at boot, or another scan, under the inference lock, while   *)
(* this analysis is not between its claim and its end.                     *)
OthersScan(present, file) ==
  /\ stage \in {"none", "done"}
  /\ Warmup(present, file)
  /\ UNCHANGED <<settingsVars, scanVars, stage, snapshot, progress, live, stored>>

(* _FrameAnalyzer.process.                                                 *)
ScanFrame(present, file) ==
  /\ stage = "running" /\ phase = "running"
  /\ SeeNothing(present) \/ SeeVehicles(present, file)
  /\ UNCHANGED <<settingsVars, scanVars, stage, snapshot, progress, live, stored>>

(* Every vehicle seen is in the answer.                                    *)
ScanAnswers(r, file) ==
  /\ stage = "running" /\ phase = "running" /\ detector.loaded
  /\ (r = <<>>) = (used = {})
  /\ answer' = Answer(r)
  /\ GiveAnswer
  /\ Resolve(file)
  /\ WriteProgress
  /\ UNCHANGED <<settingsVars, stage, snapshot, live, stored>>

ScanFails ==
  /\ stage = "running" /\ GiveUp
  /\ stage' = "failed"
  /\ UNCHANGED <<settingsVars, engineVars, snapshot, progress, live, stored>>

(* _persist reads the settings first; retry_on_lock may give up.           *)
ReadSettings ==
  /\ stage = "running" /\ phase = "answered"
  /\ \/ stage' = "persisting" /\ live' = row
     \/ stage' = "failed" /\ UNCHANGED live
  /\ UNCHANGED <<settingsVars, scanVars, engineVars, snapshot, progress, stored>>

Rebanded == Counts([i \in DOMAIN answer.vehicles |-> SeverityFor(answer.vehicles[i], live)])

(* A mutant: the verdict is derived from the counts.                       *)
PersistRebandedVerdict ==
  /\ stage = "persisting" /\ stage' = "done"
  /\ stored' = [counts |-> Rebanded, overall |-> Worst(Rebanded), mode |-> Mode(segmenter)]
  /\ progress' = 100
  /\ UNCHANGED <<settingsVars, scanVars, engineVars, snapshot, live>>

(* The counts by the live bands; verdict and mode as the pipeline gave.    *)
Persist ==
  /\ stage = "persisting" /\ stage' = "done"
  /\ stored' = [counts |-> Rebanded, overall |-> answer.overall, mode |-> Mode(segmenter)]
  /\ progress' = 100
  /\ UNCHANGED <<settingsVars, scanVars, engineVars, snapshot, live>>

PersistFails ==
  /\ stage = "persisting" /\ stage' = "failed"
  /\ UNCHANGED <<settingsVars, scanVars, engineVars, snapshot, progress, live, stored>>

Next ==
  \/ Settings
  \/ \E slider \in Sliders \union {NoSlider} : Admit(slider)
  \/ Begin
  \/ ScanReports
  \/ \E present \in BOOLEAN, file \in Files :
       OthersScan(present, file) \/ ScanFrame(present, file)
  \/ \E r \in Readings, file \in Files : ScanAnswers(r, file)
  \/ ScanFails
  \/ ReadSettings
  \/ Persist \/ PersistFails

Spec == Init /\ [][Next]_vars

----------------------------------------------------------------------------
(* With SystemSettings!OrderedBands, the part of it that can go wrong.     *)
TypeOK ==
  /\ SettingsTypeOK /\ OrderedBands /\ EnginesTypeOK
  /\ stage \in {"none", "admitted", "running", "persisting", "done", "failed"}
  /\ phase \in {"waiting", "running", "answered", "failed"}
  /\ percent \in 0..100 /\ progress \in 0..percent
  /\ bands \in Bands
  /\ snapshot \in [Fields -> 0..100] /\ live \in [Fields -> 0..100]
  /\ stored.counts \in [Names -> Nat] /\ stored.overall \in {None} \union Names

(* The verdict and the worst of the stored counts disagree, which the      *)
(* worker logs as a retune while the run was in flight, only then, or when *)
(* an intensity lies on a threshold or the frozen bands are some that the  *)
(* pipeline corrects.                                                      *)
DriftIsExplained ==
  stored.overall # Worst(stored.counts) =>
    \/ live.low # snapshot.low \/ live.moderate # snapshot.moderate
    \/ \E i \in DOMAIN answer.vehicles : answer.vehicles[i] \in {live.low, live.moderate}
    \/ ValidBands(snapshot) # [low |-> snapshot.low, moderate |-> snapshot.moderate]

(***************************************************************************)
(* A stored verdict can be explained from its own row for ever after: it   *)
(* is the worst of the stored intensities by the bands frozen on it,       *)
(* whatever the settings became meanwhile; it is empty exactly when no     *)
(* region is counted; and where the counts say otherwise, the settings or  *)
(* a threshold are the reason.                                             *)
(***************************************************************************)
VerdictIsExplained ==
  stage = "done" =>
    /\ stored.overall =
         Worst(Counts(Classified(answer.vehicles, ValidBands(snapshot))))
    /\ (stored.overall = None) = (\A n \in Names : stored.counts[n] = 0)
    /\ DriftIsExplained

(***************************************************************************)
(* A stored mode names the engine.  It is the mode of the process and all  *)
(* its later scans; a classical run used no network, and a run of the      *)
(* network measured by the heuristic only where a batch failed; and the    *)
(* network ran at the size it was trained for, in the scan that loaded it. *)
(***************************************************************************)
EngineIsNamed ==
  stage = "done" =>
    /\ (stored.mode = "unet") = (cached.net \notin {Unset, Nothing})
    /\ stored.mode = "classical" => used \subseteq {Nothing}
    /\ stored.mode = "unet" /\ Nothing \in used => mishaps
    /\ segmenter.first => used \subseteq {Nothing, cached.net}

----------------------------------------------------------------------------
(* What the proofs need besides TypeOK.  The engines of the process: a     *)
(* segmenter that is filled agrees with the cache, which keeps its net for *)
(* good, and `used` is told by the net and the mishaps of its own scan.    *)
EnginesAgree ==
  /\ IF segmenter.loaded THEN cached.net # Unset /\ segmenter.net = cached.net
     ELSE segmenter = NewSegmenter /\ used = {}
  /\ segmenter.first /\ segmenter.net # Nothing => segmenter.size = segmenter.net
  /\ used \subseteq {Nothing} \union (IF segmenter.net = Nothing THEN {} ELSE {segmenter.size})
  /\ Nothing \in used /\ segmenter.net # Nothing => mishaps

(* The scan: it is answered while the analysis is persisted, by the frozen *)
(* bands, with the net looked up.                                          *)
ScanAgrees ==
  /\ answer.vehicles \in Seq({None} \union Intensities)
  /\ stage \in {"none", "admitted"} => phase = "waiting"
  /\ stage = "running" => phase \in {"running", "answered"}
  /\ stage \in {"persisting", "done"} => phase = "answered"
  /\ stage \in {"running", "persisting", "done"} =>
       bands = ValidBands([low |-> snapshot.low, moderate |-> snapshot.moderate])
  /\ phase = "answered" =>
       /\ percent = 100 /\ segmenter.loaded
       /\ answer.overall = Worst(Counts(Classified(answer.vehicles, bands)))

StoredAgrees ==
  stage = "done" =>
    stored = [counts |-> Rebanded, overall |-> answer.overall, mode |-> Mode(segmenter)]

VerdictInv == TypeOK /\ EnginesAgree /\ ScanAgrees /\ StoredAgrees
=============================================================================
