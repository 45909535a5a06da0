---------------------------- MODULE Provisioning ----------------------------
(***************************************************************************)
(* tools/dev_runner.py, phases 1 to 6 and --check: what a launch installs, *)
(* downloads, trains and seeds, and what it leaves on disk when it breaks  *)
(* off.  With the programs it runs: mlcore/training (the data set and the  *)
(* smoke model), tools/seed.py and tools/make_samples.py.                  *)
(*                                                                         *)
(* The content of requirements.txt and package-lock.json is a version; the *)
(* digest of a file is its version.  The developer edits both at any time. *)
(* A step that breaks off stands for a failing command, a time-out, Ctrl-C *)
(* and a kill; pip and npm (external) then leave any mixture, Torn.        *)
(***************************************************************************)
EXTENDS Integers, Sequences, FiniteSetsExt

CONSTANTS
  Versions,     \* versions of the two files
  PathPythons,  \* versions the interpreters on PATH may answer with, in search order
  Floor,        \* MIN_PYTHON
  Arguments,    \* bound: launches, as sequences of command lines (sets of flags)
  Scores,       \* validation Dice values, in percent
  Target,       \* the value training must reach (80)
  Epochs, Patience,
  Pairs,        \* bound: pairs of a whole split
  Codecs,       \* codecs a sample video is tried with
  MaxEdits,     \* bound: edits of the two files
  MaxBreaks     \* bound: steps that break off, servers that crash, ports taken

None == 0
Torn == -1

ASSUME ProvisioningAssumption ==
  /\ Versions \subseteq Nat \ {None} /\ Versions # {} /\ Scores \subseteq 0..100
  /\ Target \in 0..100
  /\ PathPythons \subseteq Seq(Nat) /\ Floor \in Nat \ {0}
  /\ {Epochs, Patience, Pairs, Codecs} \subseteq Nat \ {0} /\ {MaxEdits, MaxBreaks} \subseteq Nat

VARIABLES
  pc,           \* the phase, or the step of a phase, the launcher is at
  args,         \* the flags of this launch
  code, failed, \* the exit code; the failures list is not empty
  found,        \* the digest phase 2 read
  host,         \* the interpreter find_python chose: [python], and the ghost [unprobed]
  reqs, lock,   \* requirements.txt and package-lock.json
  venv,         \* [built, python, pip, pkgs, stamp], and the ghosts [old, raced]
  node,         \* node_modules: [pkgs, stamp], and the ghosts [old, raced]
  detector,     \* yolo11n.pt: "none", "short" (cut, above 1 MB) or "whole"
  dataset,      \* smoke_synth: pairs of each split, and the manifest
  weights,      \* smoke_unet.pt: the Dice value of the checkpoint, -1 for none
  training,     \* [epoch, best, since], and the ghost seen
  db,           \* [migrated, seeded]
  samples,      \* sample_media: [files, codec], and the ghost cut
  edits, breaks

files == <<reqs, lock>>
models == <<detector, dataset, weights, training>>
data == <<db, samples>>
setupVars == <<pc, args, code, failed, found, host, files, venv, node, models, data, edits, breaks>>

NoHost == [python |-> None, unprobed |-> FALSE]
NoVenv == [built |-> FALSE, python |-> None, pip |-> FALSE, pkgs |-> None, stamp |-> None,
           old |-> None, raced |-> FALSE]
OldVenv == [NoVenv EXCEPT !.built = TRUE, !.python = Floor - 1, !.pip = TRUE]
NoNode == [pkgs |-> None, stamp |-> None, old |-> None, raced |-> FALSE]
NoSamples == [files |-> 0, codec |-> 1, cut |-> FALSE]
AllSamples == [NoSamples EXCEPT !.files = 5]
Untrained == [epoch |-> 0, best |-> -1, since |-> 0, seen |-> {}]

SetupInit ==
  /\ pc = "off" /\ args = {} /\ code = 0 /\ failed = FALSE
  /\ found = None /\ host = NoHost
  /\ reqs = Min(Versions) /\ lock = reqs
  /\ venv \in {NoVenv, OldVenv} /\ node = NoNode
  /\ detector = "none" /\ weights = -1 /\ training = Untrained
  /\ dataset = [train |-> 0, val |-> 0, manifest |-> "none"]
  /\ db = [migrated |-> FALSE, seeded |-> FALSE]
  /\ samples \in {NoSamples, AllSamples}
  /\ edits = 0 /\ breaks = 0

----------------------------------------------------------------------------
WantsBackend == "--frontend-only" \notin args
WantsFrontend == "--backend-only" \notin args

Phases == <<"preflight", "venv", "frontend", "ml", "database", "samples", "tests",
            "servers", "readiness", "browser", "supervise">>

(* build_plan *)
Wanted(phase) ==
  CASE phase \in {"venv", "ml", "database", "samples"} -> WantsBackend
    [] phase = "frontend" -> WantsFrontend
    [] phase = "tests" -> "--check" \in args
    [] phase \in {"servers", "readiness", "browser", "supervise"} -> "--check" \notin args
    [] OTHER -> TRUE

(* The phase after this one; after the last, execute returns.              *)
PhaseAfter(phase) ==
  LET later == {i \in DOMAIN Phases : Wanted(Phases[i]) /\ \E j \in 1..(i - 1) : Phases[j] = phase}
  IN IF later = {} THEN "return" ELSE Phases[Min(later)]

Raise(c) == pc' = "shutdown" /\ code' = c

(* LauncherError, KeyboardInterrupt, or the launcher is gone at once.      *)
BreakOff ==
  /\ breaks < MaxBreaks /\ breaks' = breaks + 1
  /\ Raise(1) \/ Raise(130) \/ (pc' = "off" /\ UNCHANGED code)

(* LauncherError, for a reason that was there before.                      *)
Fail == Raise(1) /\ UNCHANGED breaks

Proceed(next) == pc' = next /\ UNCHANGED <<code, breaks>>

(***************************************************************************)
(* Phase 1: the interpreter, node and npm.                                 *)
(***************************************************************************)
(* probe_python has 25 seconds.                                            *)
Probe(version) == {version} \union (IF breaks < MaxBreaks THEN {None} ELSE {})

FirstFit(path) ==
  LET fits == {i \in DOMAIN path : path[i] >= Floor}
  IN IF fits = {} THEN None ELSE path[Min(fits)]

(* find_python: the virtualenv that is there; if it does not answer, or    *)
(* none is there, the first on PATH that is new enough.                    *)
FindPython(path) ==
  {IF v # None THEN [python |-> v, unprobed |-> FALSE]
   ELSE [python |-> FirstFit(path), unprobed |-> venv.built] :
     v \in IF venv.built THEN Probe(venv.python) ELSE {None}}

(* A mutant: only an interpreter from PATH is held against the floor.      *)
CheckFloorOfPathOnly(h) ==
  IF h.python >= Floor \/ venv.built
  THEN host' = h /\ pc' = PhaseAfter("preflight") /\ UNCHANGED code
  ELSE UNCHANGED host /\ Raise(1)

(* check_python_floor                                                      *)
CheckFloor(h) ==
  IF h.python >= Floor
  THEN host' = h /\ pc' = PhaseAfter("preflight") /\ UNCHANGED code
  ELSE UNCHANGED host /\ Raise(1)

Preflight ==
  /\ pc = "preflight"
  /\ \/ \E path \in PathPythons : \E h \in FindPython(path) :
          CheckFloor(h) /\ breaks' = IF h.unprobed THEN breaks + 1 ELSE breaks
     \/ UNCHANGED host /\ BreakOff
  /\ UNCHANGED <<args, failed, found, files, venv, node, models, data, edits>>

----------------------------------------------------------------------------
(* Phase 2.                                                                *)
Up2date(side, digest) ==
  "--reinstall" \notin args /\ side.stamp # None /\ side.stamp = digest

(* From here on the stamp, if any, is that of an earlier install.          *)
Installing(side) == [side EXCEPT !.old = side.stamp, !.raced = FALSE]

(* _create_venv, in a cleared directory: the interpreter first, then pip.  *)
CreateVenv ==
  /\ pc = "venv" /\ ~venv.built
  /\ \/ venv' = [NoVenv EXCEPT !.built = TRUE, !.python = host.python, !.pip = TRUE]
        /\ Proceed("pip upgrade")
     \/ \E b \in BOOLEAN : venv' = [NoVenv EXCEPT !.built = b, !.python = IF b THEN host.python ELSE None]
                         /\ BreakOff
  /\ found' = reqs
  /\ UNCHANGED <<args, failed, host, files, node, models, data, edits>>

CheckVenv ==
  /\ pc = "venv" /\ venv.built
  /\ IF Up2date(venv, reqs)
     THEN Proceed(PhaseAfter(pc)) /\ UNCHANGED <<found, venv>>
     ELSE Proceed("pip upgrade") /\ found' = reqs /\ venv' = Installing(venv)
  /\ UNCHANGED <<args, failed, host, files, node, models, data, edits>>

PipUpgrade ==
  /\ pc = "pip upgrade"
  /\ IF venv.pip THEN Proceed("pip install") \/ BreakOff ELSE Fail
  /\ UNCHANGED <<args, failed, found, host, files, venv, node, models, data, edits>>

(* What an install that broke off may leave.                               *)
Leavings(pkgs, version) == IF pkgs = version THEN {pkgs} ELSE {pkgs, Torn, version}

(* A mutant: the stamp is written before the packages are there.           *)
PipInstallStampFirst ==
  /\ pc = "pip install"
  /\ \/ venv' = [venv EXCEPT !.pkgs = reqs, !.stamp = found] /\ Proceed("pip stamp")
     \/ \E p \in Leavings(venv.pkgs, reqs) :
          venv' = [venv EXCEPT !.pkgs = p, !.stamp = found] /\ BreakOff
  /\ UNCHANGED <<args, failed, found, host, files, node, models, data, edits>>

(* pip finds no release of Django for an interpreter below the floor.      *)
PipInstall ==
  /\ pc = "pip install"
  /\ \/ venv.python < Floor /\ UNCHANGED venv /\ Fail
     \/ venv.python >= Floor /\ venv' = [venv EXCEPT !.pkgs = reqs] /\ Proceed("pip stamp")
     \/ \E p \in Leavings(venv.pkgs, reqs) :
          venv' = [venv EXCEPT !.pkgs = p] /\ BreakOff
  /\ UNCHANGED <<args, failed, found, host, files, node, models, data, edits>>

(* write_stamp: a write that fails is a warning; it leaves the old stamp,  *)
(* or an empty file.                                                       *)
Stamped(side, digest) ==
  {[side EXCEPT !.stamp = digest, !.old = None]} \union
  (IF breaks < MaxBreaks THEN {side, [side EXCEPT !.stamp = None]} ELSE {})

StampVenv ==
  /\ pc = "pip stamp"
  /\ venv' \in Stamped(venv, found)
  /\ Proceed(PhaseAfter("venv")) /\ found' = None
  /\ UNCHANGED <<args, failed, host, files, node, models, data, edits>>

----------------------------------------------------------------------------
(* Phase 3.                                                                *)
CheckNode ==
  /\ pc = "frontend"
  /\ IF node.pkgs # None /\ Up2date(node, lock)
     THEN Proceed(PhaseAfter(pc)) /\ UNCHANGED node
     ELSE Proceed("npm ci") /\ node' = Installing(node)
  /\ UNCHANGED <<args, failed, found, host, files, venv, models, data, edits>>

(* npm ci judges the lock file, then deletes node_modules with the stamp.  *)
(* When it fails, npm install is tried.                                    *)
Wiped == {[NoNode EXCEPT !.pkgs = p] : p \in {None, Torn}}

NpmCi ==
  /\ pc = "npm ci"
  /\ \/ node' = [NoNode EXCEPT !.pkgs = lock] /\ Proceed("npm stamp")
     \/ /\ node' \in {node} \union Wiped
        /\ Proceed("npm install") \/ BreakOff
  /\ UNCHANGED <<args, failed, found, host, files, venv, models, data, edits>>

(* npm install builds on what is there, and may rewrite the lock file.     *)
NpmInstall ==
  /\ pc = "npm install"
  /\ \/ /\ lock' \in Versions
        /\ node' = [node EXCEPT !.pkgs = lock']
        /\ Proceed("npm stamp")
     \/ /\ \E p \in Leavings(node.pkgs, lock) :
             node' = [node EXCEPT !.pkgs = p]
        /\ BreakOff /\ UNCHANGED lock
  /\ UNCHANGED <<args, failed, found, host, reqs, venv, models, data, edits>>

(* The digest stamped here is taken after the install.                     *)
StampNode ==
  /\ pc = "npm stamp"
  /\ node' \in Stamped(node, lock)
  /\ Proceed(PhaseAfter("frontend"))
  /\ UNCHANGED <<args, failed, found, host, files, venv, models, data, edits>>

(* The developer edits a file.  Only an edit between two launches, or in a *)
(* dependency phase, is told from a later one by what the launcher does.   *)
Edit ==
  /\ pc \in {"off", "pip upgrade", "pip install", "npm ci", "npm install", "npm stamp"}
  /\ edits < MaxEdits /\ edits' = edits + 1
  /\ \/ /\ reqs' \in Versions \ {reqs} /\ UNCHANGED <<lock, node>>
        /\ venv' = IF pc \in {"pip upgrade", "pip install"}
                   THEN [venv EXCEPT !.raced = TRUE] ELSE venv
     \/ /\ lock' \in Versions \ {lock} /\ UNCHANGED <<reqs, venv>>
        /\ node' = IF pc = "npm stamp" THEN [node EXCEPT !.raced = TRUE] ELSE node
  /\ UNCHANGED <<pc, args, code, failed, found, host, models, data, breaks>>

----------------------------------------------------------------------------
(* Phase 4.  download_file writes a .part file and renames it; a body that *)
(* ends early counts if it is above 1 MB.                                  *)
FetchDetector ==
  /\ pc = "ml"
  /\ \/ "--skip-ml" \in args /\ Proceed(PhaseAfter(pc)) /\ UNCHANGED detector
     \/ /\ "--skip-ml" \notin args
        /\ \/ detector # "none" /\ Proceed("segmenter") /\ UNCHANGED detector
           \/ /\ detector = "none"
              /\ \/ detector' \in {"whole", "short"} /\ Proceed("segmenter")
                 \/ UNCHANGED detector /\ BreakOff
  /\ UNCHANGED <<args, failed, found, host, files, venv, node, dataset, weights, training, data, edits>>

FindSegmenter ==
  /\ pc = "segmenter"
  /\ Proceed(IF weights >= 0 THEN PhaseAfter("ml") ELSE "dataset")
  /\ UNCHANGED <<args, failed, found, host, files, venv, node, models, data, edits>>

(* build_dataset: a data set is used again when both splits are full and   *)
(* its manifest can be read.  Otherwise all of it is made again, over what *)
(* is there; the manifest is written last.                                 *)
BuildDataset ==
  /\ pc = "dataset"
  /\ training' = Untrained
  /\ Proceed(IF dataset = [train |-> Pairs, val |-> Pairs, manifest |-> "whole"]
             THEN "start training" ELSE "train split") \/ BreakOff
  /\ UNCHANGED <<args, failed, found, host, files, venv, node, detector, dataset, weights, data, edits>>

(* A mutant: the manifest is written first.                                *)
BuildSplitAfterManifest(split, step, next) ==
  /\ pc = step
  /\ \/ dataset' = [dataset EXCEPT ![split] = Pairs, !.manifest = "whole"] /\ Proceed(next)
     \/ \E n \in dataset[split]..Pairs :
          dataset' = [dataset EXCEPT ![split] = n, !.manifest = "whole"] /\ BreakOff
  /\ UNCHANGED <<args, failed, found, host, files, venv, node, detector, weights, training, data, edits>>

(* build_split: pair after pair, over those that are there.                *)
BuildSplit(split, step, next) ==
  /\ pc = step
  /\ \/ dataset' = [dataset EXCEPT ![split] = Pairs] /\ Proceed(next)
     \/ \E n \in dataset[split]..Pairs :
          dataset' = [dataset EXCEPT ![split] = n] /\ BreakOff
  /\ UNCHANGED <<args, failed, found, host, files, venv, node, detector, weights, training, data, edits>>

WriteManifest ==
  /\ pc = "manifest"
  /\ \/ dataset' = [dataset EXCEPT !.manifest = "whole"] /\ Proceed("start training")
     \/ dataset' = [dataset EXCEPT !.manifest = "torn"] /\ BreakOff
     \/ UNCHANGED dataset /\ BreakOff
  /\ UNCHANGED <<args, failed, found, host, files, venv, node, detector, weights, training, data, edits>>

(* SmokeSegDataset, of both splits: one pair in each is enough, and nobody *)
(* asks for the manifest.                                                  *)
StartTraining ==
  /\ pc = "start training"
  /\ IF dataset.train = 0 \/ dataset.val = 0 THEN Fail ELSE Proceed("train") \/ BreakOff
  /\ UNCHANGED <<args, failed, found, host, files, venv, node, models, data, edits>>

TrainingOver == training.epoch = Epochs \/ training.since = Patience

(* A mutant: the last epoch counts as the best.                            *)
TrainEpochLastIsBest(score) ==
  /\ pc = "train" /\ ~TrainingOver
  /\ training' = [epoch |-> training.epoch + 1, best |-> score,
                  since |-> IF score > training.best THEN 0 ELSE training.since + 1,
                  seen  |-> training.seen \union {score}]
  /\ Proceed(IF score > training.best THEN "save" ELSE "train") \/ BreakOff
  /\ UNCHANGED <<args, failed, found, host, files, venv, node, detector, dataset, weights, data, edits>>

(* One epoch and evaluate_split, over whatever pairs SmokeSegDataset finds. *)
TrainEpoch(score) ==
  /\ pc = "train" /\ ~TrainingOver
  /\ training' = [epoch |-> training.epoch + 1, best |-> Max({score, training.best}),
                  since |-> IF score > training.best THEN 0 ELSE training.since + 1,
                  seen  |-> training.seen \union {score}]
  /\ Proceed(IF score > training.best THEN "save" ELSE "train") \/ BreakOff
  /\ UNCHANGED <<args, failed, found, host, files, venv, node, detector, dataset, weights, data, edits>>

(* _save_checkpoint: the best epoch so far, renamed into place.            *)
SaveCheckpoint ==
  /\ pc = "save"
  /\ \/ weights' = training.best /\ Proceed("train")
     \/ UNCHANGED weights /\ BreakOff
  /\ UNCHANGED <<args, failed, found, host, files, venv, node, detector, dataset, training, data, edits>>

(* Below the target train_unet exits with 2: the launch fails, the         *)
(* checkpoint stays.                                                       *)
TrainingEnds ==
  /\ pc = "train" /\ TrainingOver
  /\ training' = Untrained
  /\ IF training.best >= Target THEN Proceed(PhaseAfter("ml")) ELSE Fail
  /\ UNCHANGED <<args, failed, found, host, files, venv, node, detector, dataset, weights, data, edits>>

----------------------------------------------------------------------------
(* Phase 5.  --reset-db asks, unless --yes.                                *)
ResetDatabase ==
  /\ pc = "database"
  /\ \/ /\ "--reset-db" \in args
        /\ db' = [migrated |-> FALSE, seeded |-> FALSE] /\ Proceed("migrate")
     \/ "--reset-db" \in args /\ UNCHANGED db /\ BreakOff
     \/ "--reset-db" \notin args /\ UNCHANGED db /\ Proceed("migrate")
  /\ UNCHANGED <<args, failed, found, host, files, venv, node, models, samples, edits>>

Migrate ==
  /\ pc = "migrate"
  /\ \/ db' = [db EXCEPT !.migrated = TRUE] /\ Proceed("seed")
     \/ UNCHANGED db /\ BreakOff
  /\ UNCHANGED <<args, failed, found, host, files, venv, node, models, samples, edits>>

(* tools/seed.py: one transaction, skipping what is there.                 *)
Seed ==
  /\ pc = "seed"
  /\ \/ db' = [db EXCEPT !.seeded = TRUE] /\ Proceed(PhaseAfter("database"))
     \/ UNCHANGED db /\ BreakOff
  /\ UNCHANGED <<args, failed, found, host, files, venv, node, models, samples, edits>>

(* Phase 6: any file counts as the sample media.  build_all wants a        *)
(* detector that can be loaded.                                            *)
FindSamples ==
  /\ pc = "samples"
  /\ IF samples.files > 0 THEN Proceed(PhaseAfter(pc))
     ELSE IF detector # "whole" THEN Fail
     ELSE Proceed("make samples") \/ BreakOff
  /\ UNCHANGED <<args, failed, found, host, files, venv, node, models, data, edits>>

(* The next file is there; or this one breaks off, and what is written of  *)
(* it stays.                                                               *)
NextSample == [samples EXCEPT !.files = @ + 1, !.codec = 1]

CutShort ==
  /\ samples' \in {[samples EXCEPT !.codec = 1], [NextSample EXCEPT !.cut = TRUE]}
  /\ BreakOff

(* write_video_with_fallback: a codec whose file cannot be read back is    *)
(* given up, with its file, for the next; after the last the run fails.    *)
TryCodec ==
  \/ samples' = NextSample /\ Proceed(pc)
  \/ IF samples.codec < Codecs
     THEN samples' = [samples EXCEPT !.codec = @ + 1] /\ Proceed(pc)
     ELSE samples' = [samples EXCEPT !.codec = 1] /\ Fail

BuildVideo ==
  /\ pc = "make samples" /\ samples.files \in {0, 1}
  /\ TryCodec \/ CutShort
  /\ UNCHANGED <<args, failed, found, host, files, venv, node, models, db, edits>>

BuildImage ==
  /\ pc = "make samples" /\ samples.files \in {2, 3}
  /\ (samples' = NextSample /\ Proceed(pc)) \/ CutShort
  /\ UNCHANGED <<args, failed, found, host, files, venv, node, models, db, edits>>

(* The README of the folder comes last.                                    *)
WriteReadme ==
  /\ pc = "make samples" /\ samples.files = 4
  /\ (samples' = NextSample /\ Proceed(PhaseAfter("samples"))) \/ CutShort
  /\ UNCHANGED <<args, failed, found, host, files, venv, node, models, db, edits>>

(* --check: a suite that fails is a failure and no exception.              *)
RunTests ==
  /\ pc = "tests"
  /\ failed' \in BOOLEAN
  /\ Proceed(PhaseAfter(pc))
  /\ UNCHANGED <<args, found, host, files, venv, node, models, data, edits>>

SetupStep ==
  \/ Preflight
  \/ CreateVenv \/ CheckVenv \/ PipUpgrade \/ PipInstall \/ StampVenv
  \/ CheckNode \/ NpmCi \/ NpmInstall \/ StampNode
  \/ FetchDetector \/ FindSegmenter
  \/ BuildDataset
  \/ BuildSplit("train", "train split", "val split") \/ BuildSplit("val", "val split", "manifest")
  \/ WriteManifest \/ StartTraining
  \/ (\E score \in Scores : TrainEpoch(score)) \/ SaveCheckpoint \/ TrainingEnds
  \/ ResetDatabase \/ Migrate \/ Seed
  \/ FindSamples \/ BuildVideo \/ BuildImage \/ WriteReadme
  \/ RunTests

----------------------------------------------------------------------------
(***************************************************************************)
(* What a later launch trusts is true.  A stamp names the version that is  *)
(* installed, unless it was there before an install that did not get to    *)
(* its own stamp, or the file was edited while its install ran; a data set *)
(* with a manifest is whole, and nothing is trained on less; while the     *)
(* model trains, the checkpoint on disk is the best epoch so far; and pip  *)
(* works for no interpreter below the floor, unless it did not answer.     *)
(***************************************************************************)
TrustedFilesAreTrue ==
  /\ \A side \in {[pkgs |-> venv.pkgs, stamp |-> venv.stamp, old |-> venv.old, raced |-> venv.raced],
                  node} :
       side.stamp # None => side.pkgs = side.stamp \/ side.stamp = side.old \/ side.raced
  /\ dataset.manifest = "whole" \/ pc \in {"start training", "train", "save"} =>
       dataset.train = Pairs /\ dataset.val = Pairs
  /\ pc = "train" /\ training.seen # {} => weights = Max(training.seen)
  /\ pc \in {"pip upgrade", "pip install", "pip stamp"} => venv.python >= Floor \/ host.unprobed

----------------------------------------------------------------------------
(* What the proofs need besides: each part of the files with the steps     *)
(* that are about to change it.                                            *)
VenvInv ==
  /\ venv.stamp # None => venv.built /\ venv.pip
  /\ venv.stamp # None => venv.pkgs = venv.stamp \/ venv.stamp = venv.old \/ venv.raced
  /\ pc \in {"pip upgrade", "pip install", "pip stamp"} =>
       /\ venv.built /\ (pc = "pip upgrade" \/ venv.pip)
       /\ venv.stamp = venv.old
       /\ venv.raced \/ found = IF pc = "pip stamp" THEN venv.pkgs ELSE reqs
       /\ venv.python >= Floor \/ host.unprobed
  /\ pc = "venv" =>
       /\ host.python >= Floor
       /\ venv.built => venv.python = host.python \/ host.unprobed

NodeInv ==
  /\ node.stamp # None => node.pkgs = node.stamp \/ node.stamp = node.old \/ node.raced
  /\ pc \in {"npm ci", "npm install", "npm stamp"} => node.stamp = node.old
  /\ pc = "npm stamp" => node.pkgs = lock \/ node.raced

DatasetInv ==
  /\ dataset \in [train : 0..Pairs, val : 0..Pairs, manifest : {"none", "torn", "whole"}]
  /\ \/ dataset.manifest = "whole"
     \/ pc \in {"val split", "manifest", "start training", "train", "save"}
     => dataset.train = Pairs
  /\ dataset.manifest = "whole" \/ pc \in {"manifest", "start training", "train", "save"} =>
       dataset.val = Pairs

TrainingInv ==
  /\ training.seen \subseteq 0..100
  /\ training.best \in {-1} \union training.seen
  /\ \A score \in training.seen : score <= training.best
  /\ pc \in {"train split", "val split", "manifest", "start training"} => training = Untrained
  /\ pc = "train" /\ training.seen # {} => weights = training.best

StoresInv ==
  /\ detector \in {"none", "short", "whole"}
  /\ samples \in [files : 0..5, codec : 1..Codecs, cut : BOOLEAN]
  /\ db.seeded \/ pc = "seed" => db.migrated

Hosts == [python : Nat, unprobed : BOOLEAN]
Venvs == [built : BOOLEAN, python : Nat, pip : BOOLEAN,
          pkgs : Versions \union {None, Torn}, stamp : Versions \union {None},
          old : Versions \union {None}, raced : BOOLEAN]
NodeModules == [pkgs : Versions \union {None, Torn}, stamp : Versions \union {None},
                old : Versions \union {None}, raced : BOOLEAN]
Databases == [migrated : BOOLEAN, seeded : BOOLEAN]
Trainings == [epoch : Nat, best : Int, since : Nat, seen : SUBSET (0..100)]

SetupTypeOK ==
  /\ code \in {0, 1, 130} /\ failed \in BOOLEAN
  /\ reqs \in Versions /\ lock \in Versions /\ found \in Versions \union {None}
  /\ venv \in Venvs /\ node \in NodeModules /\ host \in Hosts
  /\ db \in Databases /\ training \in Trainings

ProvisionInv == SetupTypeOK /\ VenvInv /\ NodeInv /\ DatasetInv /\ TrainingInv /\ StoresInv
=============================================================================
