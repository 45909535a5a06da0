--------------------------- MODULE LauncherProofs ---------------------------
(***************************************************************************)
(* Proofs about Launcher and Provisioning, for any versions of the         *)
(* dependency files, interpreters, command lines, sizes of data set and    *)
(* training, ports, and any number of edits and of steps that break off.   *)
(***************************************************************************)
EXTENDS Launcher, WellFoundedInduction, TLAPS

USE DEF files, models, data, None, Torn

(* A non-empty set of naturals has a least element, and Min is it.         *)
LEMMA MinIsLeast ==
  ASSUME NEW S, S \subseteq Nat, S # {}
  PROVE  Min(S) \in S /\ \A y \in S : Min(S) <= y
<1>1. \E x \in S : \A y \in S : ~(<<y, x>> \in OpToRel(<, Nat))
  BY NatLessThanWellFounded, WFMin
<1>2. PICK x \in S : \A y \in S : ~(<<y, x>> \in OpToRel(<, Nat))
  BY <1>1
<1>3. \A y \in S : x <= y
  <2>1. SUFFICES ASSUME NEW y \in S, y < x PROVE FALSE
    OBVIOUS
  <2>2. <<y, x>> \in OpToRel(<, Nat)
    BY <2>1 DEF OpToRel
  <2> QED BY <1>2, <2>2
<1> QED BY <1>3 DEF Min

(* After phase p comes a later phase; a launch that has no servers to      *)
(* start was called with --check.                                          *)
LEMMA PhasesAre ==
  /\ DOMAIN Phases = 1..11
  /\ Phases[1] = "preflight" /\ Phases[2] = "venv" /\ Phases[3] = "frontend" /\ Phases[4] = "ml"
  /\ Phases[5] = "database" /\ Phases[6] = "samples" /\ Phases[7] = "tests" /\ Phases[8] = "servers"
  /\ Phases[9] = "readiness" /\ Phases[10] = "browser" /\ Phases[11] = "supervise"
BY DEF Phases

LaterPhases == {"frontend", "ml", "database", "samples", "tests", "servers", "return"}

(* PhaseAfter of every phase of the set-up.                                *)
LEMMA PhaseAfterIsLater ==
  ASSUME NEW phase \in {"preflight", "venv", "frontend", "ml", "database", "samples", "tests"}
  PROVE  /\ PhaseAfter(phase) \in LaterPhases \union {"venv"}
         /\ phase # "preflight" => PhaseAfter(phase) # "venv"
         /\ PhaseAfter(phase) = "return" => "--check" \in args
<1> DEFINE later == {i \in DOMAIN Phases : Wanted(Phases[i]) /\ \E j \in 1..(i - 1) : Phases[j] = phase}
<1>1. PICK k \in 1..7 : Phases[k] = phase /\ (phase # "preflight" => k # 1)
  BY PhasesAre
<1>2. \A i \in later : i \in 2..11 /\ Wanted(Phases[i]) /\ (phase # "preflight" => i # 2)
  <2>1. SUFFICES ASSUME NEW i \in later
                 PROVE  i \in 2..11 /\ (phase # "preflight" => i # 2)
    OBVIOUS
  <2>2. i \in 1..11 /\ \E j \in 1..(i - 1) : Phases[j] = phase
    BY PhasesAre
  <2> QED BY <2>2, PhasesAre
<1>3. "--check" \notin args => 8 \in later
  BY <1>1, PhasesAre DEF Wanted
<1> HIDE DEF later
<1>4. PhaseAfter(phase) = IF later = {} THEN "return" ELSE Phases[Min(later)]
  BY DEF PhaseAfter, later
<1>5. CASE later = {}
  BY <1>3, <1>4, <1>5 DEF LaterPhases
<1>6. CASE later # {}
  <2>1. Min(later) \in later /\ \A y \in later : Min(later) <= y
    BY <1>2, <1>6, MinIsLeast
  <2> DEFINE m == Min(later)
  <2>2. m \in 2..11 /\ Wanted(Phases[m]) /\ (phase # "preflight" => m # 2)
    BY <1>2, <2>1
  <2>3. "--check" \notin args => m \in 2..8
    BY <1>3, <2>1, <2>2
  <2>4. m \in 2..8
    <3>1. "--check" \in args => m \notin 9..11
      BY <2>2, PhasesAre DEF Wanted
    <3> QED BY <3>1, <2>2, <2>3
  <2> HIDE DEF m
  <2>5. Phases[m] \in LaterPhases \union {"venv"} /\ (phase # "preflight" => Phases[m] # "venv")
         /\ Phases[m] # "return"
    BY <2>2, <2>4, PhasesAre DEF LaterPhases
  <2> QED BY <1>4, <1>6, <2>5 DEF m
<1> QED BY <1>5, <1>6
----------------------------------------------------------------------------
(* Where the launcher goes from a step, and with which exit code.          *)
Goes ==
  /\ code' \in {code, 1, 130}
  /\ pc' = "shutdown" => code' # 0
  /\ pc' = "return" => "--check" \in args

(* A step that breaks off ends the launch, with a code that says so.       *)
LEMMA BreakOffGoes == ASSUME BreakOff PROVE pc' \in {"shutdown", "off"} /\ Goes
BY DEF BreakOff, Goes, Raise

(* So does a step that fails.                                              *)
LEMMA FailGoes == ASSUME Fail PROVE pc' = "shutdown" /\ Goes
BY DEF Fail, Goes, Raise

(* A step that succeeds goes to the next one.                              *)
LEMMA ProceedGoes ==
  ASSUME NEW next \in BeforeServers, next = "return" => "--check" \in args, Proceed(next)
  PROVE  pc' = next /\ Goes
BY DEF Proceed, Goes, BeforeServers

(* A step that is the last of its phase goes to a later phase.             *)
LEMMA PhaseEndGoes ==
  ASSUME NEW phase \in {"venv", "frontend", "ml", "database", "samples", "tests"},
         Proceed(PhaseAfter(phase))
  PROVE  pc' \in LaterPhases /\ Goes
<1>1. PhaseAfter(phase) \in LaterPhases /\ (PhaseAfter(phase) = "return" => "--check" \in args)
  BY PhaseAfterIsLater DEF LaterPhases
<1>2. PhaseAfter(phase) \in BeforeServers
  BY <1>1 DEF LaterPhases, BeforeServers
<1> QED BY <1>1, <1>2, ProceedGoes

USE BreakOffGoes, FailGoes, ProceedGoes, PhaseEndGoes

----------------------------------------------------------------------------
(* Phases 1 and 2.                                                         *)
VenvSteps == {"venv", "pip upgrade", "pip install", "pip stamp"}
Ends == {"shutdown", "off"}

(* find_python: what it finds on PATH is an interpreter, and new enough    *)
(* when there is one.                                                      *)
LEMMA FindPythonFinds ==
  ASSUME venv \in Venvs, NEW path \in PathPythons, NEW h \in FindPython(path)
  PROVE  h \in Hosts /\ (venv.built => h.python = venv.python \/ h.unprobed)
<1>1. path \in Seq(Nat)
  BY ProvisioningAssumption
<1>2. FirstFit(path) \in Nat
  <2> DEFINE fits == {i \in DOMAIN path : path[i] >= Floor}
  <2>1. fits \subseteq Nat /\ \A i \in fits : path[i] \in Nat
    BY <1>1
  <2>2. FirstFit(path) = IF fits = {} THEN None ELSE path[Min(fits)]
    BY DEF FirstFit
  <2> HIDE DEF fits
  <2>3. fits # {} => Min(fits) \in fits
    BY <2>1, MinIsLeast
  <2>4. CASE fits = {}
    BY <2>2, <2>4
  <2>5. CASE fits # {}
    <3>1. FirstFit(path) = path[Min(fits)]
      BY <2>2, <2>5
    <3> QED BY <2>1, <2>3, <2>5, <3>1
  <2> QED BY <2>4, <2>5
<1>3. PICK v \in (IF venv.built THEN Probe(venv.python) ELSE {None}) :
        h = IF v # None THEN [python |-> v, unprobed |-> FALSE]
            ELSE [python |-> FirstFit(path), unprobed |-> venv.built]
  BY DEF FindPython
<1>4. v \in {venv.python, None} /\ (~venv.built => v = None)
  BY <1>3 DEF Probe
<1>5. venv.python \in Nat /\ venv.built \in BOOLEAN
  BY DEF Venvs
<1>6. CASE v # None
  <2>1. h = [python |-> v, unprobed |-> FALSE] /\ v = venv.python
    BY <1>3, <1>4, <1>6
  <2> QED BY <1>5, <2>1 DEF Hosts
<1>7. CASE v = None
  <2>1. h = [python |-> FirstFit(path), unprobed |-> venv.built]
    BY <1>3, <1>7
  <2> QED BY <1>2, <1>5, <2>1 DEF Hosts
<1> QED BY <1>6, <1>7

(* The preflight finds an interpreter the environment can use.             *)
LEMMA PreflightKeeps ==
  ASSUME venv \in Venvs, host \in Hosts, VenvInv, Preflight
  PROVE  /\ host' \in Hosts /\ VenvInv'
         /\ pc' \in LaterPhases \union {"venv"} \union Ends /\ Goes
<1>1. ASSUME NEW path \in PathPythons, NEW h \in FindPython(path), CheckFloor(h)
      PROVE  /\ host' \in Hosts /\ VenvInv'
             /\ pc' \in LaterPhases \union {"venv"} \union Ends /\ Goes
  <2>1. h \in Hosts /\ (venv.built => h.python = venv.python \/ h.unprobed)
    BY FindPythonFinds
  <2>2. CASE h.python >= Floor
    <3>1. /\ host' = h /\ UNCHANGED code /\ UNCHANGED venv
          /\ pc' = PhaseAfter("preflight")
      BY <1>1, <2>2 DEF CheckFloor, Preflight
    <3>2. pc' \in LaterPhases \union {"venv"} /\ Goes
      BY <3>1, PhaseAfterIsLater DEF Goes, LaterPhases
    <3>3. VenvInv'
      BY <2>1, <2>2, <3>1, <3>2 DEF VenvInv, LaterPhases
    <3> QED BY <2>1, <3>1, <3>2, <3>3
  <2>3. CASE ~(h.python >= Floor)
    <3>1. UNCHANGED <<host, venv>> /\ Raise(1)
      BY <1>1, <2>3 DEF CheckFloor, Preflight
    <3>2. pc' = "shutdown" /\ Goes
      BY <3>1 DEF Raise, Goes
    <3>3. VenvInv'
      BY <3>1, <3>2 DEF VenvInv
    <3> QED BY <3>1, <3>2, <3>3 DEF Ends
  <2> QED BY <2>2, <2>3
<1>2. ASSUME UNCHANGED host, BreakOff
      PROVE  host' \in Hosts /\ VenvInv' /\ pc' \in Ends /\ Goes
  BY <1>2 DEF Preflight, VenvInv, Ends
<1> QED BY <1>1, <1>2 DEF Preflight

(* A virtual environment that is made again is one nobody stamped.         *)
LEMMA CreateVenvKeeps ==
  ASSUME SetupTypeOK, VenvInv, CreateVenv
  PROVE  venv' \in Venvs /\ VenvInv' /\ pc' \in VenvSteps \union Ends /\ Goes
<1>1. CASE Proceed("pip upgrade")
           /\ venv' = [NoVenv EXCEPT !.built = TRUE, !.python = host.python, !.pip = TRUE]
  <2>1. pc' = "pip upgrade" /\ Goes
    BY <1>1 DEF BeforeServers
  <2>2. venv' \in Venvs
    BY <1>1 DEF SetupTypeOK, NoVenv, Venvs, Hosts
  <2>3. VenvInv'
    BY <1>1, <2>1 DEF CreateVenv, NoVenv, VenvInv, SetupTypeOK, Hosts
  <2> QED BY <2>1, <2>2, <2>3 DEF VenvSteps
<1>2. ASSUME NEW b \in BOOLEAN, BreakOff,
             venv' = [NoVenv EXCEPT !.built = b, !.python = IF b THEN host.python ELSE None]
      PROVE  venv' \in Venvs /\ VenvInv' /\ pc' \in Ends /\ Goes
  <2>1. (IF b THEN host.python ELSE None) \in Nat
    BY DEF SetupTypeOK, Hosts
  <2>2. venv' \in Venvs
    BY <1>2, <2>1 DEF NoVenv, Venvs
  <2>3. venv'.stamp = None /\ pc' \in Ends /\ Goes
    BY <1>2 DEF NoVenv, Ends
  <2>4. VenvInv'
    BY <2>3 DEF VenvInv, Ends
  <2> QED BY <2>2, <2>3, <2>4
<1> QED BY <1>1, <1>2 DEF CreateVenv

(* The environment is passed over only when its stamp is true.             *)
LEMMA CheckVenvKeeps ==
  ASSUME venv \in Venvs, VenvInv, CheckVenv
  PROVE  venv' \in Venvs /\ VenvInv' /\ pc' \in LaterPhases \union VenvSteps /\ Goes
<1>1. CASE UNCHANGED venv /\ Proceed(PhaseAfter("venv"))
  BY <1>1 DEF CheckVenv, VenvInv, LaterPhases
<1>2. CASE venv' = Installing(venv) /\ Proceed("pip upgrade") /\ found' = reqs
  <2>1. pc' = "pip upgrade" /\ Goes
    BY <1>2 DEF BeforeServers
  <2>2. venv' \in Venvs
    BY <1>2 DEF Installing, Venvs
  <2>3. VenvInv'
    BY <1>2, <2>1 DEF Installing, VenvInv, Venvs, CheckVenv
  <2> QED BY <2>1, <2>2, <2>3 DEF VenvSteps
<1> QED BY <1>1, <1>2 DEF CheckVenv

(* pip is upgraded before anything is installed with it.                   *)
LEMMA PipUpgradeKeeps ==
  ASSUME VenvInv, PipUpgrade
  PROVE  VenvInv' /\ pc' \in VenvSteps \union Ends /\ Goes
<1>1. /\ pc' \in {"pip install"} \union Ends /\ Goes
      /\ pc' = "pip install" => venv.pip
  BY DEF PipUpgrade, BeforeServers, Ends
<1> QED BY <1>1 DEF PipUpgrade, VenvInv, VenvSteps, Ends

(* The stamp of an environment is off while pip changes it.                *)
LEMMA PipInstallKeeps ==
  ASSUME SetupTypeOK, VenvInv, PipInstall
  PROVE  venv' \in Venvs /\ VenvInv' /\ pc' \in VenvSteps \union Ends /\ Goes
<1>1. pc' \in {"pip stamp"} \union Ends /\ Goes
  BY DEF PipInstall, BeforeServers, Ends
<1>2. venv \in Venvs /\ reqs \in Versions
  BY DEF SetupTypeOK
<1>3. PICK p \in {venv.pkgs, Torn, reqs} :
        /\ venv' = [venv EXCEPT !.pkgs = p]
        /\ pc' = "pip stamp" => p = reqs
        /\ pc' = "pip stamp" => venv.python >= Floor
  <2>1. CASE UNCHANGED venv /\ Fail
    BY <1>2, <2>1 DEF Venvs
  <2>2. CASE venv' = [venv EXCEPT !.pkgs = reqs] /\ Proceed("pip stamp") /\ venv.python >= Floor
    BY <2>2
  <2>3. ASSUME NEW p \in Leavings(venv.pkgs, reqs), venv' = [venv EXCEPT !.pkgs = p], BreakOff
        PROVE  p \in {venv.pkgs, Torn, reqs} /\ pc' # "pip stamp"
    BY <2>3 DEF Leavings
  <2> QED BY <2>1, <2>2, <2>3 DEF PipInstall
<1>4. venv' \in Venvs
  BY <1>2, <1>3 DEF Venvs
<1>5. VenvInv'
  BY <1>1, <1>2, <1>3 DEF PipInstall, VenvInv, Venvs, Ends
<1> QED BY <1>1, <1>4, <1>5 DEF VenvSteps

(* The stamp is written for what was installed.                            *)
LEMMA StampVenvKeeps ==
  ASSUME SetupTypeOK, VenvInv, StampVenv
  PROVE  venv' \in Venvs /\ VenvInv' /\ pc' \in LaterPhases /\ Goes
<1>1. pc' \in LaterPhases /\ Goes
  BY DEF StampVenv
<1>2. venv' \in Venvs
  <2>1. venv \in Venvs /\ found \in Versions \union {None}
    BY DEF SetupTypeOK
  <2> QED BY <2>1 DEF StampVenv, Stamped, Venvs
<1>3. VenvInv'
  <2>1. pc' \notin VenvSteps /\ pc = "pip stamp" /\ venv \in Venvs
    BY <1>1 DEF StampVenv, LaterPhases, VenvSteps, SetupTypeOK
  <2>2. /\ venv.built /\ venv.pip /\ venv.stamp = venv.old
        /\ venv.raced \/ found = venv.pkgs
    BY <2>1 DEF VenvInv
  <2>3. CASE venv' = venv
    BY <2>1, <2>3 DEF VenvInv, VenvSteps
  <2>4. CASE venv' = [venv EXCEPT !.stamp = found, !.old = None]
    BY <2>1, <2>2, <2>4 DEF VenvInv, VenvSteps, Venvs
  <2>5. CASE venv' = [venv EXCEPT !.stamp = None]
    BY <2>1, <2>5 DEF VenvInv, VenvSteps, Venvs
  <2> QED BY <2>3, <2>4, <2>5 DEF StampVenv, Stamped
<1> QED BY <1>1, <1>2, <1>3

----------------------------------------------------------------------------
(* Phase 3.                                                                *)
NodeSteps == {"npm ci", "npm install", "npm stamp"}

(* node_modules is passed over only when its stamp is true.                *)
LEMMA CheckNodeKeeps ==
  ASSUME node \in NodeModules, NodeInv, CheckNode
  PROVE  node' \in NodeModules /\ NodeInv' /\ pc' \in LaterPhases \union NodeSteps /\ Goes
<1>1. CASE UNCHANGED node /\ Proceed(PhaseAfter("frontend"))
  BY <1>1 DEF NodeInv, LaterPhases
<1>2. CASE node' = Installing(node) /\ Proceed("npm ci")
  <2>1. pc' = "npm ci" /\ Goes
    BY <1>2 DEF BeforeServers
  <2>2. node' \in NodeModules
    BY <1>2 DEF Installing, NodeModules
  <2>3. NodeInv'
    BY <1>2, <2>1 DEF Installing, NodeInv, NodeModules
  <2> QED BY <2>1, <2>2, <2>3 DEF NodeSteps
<1> QED BY <1>1, <1>2 DEF CheckNode

(* npm ci leaves what the lock file says, or a tree with no stamp.         *)
LEMMA NpmCiKeeps ==
  ASSUME SetupTypeOK, NodeInv, NpmCi
  PROVE  node' \in NodeModules /\ NodeInv' /\ pc' \in NodeSteps \union Ends /\ Goes
<1>1. pc' \in {"npm stamp", "npm install"} \union Ends /\ Goes
  BY DEF NpmCi, BeforeServers, Ends
<1>2. node \in NodeModules /\ lock \in Versions
  BY DEF SetupTypeOK
<1>3. CASE node' = [NoNode EXCEPT !.pkgs = lock] /\ Proceed("npm stamp")
  BY <1>2, <1>3, <1>1 DEF NoNode, NodeModules, NodeInv, NpmCi, NodeSteps
<1>4. ASSUME node' \in {node} \union Wiped, Proceed("npm install") \/ BreakOff
      PROVE  node' \in NodeModules /\ NodeInv'
  <2>1. pc' # "npm stamp"
    BY <1>4 DEF BeforeServers
  <2>2. CASE node' = node
    BY <1>2, <2>1, <2>2 DEF NodeInv, NpmCi
  <2>3. ASSUME NEW p \in {None, Torn}, node' = [NoNode EXCEPT !.pkgs = p]
        PROVE  node' \in NodeModules /\ NodeInv'
    BY <2>1, <2>3 DEF NodeInv, NoNode, NodeModules
  <2> QED BY <1>4, <2>2, <2>3 DEF Wiped
<1> QED BY <1>1, <1>3, <1>4 DEF NpmCi, NodeSteps

(* npm install leaves what the lock file says, or no stamp.                *)
LEMMA NpmInstallKeeps ==
  ASSUME SetupTypeOK, NodeInv, NpmInstall
  PROVE  /\ node' \in NodeModules /\ NodeInv' /\ lock' \in Versions
         /\ pc' \in NodeSteps \union Ends /\ Goes
<1>1. pc' \in {"npm stamp"} \union Ends /\ Goes
  BY DEF NpmInstall, BeforeServers, Ends
<1>2. node \in NodeModules /\ lock \in Versions
  BY DEF SetupTypeOK
<1>3. CASE lock' \in Versions /\ node' = [node EXCEPT !.pkgs = lock']
  BY <1>1, <1>2, <1>3 DEF NodeModules, NodeInv, NpmInstall, NodeSteps
<1>4. ASSUME NEW p \in Leavings(node.pkgs, lock), node' = [node EXCEPT !.pkgs = p],
             BreakOff, UNCHANGED lock
      PROVE  node' \in NodeModules /\ NodeInv' /\ lock' \in Versions
  <2>1. p \in {node.pkgs, Torn, lock} /\ pc' \in Ends
    BY <1>4 DEF Leavings, Ends
  <2>2. node' \in NodeModules
    BY <1>2, <1>4, <2>1 DEF NodeModules
  <2>3. node'.stamp = node.stamp /\ node'.old = node.old /\ node'.stamp = node'.old
    BY <1>2, <1>4 DEF NodeModules, NodeInv, NpmInstall
  <2>4. NodeInv'
    BY <2>1, <2>3 DEF NodeInv, Ends
  <2> QED BY <1>2, <1>4, <2>2, <2>4
<1> QED BY <1>1, <1>3, <1>4 DEF NpmInstall, NodeSteps

(* The stamp of node_modules is written for what was installed.            *)
LEMMA StampNodeKeeps ==
  ASSUME SetupTypeOK, NodeInv, StampNode
  PROVE  node' \in NodeModules /\ NodeInv' /\ pc' \in LaterPhases /\ Goes
<1>1. pc' \in LaterPhases /\ Goes
  BY DEF StampNode
<1>2. node \in NodeModules /\ lock \in Versions
  BY DEF SetupTypeOK
<1>3. node' \in NodeModules
  BY <1>2 DEF StampNode, Stamped, NodeModules
<1>4. NodeInv'
  BY <1>1, <1>2 DEF StampNode, Stamped, NodeInv, NodeModules, LaterPhases
<1> QED BY <1>1, <1>3, <1>4

----------------------------------------------------------------------------
(* Phase 4: the data set and the training.                                 *)
TrainingSteps == {"segmenter", "dataset", "train split", "val split", "manifest",
                  "start training", "train", "save"}

(* A training that has not begun.                                          *)
LEMMA UntrainedIs ==
  /\ Untrained \in Trainings
  /\ Untrained.seen = {} /\ Untrained.best = -1
<1>1. {} \in SUBSET (0..100) /\ -1 \in Int /\ 0 \in Nat
  OBVIOUS
<1> QED BY <1>1 DEF Untrained, Trainings

(* A data set is built anew only after its manifest is gone.               *)
LEMMA BuildDatasetKeeps ==
  ASSUME DatasetInv, TrainingInv, BuildDataset
  PROVE  /\ DatasetInv' /\ TrainingInv' /\ training' \in Trainings
         /\ pc' \in TrainingSteps \union Ends /\ Goes
<1>1. /\ pc' \in {"start training", "train split"} \union Ends /\ Goes
      /\ pc' = "start training" => dataset = [train |-> Pairs, val |-> Pairs, manifest |-> "whole"]
  BY DEF BuildDataset, BeforeServers, Ends
<1>2. training' = Untrained /\ training' \in Trainings
  BY UntrainedIs DEF BuildDataset
<1>3. DatasetInv'
  <2>1. UNCHANGED dataset
    BY DEF BuildDataset
  <2>2. CASE pc' = "start training"
    <3>1. dataset = [train |-> Pairs, val |-> Pairs, manifest |-> "whole"]
      BY <1>1, <2>2
    <3>2. dataset.train = Pairs /\ dataset.val = Pairs
      BY <3>1
    <3> QED BY <2>1, <3>2 DEF DatasetInv
  <2>3. CASE pc' \in {"train split"} \union Ends
    BY <2>1, <2>3 DEF DatasetInv, Ends
  <2> QED BY <1>1, <2>2, <2>3
<1>4. TrainingInv'
  BY <1>1, <1>2, UntrainedIs DEF TrainingInv, Ends
<1> QED BY <1>1, <1>2, <1>3, <1>4 DEF TrainingSteps

(* What is made of a split stays within it.                                *)
LEMMA UpTo ==
  ASSUME NEW n \in Nat, NEW k \in 0..n
  PROVE  n \in k..n /\ \A m \in k..n : m \in 0..n /\ (k = n => m = n)
OBVIOUS

(* Pairs are added to one split at a time, in order.                       *)
LEMMA BuildSplitKeeps ==
  ASSUME DatasetInv, TrainingInv,
         \/ BuildSplit("train", "train split", "val split")
         \/ BuildSplit("val", "val split", "manifest")
  PROVE  DatasetInv' /\ TrainingInv' /\ pc' \in TrainingSteps \union Ends /\ Goes
<1>1. Pairs \in Nat
  BY ProvisioningAssumption
<1>2. CASE BuildSplit("train", "train split", "val split")
  <2>1. pc' \in {"val split"} \union Ends /\ Goes /\ pc = "train split" /\ UNCHANGED training
    BY <1>2 DEF BuildSplit, BeforeServers, Ends
  <2>2. PICK n \in dataset.train .. Pairs :
          dataset' = [dataset EXCEPT !.train = n] /\ (pc' = "val split" => n = Pairs)
    <3>1. dataset.train \in 0..Pairs
      BY DEF DatasetInv
    <3>2. CASE dataset' = [dataset EXCEPT !.train = Pairs]
      <4>1. Pairs \in dataset.train .. Pairs
        BY <1>1, <3>1, UpTo
      <4> QED BY <3>2, <4>1
    <3>3. ASSUME NEW n \in dataset.train .. Pairs, dataset' = [dataset EXCEPT !.train = n], BreakOff
          PROVE  pc' # "val split"
      BY <3>3
    <3> QED BY <1>2, <3>2, <3>3 DEF BuildSplit
  <2>3. DatasetInv'
    <3>1. dataset \in [train : 0..Pairs, val : 0..Pairs, manifest : {"none", "torn", "whole"}]
      BY DEF DatasetInv
    <3>2. n \in 0..Pairs /\ (dataset.train = Pairs => n = Pairs)
      <4>1. dataset.train \in 0..Pairs
        BY <3>1
      <4>2. n \in dataset.train .. Pairs
        OBVIOUS
      <4> QED BY <1>1, <4>1, <4>2, UpTo
    <3>3. /\ dataset' \in [train : 0..Pairs, val : 0..Pairs, manifest : {"none", "torn", "whole"}]
          /\ dataset'.train = n /\ dataset'.val = dataset.val /\ dataset'.manifest = dataset.manifest
      BY <2>2, <3>1, <3>2
    <3> QED BY <2>1, <2>2, <3>2, <3>3 DEF DatasetInv, Ends
  <2>4. TrainingInv'
    BY <2>1 DEF TrainingInv, Ends
  <2> QED BY <2>1, <2>3, <2>4 DEF TrainingSteps
<1>3. CASE BuildSplit("val", "val split", "manifest")
  <2>1. pc' \in {"manifest"} \union Ends /\ Goes /\ pc = "val split" /\ UNCHANGED training
    BY <1>3 DEF BuildSplit, BeforeServers, Ends
  <2>2. PICK n \in dataset.val .. Pairs :
          dataset' = [dataset EXCEPT !.val = n] /\ (pc' = "manifest" => n = Pairs)
    <3>1. dataset.val \in 0..Pairs
      BY DEF DatasetInv
    <3>2. CASE dataset' = [dataset EXCEPT !.val = Pairs]
      <4>1. Pairs \in dataset.val .. Pairs
        BY <1>1, <3>1, UpTo
      <4> QED BY <3>2, <4>1
    <3>3. ASSUME NEW n \in dataset.val .. Pairs, dataset' = [dataset EXCEPT !.val = n], BreakOff
          PROVE  pc' # "manifest"
      BY <3>3
    <3> QED BY <1>3, <3>2, <3>3 DEF BuildSplit
  <2>3. DatasetInv'
    <3>1. dataset \in [train : 0..Pairs, val : 0..Pairs, manifest : {"none", "torn", "whole"}]
      BY DEF DatasetInv
    <3>2. n \in 0..Pairs /\ (dataset.val = Pairs => n = Pairs)
      <4>1. dataset.val \in 0..Pairs
        BY <3>1
      <4>2. n \in dataset.val .. Pairs
        OBVIOUS
      <4> QED BY <1>1, <4>1, <4>2, UpTo
    <3>3. /\ dataset' \in [train : 0..Pairs, val : 0..Pairs, manifest : {"none", "torn", "whole"}]
          /\ dataset'.val = n /\ dataset'.train = dataset.train /\ dataset'.manifest = dataset.manifest
      BY <2>2, <3>1, <3>2
    <3> QED BY <2>1, <2>2, <3>2, <3>3 DEF DatasetInv, Ends
  <2>4. TrainingInv'
    BY <2>1 DEF TrainingInv, Ends
  <2> QED BY <2>1, <2>3, <2>4 DEF TrainingSteps
<1> QED BY <1>2, <1>3

(* The manifest is written when all the pairs are there.                   *)
LEMMA WriteManifestKeeps ==
  ASSUME DatasetInv, TrainingInv, WriteManifest
  PROVE  DatasetInv' /\ TrainingInv' /\ pc' \in TrainingSteps \union Ends /\ Goes
<1>1. pc' \in {"start training"} \union Ends /\ Goes
  BY DEF WriteManifest, BeforeServers, Ends
<1>2. PICK m \in {"torn", "whole", dataset.manifest} : dataset' = [dataset EXCEPT !.manifest = m]
  <2>1. dataset = [dataset EXCEPT !.manifest = dataset.manifest]
    BY DEF DatasetInv
  <2> QED BY <2>1 DEF WriteManifest
<1>3. DatasetInv'
  BY <1>1, <1>2 DEF WriteManifest, DatasetInv, Ends
<1>4. TrainingInv'
  BY <1>1 DEF WriteManifest, TrainingInv, Ends
<1> QED BY <1>1, <1>3, <1>4 DEF TrainingSteps

(* Training starts with no epoch seen and no best one.                     *)
LEMMA StartTrainingKeeps ==
  ASSUME DatasetInv, TrainingInv, StartTraining
  PROVE  DatasetInv' /\ TrainingInv' /\ pc' \in TrainingSteps \union Ends /\ Goes
<1>1. pc' \in {"train"} \union Ends /\ Goes
  BY DEF StartTraining, BeforeServers, Ends
<1>2. DatasetInv'
  BY <1>1 DEF StartTraining, DatasetInv, Ends
<1>3. TrainingInv'
  <2>1. UNCHANGED <<training, weights>> /\ training.seen = {}
    BY UntrainedIs DEF StartTraining, TrainingInv
  <2> QED BY <1>1, <2>1 DEF TrainingInv, Ends
<1> QED BY <1>1, <1>2, <1>3 DEF TrainingSteps

(* The largest of some integers is the one that is not below any.          *)
LEMMA MaxIs ==
  ASSUME NEW S, S \subseteq Int, NEW m \in S, \A y \in S : m >= y
  PROVE  Max(S) = m
<1>1. Max(S) \in S /\ \A y \in S : Max(S) >= y
  BY DEF Max
<1>2. PICK x \in S : Max(S) = x /\ \A y \in S : x >= y
  BY <1>1
<1>3. x >= m /\ m >= x /\ x \in Int /\ m \in Int
  BY <1>2
<1>4. x = m
  BY <1>3
<1> QED BY <1>2, <1>4

(* An epoch that is better than all before it is saved next; the best of   *)
(* the epochs is otherwise as it was.                                      *)
LEMMA TrainEpochKeeps ==
  ASSUME training \in Trainings, DatasetInv, TrainingInv, NEW score \in Scores, TrainEpoch(score)
  PROVE  /\ DatasetInv' /\ TrainingInv' /\ training' \in Trainings
         /\ pc' \in TrainingSteps \union Ends /\ Goes
<1>1. /\ pc' \in {"save", "train"} \union Ends /\ Goes
      /\ pc' = "train" => ~(score > training.best)
  BY DEF TrainEpoch, BeforeServers, Ends
<1>2. DatasetInv'
  BY <1>1 DEF TrainEpoch, DatasetInv, Ends
<1>3. score \in 0..100 /\ training.best \in Int
  BY ProvisioningAssumption DEF Trainings
<1> DEFINE best == IF score > training.best THEN score ELSE training.best
<1>4. Max({score, training.best}) = best
  <2>1. /\ {score, training.best} \subseteq Int
        /\ best \in {score, training.best}
        /\ \A y \in {score, training.best} : best >= y
    BY <1>3
  <2> QED BY <2>1, MaxIs
<1> DEFINE since == IF score > training.best THEN 0 ELSE training.since + 1
<1>5. training' = [epoch |-> training.epoch + 1, best |-> best, since |-> since,
                   seen |-> training.seen \union {score}]
  BY <1>4 DEF TrainEpoch
<1>6. training.epoch + 1 \in Nat /\ since \in Nat /\ best \in Int
      /\ training.seen \union {score} \in SUBSET (0..100)
  BY <1>3 DEF Trainings
<1>7. training' \in Trainings
  <2> HIDE DEF best, since
  <2> QED BY <1>5, <1>6 DEF Trainings
<1>8. TrainingInv'
  <2>1. training'.seen = training.seen \union {score} /\ training'.best = best
    BY <1>5
  <2>2. best \in {-1} \union training'.seen /\ \A s \in training'.seen : s <= best
    <3>1. /\ training.best \in {-1} \union training.seen
          /\ \A s \in training.seen : s \in 0..100 /\ s <= training.best
      BY DEF TrainingInv
    <3>2. CASE score > training.best
      BY <1>3, <2>1, <3>1, <3>2
    <3>3. CASE ~(score > training.best)
      <4>1. best = training.best /\ score <= training.best /\ 0 <= score
        BY <1>3, <3>3
      <4> QED BY <1>3, <2>1, <3>1, <4>1
    <3> QED BY <3>2, <3>3
  <2>3. pc' = "train" => weights' = training'.best
    <3>1. pc' = "train" => training.seen # {}
      <4>1. training.seen = {} => training.best = -1
        BY DEF TrainingInv
      <4>2. training.best = -1 => score > training.best
        BY <1>3
      <4> QED BY <1>1, <4>1, <4>2
    <3> QED BY <1>1, <2>1, <3>1 DEF TrainEpoch, TrainingInv
  <2>4. training'.seen \subseteq 0..100
    BY <1>6, <2>1
  <2> QED BY <1>1, <2>1, <2>2, <2>3, <2>4 DEF TrainingInv, Ends
<1> QED BY <1>1, <1>2, <1>7, <1>8 DEF TrainingSteps

(* The checkpoint saved is that of the best epoch so far.                  *)
LEMMA SaveCheckpointKeeps ==
  ASSUME DatasetInv, TrainingInv, SaveCheckpoint
  PROVE  DatasetInv' /\ TrainingInv' /\ pc' \in TrainingSteps \union Ends /\ Goes
<1>1. /\ pc' \in {"train"} \union Ends /\ Goes
      /\ pc' = "train" => weights' = training.best
  BY DEF SaveCheckpoint, BeforeServers, Ends
<1>2. DatasetInv'
  BY <1>1 DEF SaveCheckpoint, DatasetInv, Ends
<1>3. TrainingInv'
  BY <1>1 DEF SaveCheckpoint, TrainingInv, Ends
<1> QED BY <1>1, <1>2, <1>3 DEF TrainingSteps

(* Training ends with a checkpoint, or as it was before.                   *)
LEMMA TrainingEndsKeeps ==
  ASSUME DatasetInv, TrainingInv, TrainingEnds
  PROVE  /\ DatasetInv' /\ TrainingInv' /\ training' \in Trainings
         /\ pc' \in LaterPhases \union Ends /\ Goes
<1>1. pc' \in LaterPhases \union Ends /\ Goes
  BY DEF TrainingEnds, Ends
<1>2. training' = Untrained /\ training' \in Trainings
  BY UntrainedIs DEF TrainingEnds
<1>3. DatasetInv'
  BY <1>1 DEF TrainingEnds, DatasetInv, Ends, LaterPhases
<1>4. TrainingInv'
  BY <1>1, <1>2, UntrainedIs DEF TrainingInv, Ends, LaterPhases
<1> QED BY <1>1, <1>2, <1>3, <1>4

----------------------------------------------------------------------------
(* The detector, the database and the samples.                             *)
StoreSteps == {"segmenter", "migrate", "seed", "make samples"}
Media == [files : 0..5, codec : 1..Codecs, cut : BOOLEAN]

(* The detector's weights appear whole or not at all.                      *)
LEMMA FetchDetectorKeeps ==
  ASSUME StoresInv, FetchDetector
  PROVE  StoresInv' /\ pc' \in LaterPhases \union StoreSteps \union Ends /\ Goes
<1>1. pc' \in LaterPhases \union {"segmenter"} \union Ends /\ Goes
  BY DEF FetchDetector, BeforeServers, Ends
<1>2. detector' \in {"none", "short", "whole"} /\ UNCHANGED <<samples, db>>
  BY DEF FetchDetector, StoresInv
<1> QED BY <1>1, <1>2 DEF StoresInv, StoreSteps, LaterPhases, Ends

(* The database is seeded only after it was migrated.                      *)
LEMMA DatabaseKeeps ==
  ASSUME db \in Databases, StoresInv, ResetDatabase \/ Migrate \/ Seed
  PROVE  /\ db' \in Databases /\ StoresInv'
         /\ pc' \in LaterPhases \union StoreSteps \union Ends /\ Goes
<1>1. UNCHANGED <<detector, samples>>
  BY DEF ResetDatabase, Migrate, Seed
<1>2. CASE ResetDatabase
  <2>1. pc' \in {"migrate"} \union Ends /\ Goes
    BY <1>2 DEF ResetDatabase, BeforeServers, Ends
  <2>2. db' \in Databases /\ (db'.seeded => db'.migrated)
    <3>1. CASE db' = [migrated |-> FALSE, seeded |-> FALSE]
      BY <3>1 DEF Databases
    <3>2. CASE UNCHANGED db
      BY <3>2 DEF StoresInv
    <3> QED BY <1>2, <3>1, <3>2 DEF ResetDatabase
  <2> QED BY <1>1, <2>1, <2>2 DEF StoresInv, StoreSteps, Ends
<1>3. CASE Migrate
  <2>1. pc' \in {"seed"} \union Ends /\ Goes /\ (pc' = "seed" => db'.migrated)
    BY <1>3 DEF Migrate, BeforeServers, Ends, Databases
  <2>2. db' \in Databases /\ (db'.seeded => db'.migrated)
    BY <1>3 DEF Migrate, Databases, StoresInv
  <2> QED BY <1>1, <2>1, <2>2 DEF StoresInv, StoreSteps, Ends
<1>4. CASE Seed
  <2>1. pc' \in LaterPhases \union Ends /\ Goes
    BY <1>4 DEF Seed, Ends
  <2>2. db' \in Databases /\ (db'.seeded => db'.migrated)
    BY <1>4 DEF Seed, Databases, StoresInv
  <2> QED BY <1>1, <2>1, <2>2 DEF StoresInv, StoreSteps, Ends, LaterPhases
<1> QED BY <1>2, <1>3, <1>4

(* The samples' README is written last.                                    *)
LEMMA SamplesKeep ==
  ASSUME StoresInv, FindSamples \/ BuildVideo \/ BuildImage \/ WriteReadme
  PROVE  StoresInv' /\ pc' \in LaterPhases \union StoreSteps \union Ends /\ Goes
<1>1. UNCHANGED <<detector, db>>
  BY DEF FindSamples, BuildVideo, BuildImage, WriteReadme
<1>2. pc' \in LaterPhases \union {"make samples"} \union Ends /\ Goes
  BY DEF FindSamples, BuildVideo, BuildImage, WriteReadme, TryCodec, CutShort, BeforeServers, Ends
<1>3. samples' \in Media
  <2>1. Codecs \in Nat \ {0} /\ samples \in Media
    BY ProvisioningAssumption DEF StoresInv, Media
  <2>2. CASE UNCHANGED samples
    BY <2>1, <2>2
  <2>3. ASSUME samples.files < 5, samples' = NextSample
        PROVE  samples' \in Media
    <3>1. samples.files + 1 \in 0..5 /\ 1 \in 1..Codecs
      BY <2>1, <2>3 DEF Media
    <3> QED BY <2>1, <2>3, <3>1 DEF NextSample, Media
  <2>4. ASSUME samples.files < 5, CutShort
        PROVE  samples' \in Media
    <3>1. samples.files + 1 \in 0..5 /\ 1 \in 1..Codecs
      BY <2>1, <2>4 DEF Media
    <3>2. CASE samples' = [samples EXCEPT !.codec = 1]
      BY <2>1, <3>1, <3>2 DEF Media
    <3>3. CASE samples' = [NextSample EXCEPT !.cut = TRUE]
      BY <2>1, <3>1, <3>3 DEF Media, NextSample
    <3> QED BY <2>4, <3>2, <3>3 DEF CutShort
  <2>5. ASSUME samples.codec < Codecs, samples' = [samples EXCEPT !.codec = @ + 1]
        PROVE  samples' \in Media
    <3>1. samples.codec + 1 \in 1..Codecs
      BY <2>1, <2>5 DEF Media
    <3> QED BY <2>1, <2>5, <3>1 DEF Media
  <2>6. ASSUME samples' = [samples EXCEPT !.codec = 1]
        PROVE  samples' \in Media
    <3>1. 1 \in 1..Codecs
      BY <2>1
    <3> QED BY <2>1, <2>6, <3>1 DEF Media
  <2>7. ASSUME BuildVideo
        PROVE  samples' \in Media
    <3>1. samples.files \in {0, 1} /\ (TryCodec \/ CutShort)
      BY <2>7 DEF BuildVideo
    <3>2. samples.files < 5
      BY <3>1
    <3> QED BY <2>3, <2>4, <2>5, <2>6, <3>1, <3>2 DEF TryCodec
  <2>8. ASSUME BuildImage \/ WriteReadme
        PROVE  samples' \in Media
    <3>1. samples.files \in {2, 3, 4} /\ (samples' = NextSample \/ CutShort)
      BY <2>8 DEF BuildImage, WriteReadme
    <3>2. samples.files < 5
      BY <3>1
    <3> QED BY <2>3, <2>4, <3>1, <3>2
  <2> QED BY <2>2, <2>7, <2>8 DEF FindSamples
<1> QED BY <1>1, <1>2, <1>3 DEF StoresInv, StoreSteps, LaterPhases, Ends, Media

----------------------------------------------------------------------------
(* The parts of the files a step leaves alone, when it does not go to a    *)
(* step that is about to change them.                                      *)
LEMMA TypesFrame ==
  ASSUME SetupTypeOK, Goes, failed' \in BOOLEAN,
         reqs' \in Versions, lock' \in Versions, found' \in Versions \union {None},
         venv' \in Venvs, node' \in NodeModules, host' \in Hosts,
         db' \in Databases, training' \in Trainings
  PROVE  SetupTypeOK'
BY DEF SetupTypeOK, Goes, Venvs, NodeModules, Hosts, Databases, Trainings

(* Other phases leave the environment's invariant alone.                   *)
LEMMA VenvFrame ==
  ASSUME VenvInv, UNCHANGED <<venv, host>>, pc' \notin VenvSteps
  PROVE  VenvInv'
BY DEF VenvInv, VenvSteps

(* Other phases leave that of node_modules alone.                          *)
LEMMA NodeFrame ==
  ASSUME NodeInv, UNCHANGED node, pc' \notin NodeSteps
  PROVE  NodeInv'
BY DEF NodeInv, NodeSteps

(* Other phases leave that of the data set alone.                          *)
LEMMA DatasetFrame ==
  ASSUME DatasetInv, UNCHANGED dataset, pc' \notin TrainingSteps \/ pc' = "segmenter"
  PROVE  DatasetInv'
BY DEF DatasetInv, TrainingSteps

(* Other phases leave that of training alone.                              *)
LEMMA TrainingFrame ==
  ASSUME TrainingInv, UNCHANGED <<weights, training>>, pc' \notin TrainingSteps \/ pc' = "segmenter"
  PROVE  TrainingInv'
BY DEF TrainingInv, TrainingSteps

(* Other phases leave that of the stores alone.                            *)
LEMMA StoresFrame ==
  ASSUME StoresInv, UNCHANGED <<detector, samples, db>>, pc' # "seed"
  PROVE  StoresInv'
BY DEF StoresInv

----------------------------------------------------------------------------
(* Every step of the set-up keeps what is known of the files, and goes on  *)
(* within the set-up or ends the launch.                                   *)
Moves == /\ pc \in BeforeServers /\ pc' \in BeforeServers \union Ends /\ Goes
         /\ args' = args

(* The steps of the environment's phase keep all of it.                    *)
LEMMA VenvPhaseKeeps ==
  ASSUME ProvisionInv,
         Preflight \/ CreateVenv \/ CheckVenv \/ PipUpgrade \/ PipInstall \/ StampVenv
  PROVE  ProvisionInv' /\ Moves
<1> USE DEF ProvisionInv
<1>1. /\ venv' \in Venvs /\ host' \in Hosts /\ VenvInv'
      /\ pc' \in LaterPhases \union VenvSteps \union Ends /\ Goes
  <2>1. venv \in Venvs /\ host \in Hosts
    BY DEF SetupTypeOK
  <2>2. CASE Preflight
    <3>1. UNCHANGED venv
      BY <2>2 DEF Preflight
    <3> QED BY <2>1, <2>2, <3>1, PreflightKeeps DEF VenvSteps
  <2>3. CASE CreateVenv
    <3>1. UNCHANGED host
      BY <2>3 DEF CreateVenv
    <3> QED BY <2>1, <2>3, <3>1, CreateVenvKeeps
  <2>4. CASE CheckVenv
    <3>1. UNCHANGED host
      BY <2>4 DEF CheckVenv
    <3> QED BY <2>1, <2>4, <3>1, CheckVenvKeeps
  <2>5. CASE PipUpgrade
    <3>1. UNCHANGED <<venv, host>>
      BY <2>5 DEF PipUpgrade
    <3> QED BY <2>1, <2>5, <3>1, PipUpgradeKeeps
  <2>6. CASE PipInstall
    <3>1. UNCHANGED host
      BY <2>6 DEF PipInstall
    <3> QED BY <2>1, <2>6, <3>1, PipInstallKeeps
  <2>7. CASE StampVenv
    <3>1. UNCHANGED host
      BY <2>7 DEF StampVenv
    <3> QED BY <2>1, <2>7, <3>1, StampVenvKeeps
  <2> QED BY <2>2, <2>3, <2>4, <2>5, <2>6, <2>7
<1>2. /\ pc \in {"preflight"} \union VenvSteps
      /\ UNCHANGED <<args, failed, reqs, lock, node, detector, dataset, weights, training, db, samples>>
  BY DEF Preflight, CreateVenv, CheckVenv, PipUpgrade, PipInstall, StampVenv, VenvSteps
<1>3. found' \in {found, reqs, None}
  BY DEF Preflight, CreateVenv, CheckVenv, PipUpgrade, PipInstall, StampVenv
<1>4. SetupTypeOK'
  <2>1. found' \in Versions \union {None}
    BY <1>3 DEF SetupTypeOK
  <2> QED BY <1>1, <1>2, <2>1, TypesFrame DEF SetupTypeOK
<1>5. pc' \notin NodeSteps /\ (pc' \notin TrainingSteps) /\ pc' # "seed"
  BY <1>1 DEF LaterPhases, VenvSteps, NodeSteps, TrainingSteps, Ends
<1>6. NodeInv' /\ DatasetInv' /\ TrainingInv' /\ StoresInv'
  BY <1>2, <1>5, NodeFrame, DatasetFrame, TrainingFrame, StoresFrame
<1>7. Moves
  BY <1>1, <1>2 DEF Moves, LaterPhases, VenvSteps, BeforeServers
<1> QED BY <1>1, <1>4, <1>6, <1>7

(* So do the steps of the frontend's phase.                                *)
LEMMA NodePhaseKeeps ==
  ASSUME ProvisionInv, CheckNode \/ NpmCi \/ NpmInstall \/ StampNode
  PROVE  ProvisionInv' /\ Moves
<1> USE DEF ProvisionInv
<1>1. /\ node' \in NodeModules /\ lock' \in Versions /\ NodeInv'
      /\ pc' \in LaterPhases \union NodeSteps \union Ends /\ Goes
  <2>1. node \in NodeModules /\ lock \in Versions
    BY DEF SetupTypeOK
  <2>2. CASE CheckNode
    <3>1. UNCHANGED lock
      BY <2>2 DEF CheckNode
    <3> QED BY <2>1, <2>2, <3>1, CheckNodeKeeps
  <2>3. CASE NpmCi
    <3>1. UNCHANGED lock
      BY <2>3 DEF NpmCi
    <3> QED BY <2>1, <2>3, <3>1, NpmCiKeeps
  <2>4. CASE NpmInstall
    BY <2>1, <2>4, NpmInstallKeeps
  <2>5. CASE StampNode
    <3>1. UNCHANGED lock
      BY <2>5 DEF StampNode
    <3> QED BY <2>1, <2>5, <3>1, StampNodeKeeps
  <2> QED BY <2>2, <2>3, <2>4, <2>5
<1>2. /\ pc \in {"frontend"} \union NodeSteps
      /\ UNCHANGED <<args, failed, found, host, reqs, venv, detector, dataset, weights, training, db,
                     samples>>
  BY DEF CheckNode, NpmCi, NpmInstall, StampNode, NodeSteps
<1>3. SetupTypeOK'
  BY <1>1, <1>2, TypesFrame DEF SetupTypeOK
<1>4. pc' \notin VenvSteps /\ (pc' \notin TrainingSteps) /\ pc' # "seed"
  BY <1>1 DEF LaterPhases, VenvSteps, NodeSteps, TrainingSteps, Ends
<1>5. VenvInv' /\ DatasetInv' /\ TrainingInv' /\ StoresInv'
  BY <1>2, <1>4, VenvFrame, DatasetFrame, TrainingFrame, StoresFrame
<1>6. Moves
  BY <1>1, <1>2 DEF Moves, LaterPhases, NodeSteps, BeforeServers
<1> QED BY <1>1, <1>3, <1>5, <1>6

(* So do the steps of data set and training.                               *)
LEMMA TrainingPhaseKeeps ==
  ASSUME ProvisionInv,
         \/ BuildDataset
         \/ BuildSplit("train", "train split", "val split") \/ BuildSplit("val", "val split", "manifest")
         \/ WriteManifest \/ StartTraining
         \/ (\E score \in Scores : TrainEpoch(score)) \/ SaveCheckpoint \/ TrainingEnds
  PROVE  ProvisionInv' /\ Moves
<1> USE DEF ProvisionInv
<1>1. training \in Trainings
  BY DEF SetupTypeOK
<1>2. /\ pc \in TrainingSteps
      /\ UNCHANGED <<args, failed, found, host, reqs, lock, venv, node, detector, db, samples>>
  BY DEF BuildDataset, BuildSplit, WriteManifest, StartTraining, TrainEpoch, SaveCheckpoint,
         TrainingEnds, TrainingSteps
<1>3. /\ DatasetInv' /\ TrainingInv' /\ training' \in Trainings
      /\ pc' \in LaterPhases \union TrainingSteps \union Ends /\ Goes
  <2>1. CASE BuildDataset
    BY <2>1, BuildDatasetKeeps
  <2>2. CASE \/ BuildSplit("train", "train split", "val split")
             \/ BuildSplit("val", "val split", "manifest")
    <3>1. UNCHANGED training
      BY <2>2 DEF BuildSplit
    <3> QED BY <1>1, <2>2, <3>1, BuildSplitKeeps
  <2>3. CASE WriteManifest
    <3>1. UNCHANGED training
      BY <2>3 DEF WriteManifest
    <3> QED BY <1>1, <2>3, <3>1, WriteManifestKeeps
  <2>4. CASE StartTraining
    <3>1. UNCHANGED training
      BY <2>4 DEF StartTraining
    <3> QED BY <1>1, <2>4, <3>1, StartTrainingKeeps
  <2>5. ASSUME NEW score \in Scores, TrainEpoch(score)
        PROVE  /\ DatasetInv' /\ TrainingInv' /\ training' \in Trainings
               /\ pc' \in LaterPhases \union TrainingSteps \union Ends /\ Goes
    BY <1>1, <2>5, TrainEpochKeeps
  <2>6. CASE SaveCheckpoint
    <3>1. UNCHANGED training
      BY <2>6 DEF SaveCheckpoint
    <3> QED BY <1>1, <2>6, <3>1, SaveCheckpointKeeps
  <2>7. CASE TrainingEnds
    BY <2>7, TrainingEndsKeeps
  <2> QED BY <2>1, <2>2, <2>3, <2>4, <2>5, <2>6, <2>7
<1>4. SetupTypeOK'
  BY <1>2, <1>3, TypesFrame DEF SetupTypeOK
<1>5. pc' \notin VenvSteps /\ pc' \notin NodeSteps /\ pc' # "seed"
  BY <1>3 DEF LaterPhases, VenvSteps, NodeSteps, TrainingSteps, Ends
<1>6. VenvInv' /\ NodeInv' /\ StoresInv'
  BY <1>2, <1>5, VenvFrame, NodeFrame, StoresFrame
<1>7. Moves
  <2>1. LaterPhases \union TrainingSteps \subseteq BeforeServers
    BY DEF LaterPhases, TrainingSteps, BeforeServers
  <2> QED BY <1>2, <1>3, <2>1 DEF Moves
<1> QED BY <1>3, <1>4, <1>6, <1>7

(* So do the steps of detector, database and samples.                      *)
LEMMA StoresPhaseKeeps ==
  ASSUME ProvisionInv,
         \/ FetchDetector
         \/ ResetDatabase \/ Migrate \/ Seed
         \/ FindSamples \/ BuildVideo \/ BuildImage \/ WriteReadme
  PROVE  ProvisionInv' /\ Moves
<1> USE DEF ProvisionInv
<1>1. db \in Databases
  BY DEF SetupTypeOK
<1>2. /\ pc \in {"ml", "database", "samples"} \union StoreSteps
      /\ UNCHANGED <<args, failed, found, host, reqs, lock, venv, node, dataset, weights, training>>
  BY DEF FetchDetector, ResetDatabase, Migrate, Seed, FindSamples, BuildVideo, BuildImage,
         WriteReadme, StoreSteps
<1>3. /\ db' \in Databases /\ StoresInv'
      /\ pc' \in LaterPhases \union StoreSteps \union Ends /\ Goes
  <2>1. CASE FetchDetector
    <3>1. UNCHANGED db
      BY <2>1 DEF FetchDetector
    <3> QED BY <1>1, <2>1, <3>1, FetchDetectorKeeps
  <2>2. CASE ResetDatabase \/ Migrate \/ Seed
    BY <1>1, <2>2, DatabaseKeeps
  <2>3. CASE FindSamples \/ BuildVideo \/ BuildImage \/ WriteReadme
    <3>1. UNCHANGED db
      BY <2>3 DEF FindSamples, BuildVideo, BuildImage, WriteReadme
    <3> QED BY <1>1, <2>3, <3>1, SamplesKeep
  <2> QED BY <2>1, <2>2, <2>3
<1>4. SetupTypeOK'
  BY <1>2, <1>3, TypesFrame DEF SetupTypeOK
<1>5. pc' \notin VenvSteps /\ pc' \notin NodeSteps /\ (pc' \notin TrainingSteps \/ pc' = "segmenter")
  BY <1>3 DEF LaterPhases, VenvSteps, NodeSteps, TrainingSteps, StoreSteps, Ends
<1>6. VenvInv' /\ NodeInv' /\ DatasetInv' /\ TrainingInv'
  BY <1>2, <1>5, VenvFrame, NodeFrame, DatasetFrame, TrainingFrame
<1>7. Moves
  BY <1>2, <1>3 DEF Moves, LaterPhases, StoreSteps, BeforeServers
<1> QED BY <1>3, <1>4, <1>6, <1>7

(* So do the phases that change nothing on disk.                           *)
LEMMA OtherPhasesKeep ==
  ASSUME ProvisionInv, FindSegmenter \/ RunTests
  PROVE  ProvisionInv' /\ Moves
<1> USE DEF ProvisionInv
<1>1. CASE FindSegmenter
  <2>1. pc = "segmenter" /\ pc' \in LaterPhases \union {"dataset"} /\ Goes
    BY <1>1 DEF FindSegmenter, BeforeServers
  <2>2. UNCHANGED <<args, failed, found, host, reqs, lock, venv, node, detector, dataset, weights,
                    training, db, samples>>
    BY <1>1 DEF FindSegmenter
  <2>3. DatasetInv' /\ TrainingInv'
    BY <2>1, <2>2 DEF DatasetInv, TrainingInv, LaterPhases
  <2>4. pc' \notin VenvSteps /\ pc' \notin NodeSteps /\ pc' # "seed"
    BY <2>1 DEF LaterPhases, VenvSteps, NodeSteps
  <2>5. VenvInv' /\ NodeInv' /\ StoresInv'
    BY <2>2, <2>4, VenvFrame, NodeFrame, StoresFrame
  <2>6. SetupTypeOK'
    BY <2>1, <2>2, TypesFrame DEF SetupTypeOK
  <2> QED BY <2>1, <2>2, <2>3, <2>5, <2>6 DEF Moves, LaterPhases, BeforeServers
<1>2. CASE RunTests
  <2>1. pc = "tests" /\ pc' \in LaterPhases /\ Goes /\ failed' \in BOOLEAN
    BY <1>2 DEF RunTests
  <2>2. UNCHANGED <<args, found, host, reqs, lock, venv, node, detector, dataset, weights,
                    training, db, samples>>
    BY <1>2 DEF RunTests
  <2>3. pc' \notin VenvSteps /\ pc' \notin NodeSteps /\ pc' # "seed" /\ pc' \notin TrainingSteps
    BY <2>1 DEF LaterPhases, VenvSteps, NodeSteps, TrainingSteps
  <2>4. VenvInv' /\ NodeInv' /\ DatasetInv' /\ TrainingInv' /\ StoresInv'
    BY <2>2, <2>3, VenvFrame, NodeFrame, DatasetFrame, TrainingFrame, StoresFrame
  <2>5. SetupTypeOK'
    BY <2>1, <2>2, TypesFrame DEF SetupTypeOK
  <2> QED BY <2>1, <2>2, <2>4, <2>5 DEF Moves, LaterPhases, BeforeServers
<1> QED BY <1>1, <1>2

(* The set-up is over before any server is started.                        *)
LEMMA SetUpKeeps ==
  ASSUME ProvisionInv, LaunchInv, SetUp
  PROVE  ProvisionInv' /\ LaunchInv'
<1>1. ProvisionInv' /\ Moves
  BY VenvPhaseKeeps, NodePhaseKeeps, TrainingPhaseKeeps, StoresPhaseKeeps, OtherPhasesKeep
     DEF SetUp, SetupStep
<1> USE DEF LaunchInv
<1>2. /\ UNCHANGED <<server, stop, alive, args>>
      /\ pc \in BeforeServers /\ pc' \in BeforeServers \union Ends /\ Goes
  BY <1>1 DEF SetUp, Moves, supervision
<1>3. ServersTypeOK'
  BY <1>2 DEF ServersTypeOK, Ends
<1>4. ServersInv'
  BY <1>2 DEF ServersInv, BeforeServers, Ends, Running, Died
<1>5. CodeInv'
  BY <1>2 DEF CodeInv, Goes, BeforeServers, Ends
<1> QED BY <1>1, <1>3, <1>4, <1>5

----------------------------------------------------------------------------
(* What the launcher does after the set-up, and what happens around it,    *)
(* leaves the files alone.                                                 *)
AboutToChange == VenvSteps \union NodeSteps \union TrainingSteps \union StoreSteps

(* The environment's invariant depends on the environment alone.           *)
LEMMA VenvSame ==
  ASSUME VenvInv, UNCHANGED <<pc, venv, host, found, reqs>>
  PROVE  VenvInv'
<1>1. VenvInv' = VenvInv
  BY Zenon DEF VenvInv
<1> QED BY <1>1

(* Steps that provision nothing keep what was provisioned.                 *)
LEMMA ProvisionStays ==
  ASSUME ProvisionInv, UNCHANGED provisions, failed' \in BOOLEAN, code' \in {0, 1, 130},
         pc' = pc \/ pc' \notin AboutToChange
  PROVE  ProvisionInv'
<1> USE DEF ProvisionInv
<1>1. UNCHANGED <<args, found, host, reqs, lock, venv, node, detector, dataset, weights, training,
                  db, samples>>
  BY DEF provisions
<1>2. SetupTypeOK'
  BY <1>1 DEF SetupTypeOK, Venvs, NodeModules, Hosts, Databases, Trainings
<1>3. CASE pc' = pc
  <2>1. VenvInv'
    <3>1. UNCHANGED <<pc, venv, host, found, reqs>>
      BY <1>1, <1>3
    <3> QED BY <3>1, VenvSame
  <2>2. NodeInv'
    BY <1>1, <1>3 DEF NodeInv
  <2>3. DatasetInv'
    BY <1>1, <1>3 DEF DatasetInv
  <2>4. TrainingInv'
    BY <1>1, <1>3 DEF TrainingInv
  <2>5. StoresInv'
    BY <1>1, <1>3 DEF StoresInv
  <2> QED BY <1>2, <2>1, <2>2, <2>3, <2>4, <2>5
<1>4. CASE pc' \notin AboutToChange
  <2>1. pc' \notin VenvSteps /\ pc' \notin NodeSteps /\ pc' \notin TrainingSteps /\ pc' # "seed"
    BY <1>4 DEF AboutToChange, StoreSteps
  <2> QED BY <1>1, <1>2, <2>1, VenvFrame, NodeFrame, DatasetFrame, TrainingFrame, StoresFrame
<1> QED BY <1>3, <1>4

(* main: a new launch knows of no interpreter yet.                         *)
LEMMA LaunchKeeps ==
  ASSUME ProvisionInv, LaunchInv, Launch
  PROVE  ProvisionInv' /\ LaunchInv'
<1>1. SetupTypeOK'
  <2>1. NoHost \in Hosts /\ failed' = FALSE /\ host' = NoHost /\ Goes
    BY DEF Launch, NoHost, Hosts, Goes
  <2>2. UNCHANGED <<found, reqs, lock, venv, node, db, training>>
    BY DEF Launch
  <2> QED BY <2>1, <2>2, TypesFrame DEF ProvisionInv, SetupTypeOK
<1>2. VenvInv' /\ NodeInv' /\ DatasetInv' /\ TrainingInv' /\ StoresInv'
  <2> USE DEF ProvisionInv
  <2>1. /\ UNCHANGED <<found, reqs, lock, venv, node, dataset, detector, weights, training, db, samples>>
        /\ pc' \notin VenvSteps /\ pc' \notin NodeSteps /\ pc' \notin TrainingSteps /\ pc' # "seed"
    BY DEF Launch, VenvSteps, NodeSteps, TrainingSteps
  <2>2. VenvInv'
    BY <2>1 DEF VenvInv, VenvSteps
  <2> QED BY <2>1, <2>2, NodeFrame, DatasetFrame, TrainingFrame, StoresFrame
<1>3. \A s \in Names : server'[s] \in Servers /\ server'[s].leader = "none" /\ server'[s].helper = "none"
  BY LauncherAssumption DEF Launch, NotStarted, Servers, Names
<1>4. server' \in [Names -> Servers]
  BY <1>3 DEF Launch
<1>5. LaunchInv'
  BY <1>3, <1>4 DEF Launch, LaunchInv, ServersTypeOK, ServersInv, CodeInv, BeforeServers, Running, Died
<1> QED BY <1>1, <1>2, <1>5 DEF ProvisionInv

(* The developer's edit of a file that is being installed is remembered.   *)
LEMMA EditKeeps ==
  ASSUME ProvisionInv, LaunchInv, Edit, UNCHANGED supervision
  PROVE  ProvisionInv' /\ LaunchInv'
<1> USE DEF ProvisionInv
<1>1. UNCHANGED <<pc, args, code, failed, found, host, detector, dataset, weights, training, db,
                  samples>>
  BY DEF Edit
<1>2. venv \in Venvs /\ node \in NodeModules
  BY DEF SetupTypeOK
<1>3. reqs' \in Versions /\ lock' \in Versions
  BY DEF Edit, SetupTypeOK
<1>4. venv' \in Venvs /\ VenvInv'
  <2>1. CASE UNCHANGED <<reqs, venv>>
    BY <1>1, <1>2, <2>1 DEF VenvInv
  <2>2. CASE pc \in {"pip upgrade", "pip install"} /\ venv' = [venv EXCEPT !.raced = TRUE]
    BY <1>1, <1>2, <2>2 DEF VenvInv, Venvs
  <2>3. CASE pc \notin {"pip upgrade", "pip install", "pip stamp"} /\ UNCHANGED venv
    BY <1>1, <1>2, <2>3 DEF VenvInv
  <2> QED BY <2>1, <2>2, <2>3 DEF Edit
<1>5. node' \in NodeModules /\ NodeInv'
  <2>1. CASE UNCHANGED <<lock, node>>
    BY <1>1, <1>2, <2>1 DEF NodeInv
  <2>2. CASE node' = [node EXCEPT !.raced = TRUE]
    BY <1>1, <1>2, <2>2 DEF NodeInv, NodeModules
  <2>3. CASE pc # "npm stamp" /\ UNCHANGED node
    BY <1>1, <1>2, <2>3 DEF NodeInv
  <2> QED BY <2>1, <2>2, <2>3 DEF Edit
<1>6. SetupTypeOK'
  BY <1>1, <1>3, <1>4, <1>5 DEF SetupTypeOK
<1>7. DatasetInv' /\ TrainingInv' /\ StoresInv'
  <2>1. DatasetInv'
    BY <1>1 DEF DatasetInv
  <2>2. TrainingInv'
    BY <1>1 DEF TrainingInv
  <2>3. StoresInv'
    BY <1>1 DEF StoresInv
  <2> QED BY <2>1, <2>2, <2>3
<1>8. LaunchInv'
  BY <1>1 DEF LaunchInv, ServersTypeOK, ServersInv, CodeInv, supervision, Running, Died, First
<1> QED BY <1>4, <1>5, <1>6, <1>7, <1>8

----------------------------------------------------------------------------
(* Phases 7 to the end of the launch, where no server changes.             *)
LaunchParts == {"shutdown", "stopping", "grace", "over", "off"}

(* The places of phases 7 to 10 are neither of the set-up nor of the end.  *)
LEMMA WithServersAre ==
  ASSUME NEW place \in WithServers
  PROVE  place \notin BeforeServers /\ place \notin LaunchParts /\ place # "return"
BY DEF WithServers, BeforeServers, LaunchParts

USE DEF LaunchParts

(* None of them is about to change the files.                              *)
LEMMA LaterPlacesAre ==
  ASSUME NEW place \in WithServers \union LaunchParts
  PROVE  place \notin AboutToChange
BY DEF WithServers, AboutToChange, VenvSteps, NodeSteps, TrainingSteps, StoreSteps

(* Steps that start and end no process keep both invariants.               *)
LEMMA QuietStepsKeep ==
  ASSUME ProvisionInv, LaunchInv,
         \/ Return \/ Settle \/ AwaitServers \/ OpenBrowser \/ Supervise \/ Look
         \/ BeginShutdown \/ Exit \/ Perish \/ Signal
  PROVE  ProvisionInv' /\ LaunchInv'
<1> USE DEF LaunchInv
<1>1. code \in {0, 1, 130} /\ failed \in BOOLEAN
  BY DEF ProvisionInv, SetupTypeOK
<1>2. UNCHANGED <<provisions, server>>
  BY DEF Return, Settle, AwaitServers, Await, OpenBrowser, Supervise, Look, BeginShutdown, Exit,
     Perish, Signal, supervision, setupVars, provisions
<1>3. args' = args
  BY <1>2 DEF provisions
<1>4. CASE Return
  <2>1. /\ pc = "return" /\ pc' = "shutdown" /\ UNCHANGED <<failed, supervision>>
        /\ code' \in {0, 1}
    BY <1>4 DEF Return, Raise
  <2>2. ProvisionInv'
    BY <1>1, <1>2, <2>1, ProvisionStays, LaterPlacesAre
  <2>3. LaunchInv'
    BY <1>2, <1>3, <2>1
       DEF ServersTypeOK, ServersInv, CodeInv, supervision, BeforeServers, Running, Died
  <2> QED BY <2>2, <2>3
<1>5. CASE Settle \/ AwaitServers \/ OpenBrowser
  <2>1. /\ pc \in WithServers /\ UNCHANGED <<failed, supervision>>
        /\ \/ pc' \in WithServers /\ UNCHANGED code
           \/ pc' = "shutdown" /\ code' = 1
    BY <1>5 DEF Settle, AwaitServers, Await, OpenBrowser, Proceed, Fail, Raise, WithServers
  <2>2. ProvisionInv'
    BY <1>1, <1>2, <2>1, ProvisionStays, LaterPlacesAre
  <2>3. LaunchInv'
    <3>1. UNCHANGED <<server, stop, alive>>
      BY <2>1 DEF supervision
    <3>2. ServersTypeOK'
      BY <2>1, <3>1 DEF ServersTypeOK, WithServers
    <3>3. ServersInv'
      BY <2>1, <3>1 DEF ServersInv, WithServers, BeforeServers, Running, Died
    <3>4. CodeInv'
      BY <1>3, <2>1, <3>1, WithServersAre DEF CodeInv
    <3> QED BY <3>2, <3>3, <3>4
  <2> QED BY <2>2, <2>3
<1>6. CASE Supervise \/ Look
  <2>1. /\ pc \in WithServers /\ failed' \in BOOLEAN /\ UNCHANGED supervision
        /\ \/ pc' \in WithServers /\ UNCHANGED code
           \/ pc' = "shutdown" /\ code' \in {0, 1} /\ (code' = 0 => stop)
    <3>1. CASE Supervise
      BY <1>1, <3>1 DEF Supervise, Proceed, Raise, WithServers
    <3>2. CASE Look
      <4>1. /\ pc = "look" /\ UNCHANGED supervision
            /\ \/ pc' = "shutdown" /\ code' = 1 /\ failed' = TRUE
               \/ pc' = "supervise" /\ UNCHANGED <<code, failed>>
        BY <3>2 DEF Look, Proceed, Fail, Raise
      <4>2. CASE pc' = "shutdown" /\ code' = 1 /\ failed' = TRUE
        BY <4>1, <4>2 DEF WithServers
      <4>3. CASE pc' = "supervise" /\ UNCHANGED <<code, failed>>
        BY <1>1, <4>1, <4>3 DEF WithServers
      <4> QED BY <4>1, <4>2, <4>3
    <3> QED BY <1>6, <3>1, <3>2
  <2>2. ProvisionInv'
    BY <1>1, <1>2, <2>1, ProvisionStays, LaterPlacesAre
  <2>3. LaunchInv'
    <3>1. UNCHANGED <<server, stop, alive>>
      BY <2>1 DEF supervision
    <3>2. ServersTypeOK'
      BY <2>1, <3>1 DEF ServersTypeOK, WithServers
    <3>3. ServersInv'
      BY <2>1, <3>1 DEF ServersInv, WithServers, BeforeServers, Running, Died
    <3>4. CodeInv'
      BY <1>3, <2>1, <3>1, WithServersAre DEF CodeInv
    <3> QED BY <3>2, <3>3, <3>4
  <2> QED BY <2>2, <2>3
<1>7. CASE BeginShutdown \/ Exit \/ Perish
  <2>1. /\ pc' \in {"stopping", "off"} /\ UNCHANGED <<code, failed, stop>>
        /\ pc' = "stopping" => pc = "shutdown" /\ alive' = {s \in Names : Running(s)}
        /\ alive' \subseteq Names
    BY <1>7 DEF BeginShutdown, Exit, Perish, supervision, ServersTypeOK
  <2>2. ProvisionInv'
    BY <1>1, <1>2, <2>1, ProvisionStays, LaterPlacesAre
  <2>3. LaunchInv'
    BY <1>2, <1>3, <2>1 DEF ServersTypeOK, ServersInv, CodeInv, WithServers, BeforeServers, Running, Died
  <2> QED BY <2>2, <2>3
<1>8. CASE Signal
  <2>1. /\ UNCHANGED <<pc, code, failed, alive>> /\ stop' = TRUE /\ pc \notin BeforeServers
    BY <1>8 DEF Signal, setupVars, Handled, BeforeServers
  <2>2. ProvisionInv'
    BY <1>1, <1>2, <2>1, ProvisionStays, LaterPlacesAre
  <2>3. LaunchInv'
    BY <1>2, <1>3, <2>1 DEF ServersTypeOK, ServersInv, CodeInv, Running, Died, First
  <2> QED BY <2>2, <2>3
<1> QED BY <1>4, <1>5, <1>6, <1>7, <1>8

----------------------------------------------------------------------------
(* A server that changes, alone.                                           *)
LEMMA ServerChanges ==
  ASSUME server \in [Names -> Servers], NEW s \in Names, NEW new \in Servers,
         server' = [server EXCEPT ![s] = new]
  PROVE  /\ server' \in [Names -> Servers]
         /\ server'[s] = new /\ \A n \in Names \ {s} : server'[n] = server[n]
OBVIOUS

(* What is to be known of a server that changes.                           *)
Sound(r) == /\ r \in Servers
            /\ r.helper # "none" => r.leader # "none"
            /\ r.leader = "exited" => r.ours \/ r.alone

(* phase_servers: the ports of servers that have not been started.         *)
LEMMA ResolvePortsKeeps ==
  ASSUME ProvisionInv, LaunchInv, ResolvePorts
  PROVE  ProvisionInv' /\ LaunchInv'
<1> USE DEF LaunchInv
<1>1. code \in {0, 1, 130} /\ failed \in BOOLEAN
  BY DEF ProvisionInv, SetupTypeOK
<1>2. /\ pc = "servers" /\ UNCHANGED <<provisions, failed, stop, alive>>
      /\ \/ pc' = "shutdown" /\ code' = 1 /\ UNCHANGED server
         \/ pc' = "start" /\ UNCHANGED code
    BY DEF ResolvePorts, Fail, Proceed, Raise
<1>3. args' = args
  BY <1>2 DEF provisions
<1>4. ProvisionInv'
  BY <1>1, <1>2, ProvisionStays, LaterPlacesAre DEF WithServers
<1>5. ASSUME NEW p \in Nat \ {0}, FreePorts(p) # {}
      PROVE  Min(FreePorts(p)) \in 1..MaxPort
  <2>1. FreePorts(p) \subseteq Nat /\ FreePorts(p) \subseteq 1..MaxPort
    BY DEF FreePorts
  <2> QED BY <1>5, <2>1, MinIsLeast
<1>6. CASE UNCHANGED server
  <2>1. ServersTypeOK'
    BY <1>2, <1>6 DEF ServersTypeOK, WithServers
  <2>2. ServersInv'
    BY <1>2, <1>6 DEF ServersInv, BeforeServers, Running, Died
  <2>3. CodeInv'
    BY <1>2, <1>3 DEF CodeInv
  <2> QED BY <1>4, <2>1, <2>2, <2>3
<1>7. ASSUME NEW api \in 1..MaxPort, NEW web \in 1..MaxPort, pc' = "start",
             server' = [s \in Names |-> NotStarted(IF s = "api" THEN api ELSE web)]
      PROVE  LaunchInv'
  <2>1. \A s \in Names : server'[s] \in Servers /\ server'[s].leader = "none" /\ server'[s].helper = "none"
    BY <1>7 DEF NotStarted, Servers, Names
  <2>2. server' \in [Names -> Servers]
    BY <1>7, <2>1
  <2> QED BY <1>2, <1>3, <1>7, <2>1, <2>2
          DEF ServersTypeOK, ServersInv, CodeInv, WithServers, BeforeServers, Running, Died
<1>8. ApiPort \in 1..MaxPort /\ WebPort \in 1..MaxPort /\ WebPort + 1 \in Nat \ {0}
  BY LauncherAssumption
<1> DEFINE api == IF WantsBackend THEN Min(FreePorts(ApiPort)) ELSE ApiPort
           from == IF WebPort = api THEN WebPort + 1 ELSE WebPort
           web == IF WantsFrontend THEN Min(FreePorts(from)) ELSE WebPort
<1>9. ASSUME ~(UNCHANGED server)
      PROVE  LaunchInv'
  <2>1. /\ WantsBackend => FreePorts(ApiPort) # {}
        /\ WantsFrontend => FreePorts(from) # {}
        /\ pc' = "start"
        /\ server' = [s \in Names |-> NotStarted(IF s = "api" THEN api ELSE web)]
    BY <1>9 DEF ResolvePorts, Proceed
  <2>2. from \in Nat \ {0}
    BY <1>8
  <2>3. api \in 1..MaxPort
    BY <1>5, <1>8, <2>1
  <2> HIDE DEF api, from
  <2>4. web \in 1..MaxPort
    BY <1>5, <1>8, <2>1, <2>2
  <2> HIDE DEF web
  <2> QED BY <1>7, <2>1, <2>3, <2>4
<1> QED BY <1>4, <1>6, <1>9

(* A server that starts, ends or is sent a signal: the others are as they  *)
(* were.  From here on, steps at which nothing but one server, stop, alive *)
(* and the place change.                                                   *)
LEMMA OneServerKeeps ==
  ASSUME ProvisionInv, LaunchInv, UNCHANGED <<provisions, code, failed, stop>>,
         pc \notin BeforeServers, pc' \notin BeforeServers,
         pc' = pc \/ pc' \in WithServers \union LaunchParts, alive' \subseteq Names,
         NEW s \in Names, NEW new, Sound(new), server' = [server EXCEPT ![s] = new],
         pc' \in {"shutdown", "stopping", "grace", "over"} =>
           pc \in {"shutdown", "stopping", "grace", "over"},
         pc' \in {"stopping", "grace"} =>
           /\ new.leader = "running" => s \in alive' \/ new.killed
           /\ \A n \in Names \ {s} : Running(n) => n \in alive' \/ server[n].killed,
         pc' = "grace" => alive' # {} /\ server'[First(alive')].ours,
         pc' = "over" =>
           /\ new.leader = "running" => new.killed
           /\ \A n \in Names \ {s} : Running(n) => server[n].killed
  PROVE  ProvisionInv' /\ LaunchInv'
<1> USE DEF LaunchInv
<1>1. code \in {0, 1, 130} /\ failed \in BOOLEAN
  BY DEF ProvisionInv, SetupTypeOK
<1>2. args' = args
  BY DEF provisions
<1>3. /\ server' \in [Names -> Servers]
      /\ server'[s] = new /\ \A n \in Names \ {s} : server'[n] = server[n]
  BY ServerChanges DEF ServersTypeOK, Sound
<1>4. pc' = pc \/ pc' \notin AboutToChange
  BY LaterPlacesAre
<1>5. ProvisionInv'
  BY <1>1, <1>4, ProvisionStays
<1>6. ServersTypeOK'
  BY <1>3 DEF ServersTypeOK, Sound
<1>7. ServersInv'
  BY <1>3 DEF ServersInv, Sound, Running, Died
<1>8. CodeInv'
  <2>1. pc' # "return"
    BY DEF BeforeServers
  <2> QED BY <1>2, <2>1 DEF CodeInv
<1> QED BY <1>5, <1>6, <1>7, <1>8


(* A server that changes by itself, wherever the launcher is.              *)
LEMMA ServerByItself ==
  ASSUME ProvisionInv, LaunchInv, UNCHANGED <<pc, provisions, code, failed, stop, alive>>,
         NEW s \in Names, server[s].leader # "none",
         NEW new, Sound(new), server' = [server EXCEPT ![s] = new],
         new.leader = server[s].leader \/ new.leader = "exited",
         new.ours = server[s].ours, new.killed = server[s].killed
  PROVE  ProvisionInv' /\ LaunchInv'
<1> USE DEF LaunchInv
<1>1. pc \notin BeforeServers
  BY DEF ServersInv
<1>2. pc' \in WithServers \union LaunchParts /\ alive' \subseteq Names
  BY <1>1 DEF ServersTypeOK
<1>3. new.leader = "running" => Running(s)
  BY DEF Running
<1>4. pc = "grace" => alive' # {} /\ server'[First(alive')].ours
  <2>1. SUFFICES ASSUME pc = "grace"
                 PROVE  server'[First(alive)].ours /\ alive # {}
    OBVIOUS
  <2>2. server[First(alive)].ours /\ alive # {} /\ First(alive) \in Names
    BY <2>1 DEF ServersInv, ServersTypeOK, First, Names
  <2>3. server'[s] = new /\ \A n \in Names \ {s} : server'[n] = server[n]
    BY ServerChanges DEF ServersTypeOK, Sound
  <2> QED BY <2>2, <2>3
<1>5. pc \in {"stopping", "grace"} =>
        /\ new.leader = "running" => s \in alive' \/ new.killed
        /\ \A n \in Names \ {s} : Running(n) => n \in alive' \/ server[n].killed
  BY <1>3 DEF ServersInv
<1>6. pc = "over" =>
        /\ new.leader = "running" => new.killed
        /\ \A n \in Names \ {s} : Running(n) => server[n].killed
  BY <1>3 DEF ServersInv
<1> QED BY <1>1, <1>2, <1>4, <1>5, <1>6, OneServerKeeps

(* The server of a name is a server, and sound.                            *)
LEMMA ServersAreSound ==
  ASSUME LaunchInv, NEW s \in Names
  PROVE  Sound(server[s])
BY DEF LaunchInv, ServersTypeOK, ServersInv, Sound, Servers, Died

(* A helper binds its port, or ends.                                       *)
LEMMA HelperKeeps ==
  ASSUME ProvisionInv, LaunchInv, NEW s \in Names, Bind(s) \/ HelperEnds(s)
  PROVE  ProvisionInv' /\ LaunchInv'
<1>1. UNCHANGED <<pc, provisions, code, failed, stop, alive>>
  BY DEF Bind, HelperEnds, setupVars, provisions
<1>2. PICK h \in {"listening", "exited"} :
        server' = [server EXCEPT ![s] = [server[s] EXCEPT !.helper = h]]
  BY DEF Bind, HelperEnds
<1>3. Sound(server[s]) /\ server[s].leader # "none"
  BY ServersAreSound DEF Sound, Bind, HelperEnds
<1> DEFINE new == [server[s] EXCEPT !.helper = h]
<1>4. Sound(new) /\ new.leader = server[s].leader
      /\ new.ours = server[s].ours /\ new.killed = server[s].killed
  BY <1>3 DEF Sound, Servers
<1> HIDE DEF new
<1> QED BY <1>1, <1>2, <1>3, <1>4, ServerByItself DEF new

(* A leader that ends was told to, or ends alone.                          *)
LEMMA LeaderKeeps ==
  ASSUME ProvisionInv, LaunchInv, NEW s \in Names, LeaderEnds(s)
  PROVE  ProvisionInv' /\ LaunchInv'
<1>1. UNCHANGED <<pc, provisions, code, failed, stop, alive>>
  BY DEF LeaderEnds
<1>2. Sound(server[s]) /\ server[s].leader # "none"
  BY ServersAreSound DEF Sound, LeaderEnds, Running
<1> DEFINE new == [server[s] EXCEPT !.leader = "exited", !.alone = ~server[s].ours]
<1>3. server' = [server EXCEPT ![s] = new]
  BY DEF LeaderEnds
<1>4. /\ Sound(new) /\ new.leader = "exited"
      /\ new.ours = server[s].ours /\ new.killed = server[s].killed
  BY <1>2 DEF Sound, Servers
<1> HIDE DEF new
<1> QED BY <1>1, <1>2, <1>3, <1>4, ServerByItself

(* Another program takes a port.                                           *)
LEMMA TakePortKeeps ==
  ASSUME ProvisionInv, LaunchInv, NEW p, TakePort(p)
  PROVE  ProvisionInv' /\ LaunchInv'
<1>1. UNCHANGED <<pc, provisions, code, failed, server, stop, alive, args>>
  BY DEF TakePort, provisions
<1>2. ProvisionInv'
  BY <1>1, ProvisionStays DEF ProvisionInv, SetupTypeOK
<1>3. LaunchInv'
  BY <1>1 DEF LaunchInv, ServersTypeOK, ServersInv, CodeInv, Running, Died, First
<1> QED BY <1>2, <1>3

(* First of a set of servers is one of them.                               *)
LEMMA FirstIsOne ==
  ASSUME NEW S, S \subseteq Names, S # {}
  PROVE  First(S) \in S
BY DEF First, Names

(* ManagedProcess.start                                                    *)
LEMMA StartServerKeeps ==
  ASSUME ProvisionInv, LaunchInv, StartServer
  PROVE  ProvisionInv' /\ LaunchInv'
<1> USE DEF LaunchInv
<1>1. First(ToStart) \in Names /\ pc = "start" /\ UNCHANGED <<provisions, failed, stop, alive, args>>
  BY FirstIsOne DEF StartServer, ToStart, provisions
<1>2. PICK s \in Names : s = First(ToStart)
  BY <1>1
<1>3. Sound(server[s])
  BY ServersAreSound
<1> DEFINE new == [server[s] EXCEPT !.leader = "running", !.helper = "starting"]
<1>4. Sound(new)
  BY <1>3 DEF Sound, Servers
<1>5. CASE server' = [server EXCEPT ![s] = new] /\ Proceed("start")
  <2>1. pc' = "start" /\ UNCHANGED code /\ alive' \subseteq Names
    BY <1>1, <1>5 DEF Proceed, ServersTypeOK
  <2>2. "start" \in WithServers /\ "start" \notin BeforeServers
    BY DEF WithServers, BeforeServers
  <2> HIDE DEF new
  <2> QED BY <1>1, <1>4, <1>5, <2>1, <2>2, OneServerKeeps
<1>6. CASE UNCHANGED server /\ pc' = "shutdown" /\ code' = 1
  <2>1. ProvisionInv'
    BY <1>1, <1>6, ProvisionStays, LaterPlacesAre DEF ProvisionInv, SetupTypeOK
  <2>2. ServersTypeOK'
    BY <1>1, <1>6 DEF ServersTypeOK
  <2>3. ServersInv'
    BY <1>1, <1>6 DEF ServersInv, BeforeServers, Running, Died
  <2>4. CodeInv'
    BY <1>1, <1>6 DEF CodeInv
  <2> QED BY <2>1, <2>2, <2>3, <2>4
<1> QED BY <1>2, <1>5, <1>6 DEF StartServer, Raise

(* stop: the next server that runs is sent SIGTERM.                        *)
LEMMA StopNextKeeps ==
  ASSUME ProvisionInv, LaunchInv, StopNext
  PROVE  ProvisionInv' /\ LaunchInv'
<1> USE DEF LaunchInv
<1>1. pc = "stopping" /\ UNCHANGED <<provisions, code, failed, stop, args>> /\ alive \subseteq Names
  BY DEF StopNext, provisions, ServersTypeOK
<1>2. code \in {0, 1, 130} /\ failed \in BOOLEAN
  BY DEF ProvisionInv, SetupTypeOK
<1>3. \A n \in Names : Running(n) => n \in alive \/ server[n].killed
  BY <1>1 DEF ServersInv
<1>4. CASE alive = {} \/ ~Running(First(alive))
  <2>1. /\ UNCHANGED server /\ pc' \in {"stopping", "over"} /\ alive' \subseteq Names
        /\ pc' = "over" => alive = {}
        /\ \A n \in Names : Running(n) => n \in alive' \/ server[n].killed
    BY <1>1, <1>3, <1>4 DEF StopNext
  <2>2. ProvisionInv'
    BY <1>1, <1>2, <2>1, ProvisionStays, LaterPlacesAre
  <2>3. ServersTypeOK'
    BY <1>1, <2>1 DEF ServersTypeOK
  <2>4. ServersInv'
    BY <1>1, <1>3, <2>1 DEF ServersInv, BeforeServers, Running, Died
  <2>5. CodeInv'
    BY <1>1, <2>1 DEF CodeInv
  <2> QED BY <2>2, <2>3, <2>4, <2>5
<1>5. CASE alive # {} /\ Running(First(alive))
  <2>1. PICK s \in Names : s = First(alive)
    BY <1>1, <1>5, FirstIsOne
  <2> DEFINE new == [server[s] EXCEPT !.ours = TRUE]
  <2>2. server' = [server EXCEPT ![s] = new] /\ pc' = "grace" /\ UNCHANGED alive
    BY <1>5, <2>1 DEF StopNext
  <2>3. Sound(new) /\ new.ours /\ new.killed = server[s].killed /\ new.leader = server[s].leader
    BY ServersAreSound DEF Sound, Servers
  <2>4. s \in alive
    BY <1>1, <1>5, <2>1, FirstIsOne
  <2> HIDE DEF new
  <2>5. server'[First(alive')].ours
    BY <2>1, <2>2, <2>3, ServerChanges DEF ServersTypeOK, Sound
  <2>6. "stopping" \notin BeforeServers /\ "grace" \notin BeforeServers
    BY DEF BeforeServers
  <2> QED BY <1>1, <1>3, <1>5, <2>2, <2>3, <2>4, <2>5, <2>6, OneServerKeeps
<1> QED BY <1>4, <1>5

(* ... and SIGKILL, if it is still there after ten seconds.                *)
LEMMA GraceKeeps ==
  ASSUME ProvisionInv, LaunchInv, Grace
  PROVE  ProvisionInv' /\ LaunchInv'
<1> USE DEF LaunchInv
<1>1. /\ pc = "grace" /\ pc' = "stopping" /\ UNCHANGED <<provisions, code, failed, stop, args>>
      /\ alive \subseteq Names /\ alive' = alive \ {First(alive)}
  BY DEF Grace, provisions, ServersTypeOK
<1>2. code \in {0, 1, 130} /\ failed \in BOOLEAN
  BY DEF ProvisionInv, SetupTypeOK
<1>3. \A n \in Names : Running(n) => n \in alive \/ server[n].killed
  BY <1>1 DEF ServersInv
<1>4. First(alive) \in Names /\ server[First(alive)].ours
  BY <1>1, FirstIsOne DEF ServersInv
<1>5. PICK s \in Names : s = First(alive)
  BY <1>4
<1>6. CASE ~Running(s) /\ UNCHANGED server
  <2>1. ProvisionInv'
    BY <1>1, <1>2, ProvisionStays, LaterPlacesAre
  <2>2. ServersTypeOK'
    BY <1>1, <1>6 DEF ServersTypeOK
  <2>3. ServersInv'
    BY <1>1, <1>3, <1>5, <1>6 DEF ServersInv, BeforeServers, Running, Died
  <2>4. CodeInv'
    BY <1>1 DEF CodeInv
  <2> QED BY <2>1, <2>2, <2>3, <2>4
<1>7. ASSUME NEW new, server' = [server EXCEPT ![s] = new], Sound(new), new.killed
      PROVE  ProvisionInv' /\ LaunchInv'
  <2>1. "stopping" \notin BeforeServers /\ "grace" \notin BeforeServers
    BY DEF BeforeServers
  <2>2. \A n \in Names \ {s} : Running(n) => n \in alive' \/ server[n].killed
    BY <1>1, <1>3, <1>5
  <2> QED BY <1>1, <1>7, <2>1, <2>2, OneServerKeeps
<1>8. Sound(server[s]) /\ server[s].ours
  BY <1>4, <1>5, ServersAreSound
<1> DEFINE dead == [server[s] EXCEPT !.leader = "exited", !.helper = "exited", !.killed = TRUE]
           left == [server[s] EXCEPT !.killed = TRUE]
<1>9. CASE server' = Killed(s)
  <2>1. server' = [server EXCEPT ![s] = dead]
    BY <1>9 DEF Killed
  <2>2. Sound(dead) /\ dead.killed
    BY <1>8 DEF Sound, Servers
  <2> HIDE DEF dead
  <2> QED BY <1>7, <2>1, <2>2
<1>10. CASE server' = [server EXCEPT ![s].killed = TRUE]
  <2>1. server' = [server EXCEPT ![s] = left]
    BY <1>10
  <2>2. Sound(left) /\ left.killed
    BY <1>8 DEF Sound, Servers
  <2> HIDE DEF left
  <2> QED BY <1>7, <2>1, <2>2
<1> QED BY <1>5, <1>6, <1>9, <1>10 DEF Grace

----------------------------------------------------------------------------
(* The sample media that may be there already.                             *)
LEMMA SamplesAtFirst ==
  ASSUME 1 \in 1..Codecs
  PROVE  NoSamples \in Media /\ AllSamples \in Media
<1>1. NoSamples \in Media
  BY DEF NoSamples, Media
<1>2. AllSamples = [NoSamples EXCEPT !.files = 5] /\ 5 \in 0..5
  BY DEF AllSamples
<1> QED BY <1>1, <1>2 DEF Media

(* It holds in the beginning, with nothing installed.                      *)
LEMMA ItHoldsAtFirst == Init => ProvisionInv /\ LaunchInv
<1> SUFFICES ASSUME Init PROVE ProvisionInv /\ LaunchInv
  OBVIOUS
<1> USE ProvisioningAssumption DEF Init, SetupInit
<1>1. Min(Versions) \in Versions
  BY MinIsLeast
<1>2. NoVenv \in Venvs /\ OldVenv \in Venvs /\ NoVenv.stamp = None /\ OldVenv.stamp = None
  <2>1. Floor - 1 \in Nat
    OBVIOUS
  <2> QED BY <2>1 DEF NoVenv, OldVenv, Venvs
<1>3. NoNode \in NodeModules /\ NoNode.stamp = None
  BY DEF NoNode, NodeModules
<1>4. NoHost \in Hosts
  BY DEF NoHost, Hosts
<1>5. db \in Databases /\ db.seeded = FALSE
  BY DEF Databases
<1>6. SetupTypeOK
  BY <1>1, <1>2, <1>3, <1>4, <1>5, UntrainedIs DEF SetupTypeOK
<1>7. VenvInv /\ NodeInv
  BY <1>2, <1>3 DEF VenvInv, NodeInv
<1>8. DatasetInv
  <2>1. 0 \in 0..Pairs /\ Pairs # 0
    OBVIOUS
  <2> QED BY <2>1 DEF DatasetInv
<1>9. TrainingInv
  BY UntrainedIs DEF TrainingInv
<1>10. StoresInv
  <2>1. 1 \in 1..Codecs
    OBVIOUS
  <2>2. NoSamples \in Media /\ AllSamples \in Media
    BY <2>1, SamplesAtFirst
  <2> QED BY <1>5, <2>2 DEF StoresInv, Media
<1>11. \A s \in Names : server[s] \in Servers /\ server[s].leader = "none" /\ server[s].helper = "none"
  BY LauncherAssumption DEF NotStarted, Servers, Names
<1>12. LaunchInv
  BY <1>11 DEF LaunchInv, ServersTypeOK, ServersInv, CodeInv, BeforeServers, Running, Died
<1> QED BY <1>6, <1>7, <1>8, <1>9, <1>10, <1>12 DEF ProvisionInv

(* Every step keeps it.                                                    *)
LEMMA EveryStepKeepsIt ==
  ProvisionInv /\ LaunchInv /\ [Next]_vars => ProvisionInv' /\ LaunchInv'
<1> SUFFICES ASSUME ProvisionInv, LaunchInv, [Next]_vars
             PROVE  ProvisionInv' /\ LaunchInv'
  OBVIOUS
<1>1. CASE Launch
  BY <1>1, LaunchKeeps
<1>2. CASE Step
  BY <1>2, SetUpKeeps, QuietStepsKeep, ResolvePortsKeeps, StartServerKeeps, StopNextKeeps, GraceKeeps
     DEF Step
<1>3. CASE Environment
  BY <1>3, EditKeeps, QuietStepsKeep, HelperKeeps, LeaderKeeps, TakePortKeeps DEF Environment
<1>4. CASE UNCHANGED vars
  <2>1. UNCHANGED <<setupVars, server, stop, alive>>
    BY <1>4 DEF vars
  <2>2. UNCHANGED <<pc, provisions, code, failed, args>>
    BY <2>1 DEF setupVars, provisions
  <2>3. ProvisionInv'
    BY <2>2, ProvisionStays DEF ProvisionInv, SetupTypeOK
  <2>4. LaunchInv'
    BY <2>1, <2>2 DEF LaunchInv, ServersTypeOK, ServersInv, CodeInv, Running, Died, First
  <2> QED BY <2>3, <2>4
<1> QED BY <1>1, <1>2, <1>3, <1>4 DEF Next

(***************************************************************************)
(* What is known of the files and of the servers, in every reachable       *)
(* state.                                                                  *)
(***************************************************************************)
THEOREM LaunchInvariance == Spec => [](ProvisionInv /\ LaunchInv)
<1>1. Init => ProvisionInv /\ LaunchInv
  BY ItHoldsAtFirst
<1>2. ProvisionInv /\ LaunchInv /\ [Next]_vars => (ProvisionInv /\ LaunchInv)'
  BY EveryStepKeepsIt
<1> QED BY <1>1, <1>2, PTL DEF Spec

(***************************************************************************)
(* What a later launch trusts on disk is true, however many launches came  *)
(* before it and wherever they broke off: stamps, data set, checkpoint.    *)
(***************************************************************************)
THEOREM WhatIsTrustedIsTrue == Spec => []TrustedFilesAreTrue
<1>1. ProvisionInv => TrustedFilesAreTrue
  <2> SUFFICES ASSUME ProvisionInv PROVE TrustedFilesAreTrue
    OBVIOUS
  <2> USE DEF ProvisionInv
  <2>1. /\ venv.stamp # None => venv.pkgs = venv.stamp \/ venv.stamp = venv.old \/ venv.raced
        /\ node.stamp # None => node.pkgs = node.stamp \/ node.stamp = node.old \/ node.raced
    BY DEF VenvInv, NodeInv
  <2>2. dataset.manifest = "whole" \/ pc \in {"start training", "train", "save"} =>
          dataset.train = Pairs /\ dataset.val = Pairs
    BY DEF DatasetInv
  <2>3. pc = "train" /\ training.seen # {} => weights = Max(training.seen)
    <3>1. SUFFICES ASSUME pc = "train", training.seen # {} PROVE weights = Max(training.seen)
      OBVIOUS
    <3>2. /\ weights = training.best /\ training.seen \subseteq 0..100
          /\ training.best \in {-1} \union training.seen
          /\ \A score \in training.seen : score <= training.best
      BY <3>1 DEF TrainingInv
    <3>3. training.best \in training.seen
      <4>1. PICK score \in training.seen : score \in 0..100 /\ score <= training.best
        BY <3>1, <3>2
      <4>2. training.best # -1
        BY <4>1
      <4> QED BY <3>2, <4>2
    <3>4. \A score \in training.seen : training.best >= score
      BY <3>2, <3>3
    <3>5. training.seen \subseteq Int
      BY <3>2
    <3> QED BY <3>2, <3>3, <3>4, <3>5, MaxIs
  <2>4. pc \in {"pip upgrade", "pip install", "pip stamp"} => venv.python >= Floor \/ host.unprobed
    BY DEF VenvInv
  <2> DEFINE ofVenv == [pkgs |-> venv.pkgs, stamp |-> venv.stamp, old |-> venv.old, raced |-> venv.raced]
  <2>5. ofVenv.pkgs = venv.pkgs /\ ofVenv.stamp = venv.stamp /\ ofVenv.old = venv.old
        /\ ofVenv.raced = venv.raced
    OBVIOUS
  <2> HIDE DEF ofVenv
  <2>6. \A side \in {ofVenv, node} :
          side.stamp # None => side.pkgs = side.stamp \/ side.stamp = side.old \/ side.raced
    BY <2>1, <2>5
  <2> QED BY <2>2, <2>3, <2>4, <2>6 DEF TrustedFilesAreTrue, ofVenv
<1> QED BY <1>1, LaunchInvariance, PTL

(***************************************************************************)
(* The servers die together, whatever they, the developer and other        *)
(* programs do.                                                            *)
(***************************************************************************)
THEOREM ServersDieTogether == Spec => []DieTogether
<1>1. LaunchInv => DieTogether
  BY DEF LaunchInv, ServersInv, CodeInv, DieTogether
<1> QED BY <1>1, LaunchInvariance, PTL

(***************************************************************************)
(* The launcher's state is well formed: a stamp is in a virtualenv that    *)
(* has a pip, a seeded database is migrated, a helper has had a leader.    *)
(***************************************************************************)
THEOREM LauncherTypes == Spec => []TypeOK
<1>1. ProvisionInv /\ LaunchInv => TypeOK
  <2> SUFFICES ASSUME ProvisionInv, LaunchInv PROVE TypeOK
    OBVIOUS
  <2> USE DEF ProvisionInv, LaunchInv
  <2>1. /\ code \in {0, 1, 130} /\ failed \in BOOLEAN /\ {reqs, lock} \subseteq Versions
        /\ venv.pkgs \in Versions \union {None, Torn} /\ node.pkgs \in Versions \union {None, Torn}
    BY DEF SetupTypeOK, Venvs, NodeModules
  <2>2. venv.stamp # None => venv.built /\ venv.pip
    BY DEF VenvInv
  <2>3. /\ detector \in {"none", "short", "whole"}
        /\ samples \in [files : 0..5, codec : 1..Codecs, cut : BOOLEAN]
        /\ db.seeded => db.migrated
    BY DEF StoresInv
  <2>4. dataset \in [train : 0..Pairs, val : 0..Pairs, manifest : {"none", "torn", "whole"}]
    BY DEF DatasetInv
  <2>5. training.best = Max({-1} \union training.seen)
    <3>1. /\ training.seen \subseteq 0..100
          /\ training.best \in {-1} \union training.seen
          /\ \A score \in training.seen : score <= training.best
      BY DEF TrainingInv
    <3>2. {-1} \union training.seen \subseteq Int /\ training.best \in Int /\ -1 <= training.best
      BY <3>1
    <3>3. \A y \in {-1} \union training.seen : training.best >= y
      BY <3>1, <3>2
    <3> QED BY <3>1, <3>2, <3>3, MaxIs
  <2>6. /\ stop \in BOOLEAN
        /\ \A s \in Names : server[s].port \in 1..MaxPort /\ (server[s].helper # "none" => server[s].leader # "none")
    BY DEF ServersTypeOK, Servers
  <2> QED BY <2>1, <2>2, <2>3, <2>4, <2>5, <2>6 DEF TypeOK
<1> QED BY <1>1, LaunchInvariance, PTL

=============================================================================
