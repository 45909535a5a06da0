------------------------------ MODULE Engines -------------------------------
(***************************************************************************)
(* mlcore/detector.py and mlcore/segmenter.py: the two networks of one     *)
(* process.  Each is kept in a cache of the process, filled by whoever     *)
(* needs it first, a scan or the warm-up at boot; an analysis has an       *)
(* object of its own for each, filled from the cache on first use.  The    *)
(* detector looks at its file again until it is there; the segmenter looks *)
(* once, and a look in vain makes the process classical.                   *)
(*                                                                         *)
(* The worker's inference lock keeps scans and warm-ups apart, so that a   *)
(* load is one step.  What a file holds when it is looked at is free: it   *)
(* may be trained, replaced or removed at any time (external).  A          *)
(* checkpoint is told from another by the input size it was trained for.   *)
(***************************************************************************)
EXTENDS Integers

CONSTANTS
  Sizes,       \* input sizes checkpoints name
  ConfigSize   \* MLConfig.input_size

Nothing == 0   \* no file, or none that can be loaded
Unset == -1    \* no entry in the cache

ASSUME EnginesAssumption == Sizes \subseteq Nat \ {Nothing} /\ ConfigSize \in Sizes

VARIABLES
  cached,     \* [model: loaded?, net: Unset, Nothing or a checkpoint]
  detector,   \* the scan's: [loaded, model]
  segmenter,  \* the scan's: [loaded, net, size]
  used,       \* ghost: how regions were segmented: input sizes, Nothing = classical
  mishaps     \* ghost: the net failed on a batch

engineVars == <<cached, detector, segmenter, used, mishaps>>

Files == {Nothing} \union Sizes

NewDetector == [loaded |-> FALSE, model |-> FALSE]
NewSegmenter == [loaded |-> FALSE, net |-> Nothing, size |-> ConfigSize, first |-> FALSE]

EnginesInit ==
  /\ cached = [model |-> FALSE, net |-> Unset]
  /\ detector = NewDetector /\ segmenter = NewSegmenter
  /\ used = {} /\ mishaps = FALSE

(* _FrameAnalyzer: new objects for a new scan.                             *)
NewAnalyzer ==
  /\ detector' = NewDetector /\ segmenter' = NewSegmenter
  /\ used' = {} /\ mishaps' = FALSE
  /\ UNCHANGED cached

(* _ensure_model, _load_yolo: None in the cache is no hit.                 *)
ModelOf(present) ==
  IF detector.loaded THEN detector.model ELSE cached.model \/ present

(* A mutant: a checkpoint that could not be loaded is looked for again.    *)
NetOfRetried(file) ==
  IF segmenter.loaded THEN segmenter
  ELSE IF cached.net \notin {Unset, Nothing}
  THEN [NewSegmenter EXCEPT !.loaded = TRUE, !.net = cached.net]
  ELSE [loaded |-> TRUE, net |-> file, first |-> TRUE,
        size |-> IF file = Nothing THEN ConfigSize ELSE file]

(* _ensure_net, _load_checkpoint.  An entry of the cache keeps the net and *)
(* not its input size, which only the segmenter that loads it learns.      *)
NetOf(file) ==
  IF segmenter.loaded THEN segmenter
  ELSE IF cached.net # Unset
  THEN [NewSegmenter EXCEPT !.loaded = TRUE, !.net = cached.net]
  ELSE [loaded |-> TRUE, net |-> file, first |-> TRUE,
        size |-> IF file = Nothing THEN ConfigSize ELSE file]

(* The entries these two leave in the caches.                              *)
Filled(model, net) ==
  [model |-> cached.model \/ model, net |-> IF cached.net = Unset THEN net ELSE cached.net]

(* pipeline.warmup, and what a scan of another upload leaves behind.       *)
Warmup(present, file) ==
  /\ cached' = Filled(present, file)
  /\ UNCHANGED <<detector, segmenter, used, mishaps>>

(* detect: no model, a failed inference and an empty road are all [].      *)
SeeNothing(present) ==
  /\ detector' = [loaded |-> TRUE, model |-> ModelOf(present)]
  /\ cached' = Filled(detector'.model, Unset)
  /\ UNCHANGED <<segmenter, used, mishaps>>

(* segment_many: by the net, or by the heuristic without one; a batch that *)
(* the net fails on goes to the heuristic, too.                            *)
Segment ==
  \/ /\ used' = used \union {IF segmenter'.net = Nothing THEN Nothing ELSE segmenter'.size}
     /\ UNCHANGED mishaps
  \/ /\ segmenter'.net # Nothing
     /\ used' = used \union {Nothing} /\ mishaps' = TRUE

SeeVehicles(present, file) ==
  /\ ModelOf(present)
  /\ detector' = [loaded |-> TRUE, model |-> TRUE]
  /\ segmenter' = NetOf(file)
  /\ cached' = Filled(TRUE, segmenter'.net)
  /\ Segment

(* resolved_mode: a scan that saw no vehicle looks for the net now.        *)
Resolve(file) ==
  /\ segmenter' = NetOf(file)
  /\ cached' = Filled(FALSE, segmenter'.net)
  /\ UNCHANGED <<detector, used, mishaps>>

Mode(s) == IF s.net = Nothing THEN "classical" ELSE "unet"

EnginesTypeOK ==
  /\ cached \in [model : BOOLEAN, net : Files \union {Unset}]
  /\ detector \in [loaded : BOOLEAN, model : BOOLEAN]
  /\ segmenter \in [loaded : BOOLEAN, net : Files, size : Sizes, first : BOOLEAN]
  /\ used \subseteq Files /\ mishaps \in BOOLEAN
=============================================================================
