----------------------------- MODULE MediaScan ------------------------------
(***************************************************************************)
(* mlcore/pipeline.py, analyze_media: one media file from its loading to   *)
(* the result dict, with the frame reader of mlcore/preprocess.py, the     *)
(* severity rules of mlcore/intensity.py and the tracker of                *)
(* mlcore/tracking.py (VehicleTracker).                                    *)
(*                                                                         *)
(* What the networks see is a free choice among FrameMenu.  The faults the *)
(* code catches are choices too: a decoder hiccup, a frame or a region     *)
(* whose analysis raises, a crop, mask, overlay or preview that cannot be  *)
(* written, a mask that cannot be unlinked.  MaxFaults bounds them, save   *)
(* the hiccups, which the reader bounds itself.                            *)
(***************************************************************************)
EXTENDS VehicleTracker, Severity

CONSTANTS
  FrameMenu,        \* what a frame can show: sequences of raw detections
  Floors,           \* the MIN_SMOKE_* floors, by feature
  SampleRate, MaxFrames, LastIndex,   \* sampling; the last index in max_seconds
  MaxReadFailures,  \* iter_frames gives up at this many in a row (3)
  LowMax, ModerateMax,                \* severity bands
  MaxAnnotated, MaxMasks, MaxSmokeCrops, MaxCleanCrops,
  FrameCounts,      \* bound: frame counts a container may claim, 0 unknown
  MaxFaults         \* bound: caught faults of one scan

ASSUME ScanAssumption ==
  /\ {SampleRate, MaxFrames, MaxReadFailures, MaxAnnotated} \subseteq Nat \ {0}
  /\ {LastIndex, MaxMasks, MaxSmokeCrops, MaxCleanCrops, MaxFaults} \subseteq Nat
  /\ FrameCounts \subseteq Nat /\ FrameCounts # {}
  /\ {LowMax, ModerateMax} \subseteq 1..99 /\ LowMax < ModerateMax

Box == [x : Int, y : Int, w : Int, h : Int]
Region == [side : Nat, area : Nat, blob : Nat, pixels : Nat, density : 0..100]

(* A frame is the sequence of its detections; the density of a region is   *)
(* the intensity that is measured on it, which is clipped to 100.          *)
ASSUME MenuAssumption ==
  FrameMenu \subseteq Seq([box : Box, conf : Nat, region : Region])

VARIABLES
  pc,          \* the stage of analyze_media
  kind,        \* "image" or "video"
  expected,    \* expected_frames, from the container's metadata
  reader,      \* iter_frames: [index, emitted, failures]
  processed,   \* frames_processed
  tracks, step,              \* the tracker
  records,     \* all_vehicles
  regions,     \* smoke_regions: the severity of each vehicle with smoke
  budget,      \* _ArtifactBudget
  masks,       \* the records whose mask PNG is on disk
  shortlist,   \* best_frames
  annotated, preview,        \* what is written under frames/, and preview.jpg
  transient,   \* the responses were judged transient
  percent,     \* the last percentage given to progress_cb
  result,      \* the result dict, once returned
  faults, history            \* ghosts: faults so far; frames fed to the tracker

vars == <<pc, kind, expected, reader, processed, tracks, step, records, regions,
          budget, masks, shortlist, annotated, preview, transient, percent,
          result, faults, history>>

scanned == <<reader, processed, tracks, step, records, regions, budget, masks,
             shortlist, history>>
outcome == <<annotated, preview, transient, result>>

----------------------------------------------------------------------------
(* Detections.  A raw one has a box, a confidence and the features of its  *)
(* exhaust region (NoRegion when it is empty or its analysis raises).      *)
NoRegion == [side |-> 0, area |-> 0, blob |-> 0, pixels |-> 0, density |-> 0]

ClearsFloors(region) ==
  /\ region # NoRegion
  /\ \A feature \in DOMAIN Floors : region[feature] >= Floors[feature]

(* process: every detection with its smoke, which may be None.             *)
Process(raw) ==
  [i \in DOMAIN raw |->
     [box |-> raw[i].box, conf |-> raw[i].conf,
      smoke |-> IF ClearsFloors(raw[i].region) THEN raw[i].region.density ELSE None]]

Rank(intensity) == Classify(intensity, [low |-> LowMax, moderate |-> ModerateMax])

----------------------------------------------------------------------------
Fired(f) == [i \in DOMAIN f |-> f[i].smoke # None]

SumOf(f) == Cardinality(UNION {{i} \X (1..f[i].conf) : i \in DOMAIN f})

(* _frame_interest: worst severity, smoking vehicles, vehicles, confidence. *)
Interest(f) ==
  <<Max({None} \union {Rank(f[i].smoke) : i \in DOMAIN f}),
    Cardinality({i \in DOMAIN f : f[i].smoke # None}), Len(f), SumOf(f)>>

Exceeds(a, b) == \E k \in DOMAIN a : a[k] > b[k] /\ \A j \in 1..(k - 1) : a[j] = b[j]

(* The order of best_frames: more interesting first, then earlier.         *)
Better(p, q) ==
  Exceeds(p.interest, q.interest) \/ (p.interest = q.interest /\ p.frame < q.frame)

InOrder(entries) == Ranked(entries, Better)

Best(entries) ==
  SubSeq(InOrder(entries), 1, Smaller(Cardinality(entries), MaxAnnotated))

(* A mutant: the frame is compared with the best one, not the last one.    *)
ShortlistedAgainstBest(list, entry) ==
  IF Len(list) < MaxAnnotated \/ Exceeds(entry.interest, Head(list).interest)
  THEN Best(Range(list) \union {entry})
  ELSE list

Shortlisted(list, entry) ==
  IF Len(list) < MaxAnnotated \/ Exceeds(entry.interest, Last(list).interest)
  THEN Best(Range(list) \union {entry})
  ELSE list

(* Who gets an artefact: the first of those eligible, in the detector's    *)
(* order, for as long as the budget lasts.                                 *)
Granted(eligible, used, limit) ==
  {i \in eligible : used + Cardinality({j \in eligible : j < i}) < limit}

(* The vehicle records of a frame and their artefacts: the crop and, for a *)
(* smoking vehicle, the mask, each of which may fail; and the smoke found. *)
AddVehicles(f, badCrops, badMasks) ==
  LET smoking    == {i \in DOMAIN f : f[i].smoke # None}
      smokeCrops == Granted(smoking \ badCrops, budget.smoke, MaxSmokeCrops)
      cleanCrops == Granted((DOMAIN f \ smoking) \ badCrops, budget.clean, MaxCleanCrops)
      newMasks   == Granted(smoking \ badMasks, budget.masks, MaxMasks)
  IN /\ records' = records \o
                     [i \in DOMAIN f |->
                        [frame |-> reader.index, smoke |-> f[i].smoke,
                         crop |-> i \in smokeCrops \union cleanCrops, mask |-> i \in newMasks]]
     /\ budget'  = [smoke |-> budget.smoke + Cardinality(smokeCrops),
                    clean |-> budget.clean + Cardinality(cleanCrops),
                    masks |-> budget.masks + Cardinality(newMasks)]
     /\ masks'   = masks \union {Len(records) + i : i \in newMasks}
     /\ regions' = regions \union
                     {[vehicle |-> Len(records) + i, severity |-> Rank(f[i].smoke)] : i \in smoking}

----------------------------------------------------------------------------
Init ==
  /\ pc = "start" /\ kind = "image" /\ expected = 1
  /\ reader = [index |-> 0, emitted |-> 0, failures |-> 0]
  /\ processed = 0 /\ tracks = <<>> /\ step = -1
  /\ records = <<>> /\ regions = {} /\ masks = {} /\ shortlist = <<>>
  /\ budget = [smoke |-> 0, clean |-> 0, masks |-> 0]
  /\ annotated = <<>> /\ preview = <<>> /\ transient = FALSE
  /\ percent = 0 /\ result = <<>> /\ faults = 0 /\ history = <<>>

(* The output directories, the media file and its kind, by its suffix or   *)
(* by trying to decode it; then "loading".                                 *)
Start ==
  /\ pc = "start"
  /\ \/ pc' = "failed" /\ UNCHANGED <<kind, percent>>
     \/ pc' = "loading" /\ percent' = 5 /\ kind' \in {"image", "video"}
  /\ UNCHANGED <<expected, scanned, outcome, faults>>

CannotLoad ==
  /\ pc = "loading" /\ pc' = "failed"
  /\ UNCHANGED <<kind, expected, percent, scanned, outcome, faults>>

(* A still image is one frame.                                             *)
LoadImage ==
  /\ pc = "loading" /\ kind = "image"
  /\ pc' = "detecting" /\ percent' = 15 /\ expected' = 1
  /\ UNCHANGED <<kind, scanned, outcome, faults>>

(* A video is sampled; how many frames to expect is a guess from what its  *)
(* container claims, which may be wrong in both directions, or 0.          *)
Expected(count) ==
  IF count \div SampleRate = 0 THEN MaxFrames ELSE Smaller(MaxFrames, count \div SampleRate)

ProbeVideo(count) ==
  /\ pc = "loading" /\ kind = "video"
  /\ pc' = "detecting" /\ percent' = 15 /\ expected' = Expected(count)
  /\ UNCHANGED <<kind, scanned, outcome, faults>>

(***************************************************************************)
(* The reader: every SampleRate-th decodable frame, at most MaxFrames, none *)
(* past LastIndex, and no more than MaxReadFailures failures in a row.     *)
(***************************************************************************)
Reading ==
  /\ pc = "detecting"
  /\ reader.emitted < IF kind = "image" THEN 1 ELSE MaxFrames

Sampled == Reading /\ reader.index <= LastIndex /\ reader.index % SampleRate = 0

(* The file is opened again when the first frame is asked for.             *)
ReopenFails ==
  /\ pc = "detecting" /\ kind = "video"
  /\ reader.index = 0 /\ reader.failures = 0
  /\ pc' = "failed"
  /\ UNCHANGED <<kind, expected, scanned, outcome, faults, percent>>

NextFrame == reader' = [index |-> reader.index + 1, emitted |-> reader.emitted + 1,
                        failures |-> 0]

DecoderHiccup ==
  /\ Reading /\ kind = "video"
  /\ IF reader.failures + 1 = MaxReadFailures
     THEN pc' = "scanned" /\ UNCHANGED reader
     ELSE /\ reader' = [reader EXCEPT !.index = @ + 1, !.failures = @ + 1]
          /\ UNCHANGED pc
  /\ percent' = IF pc' = "scanned" /\ processed = 0 THEN 40 ELSE percent
  /\ UNCHANGED <<kind, expected, processed, tracks, step, records, regions, budget,
                 masks, shortlist, history, outcome, faults>>

PassOver ==
  /\ Reading /\ ~Sampled /\ reader.index <= LastIndex
  /\ reader' = [reader EXCEPT !.index = @ + 1, !.failures = 0]
  /\ UNCHANGED <<pc, kind, expected, processed, tracks, step, records, regions, budget,
                 masks, shortlist, history, outcome, faults, percent>>

EndOfFrames ==
  /\ pc = "detecting"
  /\ ~Reading \/ reader.index > LastIndex
  /\ pc' = "scanned"
  /\ percent' = IF processed = 0 THEN 40 ELSE percent
  /\ UNCHANGED <<kind, expected, scanned, outcome, faults>>

(* process() raised: the frame is skipped.                                 *)
SkipFrame ==
  /\ Sampled /\ faults < MaxFaults
  /\ NextFrame
  /\ faults' = faults + 1
  /\ UNCHANGED <<pc, kind, expected, processed, tracks, step, records, regions, budget,
                 masks, shortlist, history, outcome, percent>>

(* A mutant: the guess of the frame count is taken for the truth.          *)
AnnounceUncapped ==
  percent' = IF processed = 0 THEN 40
             ELSE IF expected > 1 THEN 40 + (32 * (processed + 1)) \div expected
             ELSE percent

(* 40 for the first frame, then 40 to 72 over the frames expected.         *)
Announce ==
  percent' = IF processed = 0 THEN 40
             ELSE IF expected > 1
             THEN 40 + (32 * Smaller(processed + 1, expected)) \div expected
             ELSE percent

TrackFrame(f) ==
  IF f = <<>>
  THEN UNCHANGED <<tracks, step, history>>
  ELSE LET ids == TrackIds(tracks, step + 1, f)
       IN /\ step' = step + 1
          /\ tracks' = Update(tracks, step + 1, f, Fired(f), ids)
          /\ history' = Append(history, [frame |-> reader.index, dets |-> f, ids |-> ids])

ProcessFrame(f, badCrops, badMasks) ==
  LET entry == [frame |-> reader.index, interest |-> Interest(f), dets |-> f]
  IN /\ Sampled
     /\ faults' = faults + Cardinality(badCrops) + Cardinality(badMasks)
     /\ faults' <= MaxFaults
     /\ NextFrame /\ Announce /\ TrackFrame(f)
     /\ processed' = processed + 1
     /\ AddVehicles(f, badCrops, badMasks)
     /\ shortlist' = IF f = <<>> THEN shortlist ELSE Shortlisted(shortlist, entry)
     /\ UNCHANGED <<pc, kind, expected, outcome>>

----------------------------------------------------------------------------
(* The verdict.  One frame carries no persistence evidence.                *)
IsTransient ==
  regions # {} /\ processed > 1 /\ PersistentTracks(tracks) = {}

Clean(f) == [i \in DOMAIN f |-> [f[i] EXCEPT !.smoke = None]]

(* A mutant: the mask files are left.                                      *)
DiscardKeepingFiles(stuck) ==
  /\ records' = [k \in DOMAIN records |->
                   [records[k] EXCEPT !.smoke = None, !.mask = FALSE]]
  /\ UNCHANGED masks
  /\ shortlist' = [k \in DOMAIN shortlist |->
                     [shortlist[k] EXCEPT !.dets = Clean(shortlist[k].dets)]]
  /\ regions' = {}

(* _discard_transient_smoke: the records, the masks on disk save those     *)
(* that cannot be unlinked, and the overlays of the shortlisted frames.    *)
Discard(stuck) ==
  /\ records' = [k \in DOMAIN records |->
                   [records[k] EXCEPT !.smoke = None, !.mask = FALSE]]
  /\ masks' = stuck
  /\ shortlist' = [k \in DOMAIN shortlist |->
                     [shortlist[k] EXCEPT !.dets = Clean(shortlist[k].dets)]]
  /\ regions' = {}

Aggregate(stuck) ==
  /\ pc = "scanned" /\ pc' = "aggregated"
  /\ percent' = 75
  /\ transient' = IsTransient
  /\ IF IsTransient
     THEN /\ faults' = faults + Cardinality(stuck)
          /\ faults' <= MaxFaults
          /\ Discard(stuck)
     ELSE stuck = {} /\ UNCHANGED <<records, masks, shortlist, regions, faults>>
  /\ UNCHANGED <<kind, expected, reader, processed, tracks, step, budget, history,
                 annotated, preview, result>>

Reranked(e) == [e EXCEPT !.interest = Interest(e.dets)]

(* Without its smoke a frame ranks by its vehicles.                        *)
StartWriting ==
  /\ pc = "aggregated" /\ pc' = "writing"
  /\ percent' = 90
  /\ shortlist' = IF transient
                  THEN InOrder({Reranked(e) : e \in Range(shortlist)})
                  ELSE shortlist
  /\ UNCHANGED <<kind, expected, reader, processed, tracks, step, records, regions,
                 budget, masks, history, outcome, faults>>

(* draw, save, and for the first one written the preview: a copy of it, or *)
(* the frame itself when the copy cannot be written.                       *)
WriteFrame ==
  /\ pc = "writing" /\ shortlist # <<>>
  /\ shortlist' = Tail(shortlist)
  /\ \/ /\ faults < MaxFaults /\ faults' = faults + 1   \* the overlay or its file fails
        /\ UNCHANGED <<annotated, preview>>
     \/ LET e == Head(shortlist)
        IN /\ annotated' = Append(annotated, e.frame)
           /\ \/ /\ preview' = IF preview = <<>> THEN <<e, "copy">> ELSE preview
                 /\ UNCHANGED faults
              \/ /\ preview = <<>> /\ faults < MaxFaults /\ faults' = faults + 1
                 /\ preview' = <<e, "frame">>
  /\ UNCHANGED <<pc, kind, expected, reader, processed, tracks, step, records, regions,
                 budget, masks, history, transient, result, percent>>

(* aggregate: how many regions there are of each severity.                 *)
SeverityCounts == [n \in Names |-> Cardinality({g \in regions : g.severity = n})]

Finish ==
  /\ pc = "writing" /\ shortlist = <<>>
  /\ pc' = "done" /\ percent' = 100
  /\ result' = [total_vehicles   |-> Len(records),
                total_smoke      |-> Cardinality(regions),
                overall_severity |-> Worst(SeverityCounts),
                severity_counts  |-> SeverityCounts]
  /\ UNCHANGED <<kind, expected, scanned, annotated, preview, transient, faults>>

Next ==
  \/ Start \/ CannotLoad \/ LoadImage \/ (\E count \in FrameCounts : ProbeVideo(count))
  \/ ReopenFails \/ DecoderHiccup \/ PassOver \/ EndOfFrames \/ SkipFrame
  \/ \E f \in {Process(raw) : raw \in FrameMenu} :
       \E badCrops \in SUBSET (DOMAIN f), badMasks \in SUBSET {i \in DOMAIN f : Fired(f)[i]} :
         ProcessFrame(f, badCrops, badMasks)
  \/ \E stuck \in SUBSET masks : Aggregate(stuck)
  \/ StartWriting \/ WriteFrame \/ Finish

Spec == Init /\ [][Next]_vars /\ WF_vars(Next)

----------------------------------------------------------------------------
Sightings(k) ==
  UNION {{<<s, i>> : i \in {j \in DOMAIN history[s].ids : history[s].ids[j] = k}} :
           s \in DOMAIN history}

Firing(k) == {p \in Sightings(k) : history[p[1]].dets[p[2]].smoke # None}

Steps(pairs) == {p[1] : p \in pairs}

(* The longest stretch of steps all of which are in S.                     *)
LongestStretch(S) ==
  Max({0} \union {p[2] - p[1] + 1 : p \in {q \in S \X S : q[1] <= q[2] /\ q[1]..q[2] \subseteq S}})

TypeOK ==
  /\ pc \in {"start", "loading", "detecting", "scanned", "aggregated", "writing",
             "done", "failed"}
  /\ kind \in {"image", "video"} /\ expected \in 1..MaxFrames
  /\ reader \in [index : Nat, emitted : 0..MaxFrames, failures : 0..(MaxReadFailures - 1)]
  /\ processed \in 0..reader.emitted
  /\ step + 1 = Len(history) /\ Len(history) <= processed
  /\ \A k \in DOMAIN records : records[k].smoke \in Nat
  /\ masks \subseteq DOMAIN records
  /\ Len(shortlist) <= MaxAnnotated
  /\ percent \in 0..100 /\ faults \in 0..MaxFaults

(***************************************************************************)
(* Smoke is reported exactly when it was seen and, in a scan of more than  *)
(* one frame, one vehicle fired often enough, long enough in a row and in  *)
(* a large enough share of its sightings; the reported severity is then    *)
(* the worst measured on any vehicle, and totals, counts and records agree *)
(* on it.                                                                  *)
(***************************************************************************)
Believed(k) ==
  /\ Cardinality(Firing(k)) >= MinHits
  /\ LongestStretch(Steps(Firing(k))) >= MinRun
  /\ Cardinality(Firing(k)) * FracDen >= FracNum * Cardinality(Sightings(k))

Measured == {Rank(history[p[1]].dets[p[2]].smoke) : p \in UNION {Firing(k) : k \in DOMAIN tracks}}

VerdictMatchesEvidence ==
  pc = "done" =>
    LET smoke == Measured # {} /\ (processed <= 1 \/ \E k \in DOMAIN tracks : Believed(k))
        kept  == {k \in DOMAIN records : records[k].smoke # None}
    IN /\ result.overall_severity = IF smoke THEN Max(Measured) ELSE None
       /\ result.total_smoke = Cardinality(kept)
       /\ \A n \in Names :
            result.severity_counts[n] = Cardinality({k \in kept : Rank(records[k].smoke) = n})
       /\ (kept = {}) = ~smoke

(***************************************************************************)
(* A record names a mask only while the file is there; a mask file no      *)
(* record names was to be unlinked with discarded smoke and could not be.  *)
(***************************************************************************)
MasksMatchRecords ==
  LET named == {k \in DOMAIN records : records[k].mask}
  IN /\ named \subseteq masks
     /\ masks # named => transient /\ Cardinality(masks \ named) <= faults
     /\ \A k \in named : records[k].smoke # None
     /\ Cardinality(masks) <= budget.masks /\ budget.masks <= MaxMasks

(* The frames that showed a vehicle, as entries of best_frames.            *)
Seen == {[frame |-> h.frame, interest |-> Interest(h.dets), dets |-> h.dets] :
           h \in Range(history)}

(***************************************************************************)
(* The shortlist kept while scanning, with no more than MaxAnnotated       *)
(* frames in memory, is the best of all frames that showed a vehicle.      *)
(***************************************************************************)
ShortlistKeepsTheBest == pc = "scanned" => shortlist = Best(Seen)

(***************************************************************************)
(* The preview is the best of the frames that could be written, whatever   *)
(* was not, a run with a written frame has one, and on a run whose smoke   *)
(* was discarded it shows none.                                            *)
(***************************************************************************)
PreviewIsTheBestWritten ==
  /\ (preview = <<>>) = (annotated = <<>>)
  /\ preview # <<>> =>
       /\ preview[1].frame = annotated[1]
       /\ \A k \in DOMAIN shortlist : Better(preview[1], shortlist[k])
       /\ transient => Fired(preview[1].dets) = [i \in DOMAIN preview[1].dets |-> FALSE]

(* Both: what a reader is shown first is the best there was.               *)
BestFramesAreShown == ShortlistKeepsTheBest /\ PreviewIsTheBestWritten

(***************************************************************************)
(* The association of a frame is stable: a detection that could continue a *)
(* live track does so, unless it, or the track, has a partner that         *)
(* overlaps at least as much.                                              *)
(***************************************************************************)
StableStep ==
  history' # history =>
    LET seen == Last(history')
        Share(i, k) == <<Intersection(seen.dets[i].box, tracks[k].last_box),
                         Union(seen.dets[i].box, tracks[k].last_box)>>
        NotWorse(p, q) == p[1] * q[2] >= q[1] * p[2]
    IN \A i \in DOMAIN seen.dets, k \in DOMAIN tracks :
         /\ IsLive(tracks[k], step')
         /\ SameVehicle(seen.dets[i].box, tracks[k].last_box)
         => \/ seen.ids[i] \in DOMAIN tracks /\ NotWorse(Share(i, seen.ids[i]), Share(i, k))
            \/ \E j \in DOMAIN seen.dets : seen.ids[j] = k /\ NotWorse(Share(j, k), Share(i, k))

MatchingIsStable == [][StableStep]_vars

(***************************************************************************)
(* The scan keeps the contract the worker relies on, for every reading,    *)
(* fault and guess: percentages that never fall, though the number of      *)
(* frames they are computed from is a guess, an end even when the decoder  *)
(* delivers nothing, and an answer whose verdict is the worst of the       *)
(* vehicles it lists.                                                      *)
(***************************************************************************)
Contract == INSTANCE ScanContract WITH
  phase  <- CASE pc = "done" -> "answered" [] pc = "failed" -> "failed" [] OTHER -> "running",
  bands  <- [low |-> LowMax, moderate |-> ModerateMax],
  answer <- IF result = <<>> THEN [vehicles |-> <<>>, overall |-> None]
            ELSE [vehicles |-> [k \in DOMAIN records |-> records[k].smoke],
                  overall  |-> result.overall_severity]

KeepsTheContract == Contract!ScanSpec

----------------------------------------------------------------------------
(* Inductive invariants: what makes TypeOK, MasksMatchRecords and the      *)
(* steps of the contract true, one by one.                                 *)

Scanning == {"start", "loading", "detecting", "scanned"}

Vehicle == [frame : Nat, smoke : 0..100, crop : BOOLEAN, mask : BOOLEAN]

(* The reader counts what it delivers, and the faults are bounded.         *)
CountsInv ==
  /\ kind \in {"image", "video"} /\ expected \in 1..MaxFrames
  /\ reader \in [index : Nat, emitted : 0..MaxFrames, failures : 0..(MaxReadFailures - 1)]
  /\ processed \in 0..reader.emitted
  /\ faults \in 0..MaxFaults

RecordsInv ==
  /\ records \in Seq(Vehicle)
  /\ budget \in [smoke : Nat, clean : Nat, masks : Nat]

Smoking == {k \in DOMAIN records : records[k].smoke # None}
Masked  == {k \in DOMAIN records : records[k].mask}

(* smoke_regions is the smoke of the records, and nothing else.            *)
RegionsInv ==
  regions = {[vehicle |-> k, severity |-> Rank(records[k].smoke)] : k \in Smoking}

(* Until smoke is discarded the files on disk are the masks of the         *)
(* records; then no record has one, and a file left was a fault.           *)
MasksInv ==
  /\ masks \subseteq DOMAIN records /\ Masked \subseteq Smoking
  /\ pc \in Scanning => ~transient
  /\ ~transient => masks = Masked
  /\ transient => Masked = {} /\ Cardinality(masks) <= faults
  /\ Cardinality(masks) <= budget.masks /\ budget.masks <= MaxMasks

(* The percentage of every stage; while frames are processed it is at most *)
(* what the count of them gives, so the next one is not below it.          *)
PercentInv ==
  /\ pc = "start" => percent = 0 /\ processed = 0
  /\ pc = "loading" => percent = 5 /\ processed = 0
  /\ pc = "detecting" =>
       \/ processed = 0 /\ percent = 15
       \/ /\ processed > 0 /\ percent \in 40..72
          /\ expected > 1 => percent <= 40 + (32 * Smaller(processed, expected)) \div expected
  /\ pc = "scanned" => percent \in 40..72
  /\ pc = "aggregated" => percent = 75
  /\ pc = "writing" => percent = 90
  /\ pc = "done" => percent = 100
  /\ pc = "failed" => percent \in 0..72

AnswerInv == pc # "done" => result = <<>>

ScanInv == CountsInv /\ RecordsInv /\ RegionsInv /\ MasksInv /\ PercentInv /\ AnswerInv

Detection == [box : Box, conf : Nat, smoke : 0..100]
Interests == Nat \X Nat \X Nat \X Nat
Entry     == [frame : Nat, interest : Interests, dets : Seq(Detection)]

(* Every frame the tracker was fed is before the reader, and fed once.     *)
HistoryInv ==
  /\ step + 1 = Len(history) /\ Len(history) <= processed
  /\ \A s \in DOMAIN history :
       /\ history[s].dets \in Seq(Detection)
       /\ history[s].frame \in 0..(reader.index - 1)
       /\ \A t \in DOMAIN history : history[s].frame = history[t].frame => s = t

Ordered(list) == \A j \in DOMAIN list : \A i \in 1..(j - 1) : Better(list[i], list[j])

Smokeless(e) == \A i \in DOMAIN e.dets : e.dets[i].smoke = None

(* The shortlist is the best of what was seen until the verdict; then it   *)
(* is in order but for the time between a discarded smoke and the writing, *)
(* when a frame is still a frame of its own.                               *)
ShortlistInv ==
  /\ shortlist \in Seq(Entry) /\ Len(shortlist) <= MaxAnnotated
  /\ annotated \in Seq(Nat)
  /\ \A i, j \in DOMAIN shortlist : shortlist[i].frame = shortlist[j].frame => i = j
  /\ pc \in Scanning => shortlist = Best(Seen)
  /\ pc \in Scanning \union {"aggregated"} => annotated = <<>> /\ preview = <<>>
  /\ ~transient \/ pc # "aggregated" => Ordered(shortlist)
  /\ transient => \A k \in DOMAIN shortlist : Smokeless(shortlist[k])

BestInv == HistoryInv /\ ShortlistInv /\ PreviewIsTheBestWritten

Tracked == [observations : Nat, hits : Nat, longest_run : Nat,
            last_box : Box, last_step : Int, current_run : Nat]

(* The counters of a track say what the history does: how often it was     *)
(* seen and fired, its longest stretch, and the one it is in.  Step s of   *)
(* the tracker is entry s + 1 of the history.                              *)
Remembers(k) ==
  LET t     == tracks[k]
      last  == t.last_step + 1
      fired == Steps(Firing(k))
  IN /\ t.observations = Cardinality(Sightings(k))
     /\ t.hits = Cardinality(Firing(k))
     /\ t.longest_run = LongestStretch(fired)
     /\ last \in {0} \union Steps(Sightings(k))
     /\ \A s \in Steps(Sightings(k)) : s <= last
     /\ (last + 1 - t.current_run)..last \subseteq fired /\ last - t.current_run \notin fired

(* A detection of a frame has a track, and no two have the same.           *)
Assigns(h) ==
  /\ DOMAIN h.ids = DOMAIN h.dets
  /\ \A i \in DOMAIN h.ids : h.ids[i] \in DOMAIN tracks
  /\ \A i, j \in DOMAIN h.ids : h.ids[i] = h.ids[j] => i = j

TracksInv ==
  /\ tracks \in Seq(Tracked)
  /\ \A s \in DOMAIN history : Assigns(history[s])
  /\ \A k \in DOMAIN tracks : Remembers(k)

(* Until smoke is discarded the records have what the tracks measured; and *)
(* it is discarded when no vehicle's smoke is to be believed.              *)
EvidenceInv ==
  /\ ~transient => Measured = {Rank(records[k].smoke) : k \in Smoking}
  /\ transient => Smoking = {}
  /\ pc \in {"aggregated", "writing", "done"} =>
       transient = (Measured # {} /\ processed > 1 /\ \A k \in DOMAIN tracks : ~Believed(k))
  /\ pc = "done" =>
       /\ result.total_smoke = Cardinality(regions)
       /\ result.overall_severity = Worst(SeverityCounts)
       /\ result.severity_counts = SeverityCounts
=============================================================================
