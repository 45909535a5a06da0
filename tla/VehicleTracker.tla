--------------------------- MODULE VehicleTracker ---------------------------
(***************************************************************************)
(* mlcore/tracking.py: the greedy association of detections into vehicle   *)
(* tracks, and the three-part rule that decides which track's smoke is     *)
(* persistent.  The module has no state of its own: Update is the state    *)
(* transformer VehicleTracker.update, and MediaScan owns the variables.    *)
(*                                                                         *)
(* Pixel boxes are records of integers; a box the detection does not carry *)
(* is NoBox.  Overlaps are the quotients intersection / union of the code, *)
(* kept as two integers and compared by cross multiplication.              *)
(***************************************************************************)
EXTENDS Integers, FiniteSets, Sequences, SequencesExt

CONSTANTS
  IouNum, IouDen,     \* TRACK_IOU_THRESHOLD as a fraction
  MaxMissed,          \* TRACK_MAX_MISSED_FRAMES
  MinHits, MinRun,    \* MIN_SMOKE_TRACK_HITS, MIN_SMOKE_TRACK_RUN
  FracNum, FracDen    \* MIN_SMOKE_TRACK_FRACTION as a fraction

ASSUME TrackerAssumption ==
  /\ {IouNum, IouDen, MinHits, MinRun, FracNum, FracDen} \subseteq Nat \ {0}
  /\ MaxMissed \in Nat

(* A finite set as a sequence, in a strict and total order: the k-th is    *)
(* the one that k - 1 others precede.                                      *)
Ranked(S, Precedes(_, _)) ==
  [k \in 1..Cardinality(S) |->
     CHOOSE e \in S : Cardinality({d \in S : Precedes(d, e)}) = k - 1]

NoBox == [x |-> 0, y |-> 0, w |-> 0, h |-> 0]

Larger(a, b)  == IF a >= b THEN a ELSE b
Smaller(a, b) == IF a <= b THEN a ELSE b

(* The common area of two boxes; 0 for degenerate or disjoint ones. *)
Intersection(a, b) ==
  LET across == Smaller(a.x + a.w, b.x + b.w) - Larger(a.x, b.x)
      down   == Smaller(a.y + a.h, b.y + b.h) - Larger(a.y, b.y)
  IN IF a.w > 0 /\ a.h > 0 /\ b.w > 0 /\ b.h > 0 /\ across > 0 /\ down > 0
     THEN across * down
     ELSE 0

Union(a, b) == a.w * a.h + b.w * b.h - Intersection(a, b)

(* iou(a, b) >= iou_threshold, for a threshold above zero. *)
SameVehicle(a, b) ==
  Intersection(a, b) > 0 /\ Intersection(a, b) * IouDen >= IouNum * Union(a, b)

(***************************************************************************)
(* Tracks.  The type, the first and last frame number and the peak         *)
(* intensity of a track are diagnostics and are left out.                  *)
(***************************************************************************)
NewTrack ==
  [observations |-> 0, hits |-> 0, longest_run |-> 0,
   last_box |-> NoBox, last_step |-> -1, current_run |-> 0]

(* Only a track seen recently enough can be continued. *)
IsLive(t, step) == step - t.last_step <= MaxMissed + 1

Candidates(tracks, step, dets) ==
  {[det |-> p[1], track |-> p[2],
    inter |-> Intersection(dets[p[1]].box, tracks[p[2]].last_box),
    union |-> Union(dets[p[1]].box, tracks[p[2]].last_box)] :
     p \in {q \in (DOMAIN dets) \X (DOMAIN tracks) :
              /\ dets[q[1]].box # NoBox
              /\ IsLive(tracks[q[2]], step)
              /\ SameVehicle(dets[q[1]].box, tracks[q[2]].last_box)}}

(* A mutant: the first pair found wins.                                    *)
BeforeByIndex(c, d) == c.det < d.det \/ (c.det = d.det /\ c.track < d.track)

(* Best overlap first, then the earlier detection, then the older track. *)
Before(c, d) ==
  \/ c.inter * d.union > d.inter * c.union
  \/ /\ c.inter * d.union = d.inter * c.union
     /\ c.det < d.det \/ (c.det = d.det /\ c.track < d.track)

Sorted(candidates) == Ranked(candidates, Before)

Conflicts(c, d) == c.det = d.det \/ c.track = d.track

(* The loop over the sorted candidates: taken[n] is what is assigned after *)
(* the first n of them; each detection and each track is used once.        *)
Assigned(sorted) ==
  LET taken[n \in 0..Len(sorted)] ==
        IF n = 0 THEN {}
        ELSE IF \E d \in taken[n - 1] : Conflicts(sorted[n], d) THEN taken[n - 1]
        ELSE taken[n - 1] \union {sorted[n]}
  IN taken[Len(sorted)]

Matching(tracks, step, dets) == Assigned(Sorted(Candidates(tracks, step, dets)))

(* The track of every detection: the one matched, or a new one. *)
TrackIds(tracks, step, dets) ==
  LET matching == Matching(tracks, step, dets)
      matched  == {m.det : m \in matching}
  IN [i \in DOMAIN dets |->
        IF i \in matched
        THEN (CHOOSE m \in matching : m.det = i).track
        ELSE Len(tracks) + Cardinality((1..i) \ matched)]

Observe(t, det, fired, step) ==
  LET contiguous == t.last_step = step - 1
      run        == IF fired THEN (IF contiguous THEN t.current_run + 1 ELSE 1) ELSE 0
  IN [observations |-> t.observations + 1,
      hits         |-> t.hits + (IF fired THEN 1 ELSE 0),
      longest_run  |-> Larger(t.longest_run, run),
      last_box     |-> IF det.box # NoBox THEN det.box ELSE t.last_box,
      last_step    |-> step,
      current_run  |-> run]

(* The tracks after one frame whose detections belong to ids. *)
Update(tracks, step, dets, fired, ids) ==
  [k \in 1..Max({Len(tracks)} \union Range(ids)) |->
     LET old  == IF k \in DOMAIN tracks THEN tracks[k] ELSE NewTrack
         mine == {i \in DOMAIN ids : ids[i] = k}
     IN IF mine = {} THEN old
        ELSE LET i == CHOOSE j \in mine : TRUE
             IN Observe(old, dets[i], fired[i], step)]

(* A mutant: the share of firing sightings is not looked at.               *)
PersistentAnyShare(t) == t.hits >= MinHits /\ t.longest_run >= MinRun

Persistent(t) ==
  /\ t.hits >= MinHits
  /\ t.longest_run >= MinRun
  /\ t.observations > 0
  /\ t.hits * FracDen >= FracNum * t.observations

PersistentTracks(tracks) == {k \in DOMAIN tracks : Persistent(tracks[k])}
=============================================================================
