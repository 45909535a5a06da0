------------------------------ MODULE Severity ------------------------------
(***************************************************************************)
(* The severity bands, twice over.  mlcore/intensity.py bands an intensity *)
(* with exclusive upper bounds and takes the worst region for the media;   *)
(* SystemSetting.severity_for and analysis.services.worst_severity do the  *)
(* same for the stored rows, with inclusive bounds.                        *)
(*                                                                         *)
(* Intensities and bands are natural numbers (hundredths); None is no      *)
(* smoke and no verdict, and 1, 2, 3 are low, moderate and high.           *)
(***************************************************************************)
EXTENDS Integers, FiniteSets, Sequences, FiniteSetsExt

None  == 0
Names == {1, 2, 3}

Intensities == 1..100
Bands       == [low : 0..100, moderate : 0..100]

(* classify_severity: the pipeline, with exclusive bounds.                 *)
Classify(intensity, bands) ==
  IF intensity = None THEN None
  ELSE IF intensity < bands.low THEN 1
  ELSE IF intensity < bands.moderate THEN 2
  ELSE 3

(* severity_for: the live settings, with inclusive bounds.                 *)
SeverityFor(intensity, bands) ==
  IF intensity = None THEN None
  ELSE IF intensity <= bands.low THEN 1
  ELSE IF intensity <= bands.moderate THEN 2
  ELSE 3

(* severity_counts: how many of a sequence of severities there are of each. *)
Counts(ranks) == [n \in Names |-> Cardinality({i \in DOMAIN ranks : ranks[i] = n})]

(* aggregate, with the "none" analyze_media puts in its place without      *)
(* smoke; worst_severity on stored counts.                                 *)
Worst(counts) == Max({None} \union {n \in Names : counts[n] > 0})

Classified(intensities, bands) ==
  [i \in DOMAIN intensities |-> Classify(intensities[i], bands)]

(* MLConfig.validate: the bands a pipeline runs with, whatever it is given. *)
Clamp(n, low, high) == IF n < low THEN low ELSE IF n > high THEN high ELSE n

ValidBands(bands) ==
  LET low == Clamp(bands.low, 1, 98)
  IN [low |-> low, moderate |-> Clamp(bands.moderate, low + 1, 99)]

(* The smoke_mask_threshold of a sensitivity slider at s.                  *)
MaskThreshold(s) == Clamp(2500 + s * 50, 500, 9500)   \* in ten-thousandths
=============================================================================
