---------------------------- MODULE ScanContract ----------------------------
(***************************************************************************)
(* What analyze_media promises to the worker that calls it: it ends, in an *)
(* answer or an error; the percentages it reports never fall, and the last *)
(* of an answer is 100; the answer lists each vehicle's smoke, and its     *)
(* overall severity is the worst of them under the bands it was called     *)
(* with.  MediaScan is shown to implement it, and AnalysisVerdict uses it  *)
(* in place of the pipeline.                                               *)
(***************************************************************************)
EXTENDS Severity

VARIABLES
  phase,     \* "running", "answered" or "failed"
  percent,   \* the last percentage reported
  bands,     \* the validated bands of the call
  answer     \* [vehicles, overall], once answered

scanVars == <<phase, percent, bands, answer>>

NoAnswer == [vehicles |-> <<>>, overall |-> None]

Answer(intensities) ==
  [vehicles |-> intensities,
   overall  |-> Worst(Counts(Classified(intensities, bands)))]

ScanInit == phase = "running" /\ percent = 0 /\ answer = NoAnswer

Report ==
  /\ phase = "running"
  /\ percent' \in percent..99
  /\ UNCHANGED <<phase, bands, answer>>

GiveAnswer ==
  /\ phase = "running"
  /\ phase' = "answered" /\ percent' = 100
  /\ answer'.vehicles \in Seq({None} \union Intensities)
  /\ answer' = Answer(answer'.vehicles)
  /\ UNCHANGED bands

GiveUp ==
  /\ phase = "running"
  /\ phase' = "failed"
  /\ UNCHANGED <<percent, bands, answer>>

ScanNext == Report \/ GiveAnswer \/ GiveUp

ScanSpec == ScanInit /\ [][ScanNext]_scanVars /\ WF_scanVars(GiveUp \/ GiveAnswer)
=============================================================================
