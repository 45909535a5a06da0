--------------------------- MODULE MCAnalysisJobs ---------------------------
(* Instances of AnalysisJobs for TLC: the symmetries the safety runs use.  *)
EXTENDS AnalysisJobs, TLC

Symmetry == Permutations(Run) \cup Permutations(Media) \cup Permutations(Boot)
              \cup Permutations(Host) \cup Permutations(Pid)
=============================================================================
