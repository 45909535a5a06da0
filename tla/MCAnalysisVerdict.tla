------------------------- MODULE MCAnalysisVerdict --------------------------
(* Settings, changes and readings for TLC.                                 *)
EXTENDS AnalysisVerdict, TLC

Shipped == [low |-> 33, moderate |-> 66, mask |-> 50, confidence |-> 35]

Changes ==
  {"low" :> 50, "moderate" :> 40, "confidence" :> 97,
   "low" :> 98 @@ "moderate" :> 100}

Media == {<<>>, <<45, 0>>, <<33, 99>>, <<66, 20>>}

Symmetry == Permutations(Admins)
=============================================================================
