------------------------- MODULE MCReportRendering -------------------------
(* Instances of ReportRendering for TLC.                                   *)
EXTENDS ReportRendering, TLC

Symmetry == Permutations(Call) \cup Permutations(Proc)

(* What can still matter: a call that is over has no local variables, a    *)
(* lock nobody can reach no state, and a row that is deleted no column.    *)
Under == {c \in Call : pc[c] \in Running}

Reachable == ({entry[c] : c \in Under} \cup {registry[p] : p \in Proc}) \ {NoCall}

View ==
  <<analysis, IF analysis = "done" THEN <<said, latest>> ELSE <<>>, row, disk,
    registry, [l \in Reachable |-> <<interest[l], holder[l]>>],
    pc, kind, proc, [c \in Under |-> <<entry[c], target[c]>>], raised, deleteVars>>
=============================================================================
