----------------------------- MODULE MCArenaPools -----------------------------
(* Executions on one device and on two, of which the first fits a pooled      *)
(* arena exactly and the others are larger.                                  *)
EXTENDS ArenaPools, TLC
MCExecutions == {[devices |-> 1, inputs |-> 1, kept |-> 1, outputs |-> 1],
                 [devices |-> 2, inputs |-> 1, kept |-> 1, outputs |-> 1]}
Symmetry == Permutations(Goroutines) \cup Permutations(Nodes) \cup Permutations(Heads)
===============================================================================
