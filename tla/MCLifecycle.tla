---------------------------- MODULE MCLifecycle ----------------------------
(* Model-checking instance of PjrtLifecycle: the identities of the objects *)
(* are interchangeable.                                                    *)
EXTENDS PjrtLifecycle, TLC

Symmetry == Permutations(Clients) \cup Permutations(Buffers) \cup Permutations(Execs)
=============================================================================
