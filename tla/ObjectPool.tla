----------------------------- MODULE ObjectPool -----------------------------
(***************************************************************************)
(* What internal/pool promises its callers: Get hands out an object nobody *)
(* else has, a pooled one or a new one, and Put takes it back.  It does    *)
(* not promise to reuse a pooled object when there is one.                 *)
(***************************************************************************)
CONSTANTS Goroutines, Nodes

VARIABLES
  free,   \* the objects in the pool
  out     \* [Goroutines -> SUBSET Nodes]: the objects each goroutine has

Init == free = {} /\ out = [g \in Goroutines |-> {}]

(* Get, with an object of the pool or one made by New. *)
GetPooled(g, n) ==
  /\ n \in free
  /\ free' = free \ {n}
  /\ out' = [out EXCEPT ![g] = @ \cup {n}]

GetNew(g, n) ==
  /\ n \notin free /\ \A h \in Goroutines : n \notin out[h]
  /\ out' = [out EXCEPT ![g] = @ \cup {n}]
  /\ UNCHANGED free

Put(g, n) ==
  /\ n \in out[g]
  /\ free' = free \cup {n}
  /\ out' = [out EXCEPT ![g] = @ \ {n}]

Next ==
  \E g \in Goroutines, n \in Nodes : GetPooled(g, n) \/ GetNew(g, n) \/ Put(g, n)

Spec == Init /\ [][Next]_<<free, out>>
=============================================================================
