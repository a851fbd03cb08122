------------------------------ MODULE ProcPool ------------------------------
(***************************************************************************)
(* internal/pool: a free list per processor of the Go scheduler (P).       *)
(*                                                                         *)
(* Get and Put pin the goroutine to its P, which excludes every other      *)
(* goroutine from that P until it is unpinned; goroutines pinned to        *)
(* different Ps run at the same time.  Between calls a goroutine may       *)
(* migrate, so an object taken on one P is often put back on another.      *)
(* The mutex of race-detector builds adds nothing to the pin.              *)
(***************************************************************************)
EXTENDS Naturals, FiniteSets

CONSTANTS
  Goroutines,
  Procs,      \* the Ps of the scheduler
  Heads,      \* those with an index below maxProcs, which have a list
  Nodes,      \* identities of the objects New can make
  Nil,        \* the nil pointer
  NoProc,     \* not pinned
  MaxGets     \* bound: the calls of Get that are followed

ASSUME PoolAssumption ==
  /\ Heads \subseteq Procs
  /\ Nil \notin Nodes /\ NoProc \notin Procs
  /\ MaxGets \in Nat

VARIABLES
  head,     \* poolHead.head of each P
  next,     \* the link inside each object
  created,  \* the objects New has made
  held,     \* the objects each goroutine got and has not put back
  pc, node, proc,  \* each goroutine: its place in Get or Put, the local
                   \* variable node, and the P it is pinned to
  gets      \* calls of Get so far

vars == <<head, next, created, held, pc, node, proc, gets>>

(* Seeded bug: Get and Put do not pin the goroutine. *)
Unpinned_Never(p) == p \in Procs

Unpinned(p) == \A g \in Goroutines : proc[g] # p

Init ==
  /\ head = [p \in Heads |-> Nil]
  /\ next = [n \in Nodes |-> Nil]
  /\ created = {}
  /\ held = [g \in Goroutines |-> {}]
  /\ pc = [g \in Goroutines |-> "idle"]
  /\ node = [g \in Goroutines |-> Nil]
  /\ proc = [g \in Goroutines |-> NoProc]
  /\ gets = 0

-----------------------------------------------------------------------------
(* Get: pin, read the head. *)
GetPin(g, p) ==
  /\ pc[g] = "idle" /\ Unpinned(p) /\ gets < MaxGets
  /\ p \in Heads /\ head[p] # Nil
  /\ gets' = gets + 1
  /\ node' = [node EXCEPT ![g] = head[p]]
  /\ proc' = [proc EXCEPT ![g] = p]
  /\ pc' = [pc EXCEPT ![g] = "take"]
  /\ UNCHANGED <<head, next, created, held>>

(* The list is empty: unpin at once, then call New. *)
GetMiss(g, p) ==
  /\ pc[g] = "idle" /\ Unpinned(p) /\ gets < MaxGets
  /\ p \in Heads /\ head[p] = Nil
  /\ gets' = gets + 1
  /\ pc' = [pc EXCEPT ![g] = "new"]
  /\ UNCHANGED <<head, next, created, held, node, proc>>

New(g, n) ==
  /\ pc[g] = "new" /\ n \notin created
  /\ created' = created \cup {n}
  /\ held' = [held EXCEPT ![g] = @ \cup {n}]
  /\ pc' = [pc EXCEPT ![g] = "idle"]
  /\ UNCHANGED <<head, next, node, proc, gets>>

(* Seeded bug: Get leaves the object it returns at the head of the list. *)
GetTake_Peeks(g) ==
  /\ pc[g] = "take"
  /\ pc' = [pc EXCEPT ![g] = "clear"]
  /\ UNCHANGED <<head, next, created, held, node, proc, gets>>

(* h.head = node.Next() *)
GetTake(g) ==
  /\ pc[g] = "take"
  /\ head' = [head EXCEPT ![proc[g]] = next[node[g]]]
  /\ pc' = [pc EXCEPT ![g] = "clear"]
  /\ UNCHANGED <<next, created, held, node, proc, gets>>

(* node.SetNext(nil), unpin. *)
GetReturn(g) ==
  /\ pc[g] = "clear"
  /\ next' = [next EXCEPT ![node[g]] = Nil]
  /\ held' = [held EXCEPT ![g] = @ \cup {node[g]}]
  /\ node' = [node EXCEPT ![g] = Nil]
  /\ proc' = [proc EXCEPT ![g] = NoProc]
  /\ pc' = [pc EXCEPT ![g] = "idle"]
  /\ UNCHANGED <<head, created, gets>>

(* Put: pin. *)
PutPin(g, n, p) ==
  /\ pc[g] = "idle" /\ n \in held[g] /\ Unpinned(p) /\ p \in Heads
  /\ held' = [held EXCEPT ![g] = @ \ {n}]
  /\ node' = [node EXCEPT ![g] = n]
  /\ proc' = [proc EXCEPT ![g] = p]
  /\ pc' = [pc EXCEPT ![g] = "link"]
  /\ UNCHANGED <<head, next, created, gets>>

(* Seeded bug: Put does not link the object to the rest of the list. *)
PutLink_Forgets(g) ==
  /\ pc[g] = "link"
  /\ pc' = [pc EXCEPT ![g] = "push"]
  /\ UNCHANGED <<head, next, created, held, node, proc, gets>>

(* node.SetNext(h.head) *)
PutLink(g) ==
  /\ pc[g] = "link"
  /\ next' = [next EXCEPT ![node[g]] = head[proc[g]]]
  /\ pc' = [pc EXCEPT ![g] = "push"]
  /\ UNCHANGED <<head, created, held, node, proc, gets>>

(* h.head = node, unpin. *)
PutPush(g) ==
  /\ pc[g] = "push"
  /\ head' = [head EXCEPT ![proc[g]] = node[g]]
  /\ node' = [node EXCEPT ![g] = Nil]
  /\ proc' = [proc EXCEPT ![g] = NoProc]
  /\ pc' = [pc EXCEPT ![g] = "idle"]
  /\ UNCHANGED <<next, created, held, gets>>

(* "GOMAXPROCS exceeds supported limit": unpin and panic. *)
PoolPanic(g, p) ==
  /\ pc[g] = "idle" /\ Unpinned(p) /\ p \notin Heads
  /\ pc' = [pc EXCEPT ![g] = "panicked"]
  /\ UNCHANGED <<head, next, created, held, node, proc, gets>>

Next ==
  \E g \in Goroutines :
    \/ GetTake(g) \/ GetReturn(g) \/ PutLink(g) \/ PutPush(g)
    \/ \E n \in Nodes : New(g, n)
    \/ \E p \in Procs :
         \/ GetPin(g, p) \/ GetMiss(g, p) \/ PoolPanic(g, p)
         \/ \E n \in Nodes : PutPin(g, n, p)

Spec == Init /\ [][Next]_vars

-----------------------------------------------------------------------------
(* Type correctness of the pool. *)
TypeOK ==
  /\ head \in [Heads -> Nodes \cup {Nil}]
  /\ next \in [Nodes -> Nodes \cup {Nil}]
  /\ created \subseteq Nodes
  /\ held \in [Goroutines -> SUBSET Nodes]
  /\ pc \in [Goroutines ->
              {"idle", "take", "clear", "new", "link", "push", "panicked"}]
  /\ node \in [Goroutines -> Nodes \cup {Nil}]
  /\ proc \in [Goroutines -> Heads \cup {NoProc}]
  /\ gets \in 0..MaxGets

(* The objects a goroutine owns: those it holds, and the one it has already*)
(* unlinked in Get or not yet linked in Put.                               *)
InHand(g) ==
  held[g] \cup (IF pc[g] \in {"clear", "link", "push"} THEN {node[g]} ELSE {})

InPool == {n \in created : \A g \in Goroutines : n \notin InHand(g)}

(* Get never hands one object to two goroutines, on whatever Ps they run   *)
(* and wherever the object was put back.                                   *)
NotShared ==
  \A g, h \in Goroutines : g # h => InHand(g) \cap InHand(h) = {}

(* The objects on the list of p: those in every set that has the head and   *)
(* is closed under the links.                                              *)
Linked(S) == \A m \in S : next[m] \in S \cup {Nil}
OnList(p) ==
  {n \in Nodes : \A S \in SUBSET Nodes : head[p] \in S \cup {Nil} /\ Linked(S) => n \in S}

(* "Objects in the pool never expire": an object nobody owns is on exactly *)
(* one list, and what is on a list is owned by nobody.                     *)
NoNodeLost ==
  /\ InPool = UNION {OnList(p) : p \in Heads}
  /\ \A p, q \in Heads : p # q => OnList(p) \cap OnList(q) = {}

(* Get and Put implement a pool of exclusively owned objects. *)
Abstract == INSTANCE ObjectPool WITH
  free <- InPool, out <- [g \in Goroutines |-> InHand(g)]

ImplementsObjectPool == Abstract!Spec
=============================================================================
