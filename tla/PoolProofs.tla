------------------------------ MODULE PoolProofs ------------------------------
(***************************************************************************)
(* The per-P pool hands every object to one goroutine at a time, loses none  *)
(* and implements ObjectPool, for any number of goroutines, Ps and objects.  *)
(* Then: every arena that a call gets from it is its own, is zero and is       *)
(* large enough, for any sizes, and executions of any numbers of devices,     *)
(* inputs and outputs.                                                       *)
(***************************************************************************)
EXTENDS ArenaPools, TLAPS

-----------------------------------------------------------------------------
(* The pool. *)

(* Where a goroutine is in Get or Put fixes what its locals hold. *)
InList == {"take", "clear", "link", "push"}

Locals ==
  \A g \in Goroutines :
    /\ pc[g] \in InList => proc[g] \in Heads /\ node[g] \in created
    /\ pc[g] \notin InList => proc[g] = NoProc /\ node[g] = Nil
    /\ pc[g] = "take" => head[proc[g]] = node[g]
    /\ pc[g] = "push" => next[node[g]] = head[proc[g]]
    /\ held[g] \subseteq created
    /\ pc[g] \in {"clear", "link", "push"} => node[g] \notin held[g]

(* The pin excludes other goroutines from the P. *)
PinExclusive ==
  \A g, h \in Goroutines : proc[g] = proc[h] /\ proc[g] # NoProc => g = h

(* The lists: heads and the links of pooled objects lead to pooled objects *)
(* and no two of them lead to the same one.  Without it, taking an object  *)
(* off one list could leave it on another.                                 *)
OneReference ==
  /\ \A p \in Heads : head[p] # Nil => head[p] \in InPool
  /\ \A n \in InPool : next[n] # Nil => next[n] \in InPool
  /\ \A p, q \in Heads : head[p] = head[q] /\ head[p] # Nil => p = q
  /\ \A m, n \in InPool : next[m] = next[n] /\ next[m] # Nil => m = n
  /\ \A p \in Heads, n \in InPool : head[p] # Nil => head[p] # next[n]

PoolInv == TypeOK /\ Locals /\ PinExclusive /\ NotShared /\ OneReference

LEMMA PoolInit == Init => PoolInv
BY PoolAssumption DEF Init, PoolInv, TypeOK, Locals, InList, PinExclusive, NotShared, InHand,
   OneReference, InPool

LEMMA TypeNext == TypeOK /\ Locals /\ [Next]_vars => TypeOK'
<1> SUFFICES ASSUME TypeOK, Locals, [Next]_vars
             PROVE  TypeOK'
  OBVIOUS
<1> USE PoolAssumption DEF TypeOK, Locals, InList
<1>1. ASSUME NEW g \in Goroutines, NEW p \in Procs,
             GetPin(g, p) \/ GetMiss(g, p) \/ PoolPanic(g, p)
      PROVE  TypeOK'
  BY <1>1 DEF GetPin, GetMiss, PoolPanic
<1>2. ASSUME NEW g \in Goroutines, NEW n \in Nodes, New(g, n)
      PROVE  TypeOK'
  BY <1>2 DEF New
<1>3. ASSUME NEW g \in Goroutines, GetTake(g) \/ GetReturn(g)
      PROVE  TypeOK'
  BY <1>3 DEF GetTake, GetReturn
<1>4. ASSUME NEW g \in Goroutines, NEW p \in Procs, NEW n \in Nodes, PutPin(g, n, p)
      PROVE  TypeOK'
  BY <1>4 DEF PutPin
<1>5. ASSUME NEW g \in Goroutines, PutLink(g) \/ PutPush(g)
      PROVE  TypeOK'
  BY <1>5 DEF PutLink, PutPush
<1>6. CASE UNCHANGED vars
  BY <1>6 DEF vars
<1> QED
  BY <1>1, <1>2, <1>3, <1>4, <1>5, <1>6 DEF Next

(* What each step does to the objects in hand and in the pool: one of the  *)
(* three moves of ObjectPool, or nothing.                                  *)
Taken(g, n) ==
  /\ n \in InPool /\ InPool' = InPool \ {n}
  /\ InHand(g)' = InHand(g) \cup {n}
  /\ \A h \in Goroutines : h # g => InHand(h)' = InHand(h)

Made(g, n) ==
  /\ n \in Nodes \ created /\ InPool' = InPool
  /\ InHand(g)' = InHand(g) \cup {n}
  /\ \A h \in Goroutines : h # g => InHand(h)' = InHand(h)

Returned(g, n) ==
  /\ n \in InHand(g) /\ InPool' = InPool \cup {n}
  /\ InHand(g)' = InHand(g) \ {n}
  /\ \A h \in Goroutines : h # g => InHand(h)' = InHand(h)

Kept == InPool' = InPool /\ \A h \in Goroutines : InHand(h)' = InHand(h)

LEMMA HandsCreated ==
  ASSUME PoolInv
  PROVE  \A g \in Goroutines : InHand(g) \subseteq created
BY DEF PoolInv, TypeOK, Locals, InList, InHand

LEMMA Moves ==
  ASSUME PoolInv, NEW g \in Goroutines
  PROVE  /\ \A p \in Procs : GetPin(g, p) \/ GetMiss(g, p) \/ PoolPanic(g, p) => Kept
         /\ \A n \in Nodes : New(g, n) => Made(g, n)
         /\ GetTake(g) => Taken(g, node[g])
         /\ GetReturn(g) => Kept
         /\ \A n \in Nodes, p \in Procs : PutPin(g, n, p) => Kept
         /\ PutLink(g) => Kept
         /\ PutPush(g) => Returned(g, node[g])
<1> USE DEF PoolInv, TypeOK, Locals, InList, InHand, InPool
<1>1. ASSUME NEW p \in Procs, GetPin(g, p) \/ GetMiss(g, p) \/ PoolPanic(g, p)
      PROVE  Kept
  BY <1>1 DEF GetPin, GetMiss, PoolPanic, Kept
<1>2. ASSUME NEW n \in Nodes, New(g, n)
      PROVE  Made(g, n)
  <2>1. \A h \in Goroutines : n \notin InHand(h)
    BY <1>2, HandsCreated DEF New
  <2>2. InHand(g)' = InHand(g) \cup {n} /\ \A h \in Goroutines : h # g => InHand(h)' = InHand(h)
    BY <1>2 DEF New
  <2> QED
    BY <1>2, <2>1, <2>2 DEF New, Made
<1>3. ASSUME GetTake(g)
      PROVE  Taken(g, node[g])
  <2>1. node[g] \in InPool
    BY <1>3, PoolAssumption DEF GetTake, OneReference
  <2>2. InHand(g)' = InHand(g) \cup {node[g]} /\ \A h \in Goroutines : h # g => InHand(h)' = InHand(h)
    BY <1>3 DEF GetTake
  <2> QED
    BY <1>3, <2>1, <2>2 DEF GetTake, Taken
<1>4. ASSUME GetReturn(g)
      PROVE  Kept
  BY <1>4 DEF GetReturn, Kept
<1>5. ASSUME NEW n \in Nodes, NEW p \in Procs, PutPin(g, n, p)
      PROVE  Kept
  BY <1>5 DEF PutPin, Kept
<1>6. ASSUME PutLink(g)
      PROVE  Kept
  BY <1>6 DEF PutLink, Kept
<1>7. ASSUME PutPush(g)
      PROVE  Returned(g, node[g])
  <2>1. InHand(g)' = InHand(g) \ {node[g]} /\ \A h \in Goroutines : h # g => InHand(h)' = InHand(h)
    BY <1>7 DEF PutPush
  <2>2. \A h \in Goroutines : h # g => node[g] \notin InHand(h)
    BY <1>7 DEF PutPush, NotShared
  <2> QED
    BY <1>7, <2>1, <2>2 DEF PutPush, Returned
<1> QED
  BY <1>1, <1>2, <1>3, <1>4, <1>5, <1>6, <1>7

LEMMA NotSharedNext == PoolInv /\ [Next]_vars => NotShared'
<1> SUFFICES ASSUME PoolInv, [Next]_vars
             PROVE  NotShared'
  OBVIOUS
<1> USE DEF PoolInv, NotShared
<1>1. CASE Kept
  BY <1>1 DEF Kept
<1>2. ASSUME NEW g \in Goroutines, NEW n, Taken(g, n) \/ Made(g, n) \/ Returned(g, n)
      PROVE  NotShared'
  <2>1. CASE Taken(g, n)
    BY <2>1 DEF Taken, InPool
  <2>2. CASE Made(g, n)
    BY <2>2, HandsCreated DEF Made
  <2>3. CASE Returned(g, n)
    BY <2>3 DEF Returned
  <2> QED
    BY <1>2, <2>1, <2>2, <2>3
<1>3. UNCHANGED vars => Kept
  BY DEF vars, Kept, InPool, InHand
<1>4. ASSUME Next
      PROVE  Kept \/ \E g \in Goroutines : \E n : Taken(g, n) \/ Made(g, n) \/ Returned(g, n)
  BY <1>4, Moves DEF Next
<1> QED
  BY <1>1, <1>2, <1>3, <1>4

LEMMA LocalsNext == PoolInv /\ [Next]_vars => Locals' /\ PinExclusive'
<1> SUFFICES ASSUME PoolInv, [Next]_vars
             PROVE  Locals' /\ PinExclusive'
  OBVIOUS
<1> USE PoolAssumption DEF PoolInv, TypeOK, Locals, InList, PinExclusive
<1>1. ASSUME NEW g \in Goroutines, NEW p \in Procs, GetPin(g, p)
      PROVE  Locals' /\ PinExclusive'
  BY <1>1 DEF GetPin, Unpinned, OneReference, InPool
<1>2. ASSUME NEW g \in Goroutines, NEW p \in Procs, GetMiss(g, p) \/ PoolPanic(g, p)
      PROVE  Locals' /\ PinExclusive'
  BY <1>2 DEF GetMiss, PoolPanic
<1>3. ASSUME NEW g \in Goroutines, NEW n \in Nodes, New(g, n)
      PROVE  Locals' /\ PinExclusive'
  BY <1>3 DEF New
<1>4. ASSUME NEW g \in Goroutines, GetTake(g)
      PROVE  Locals' /\ PinExclusive'
  <2>1. \A h \in Goroutines : node[g] \notin InHand(h)
    BY <1>4, Moves DEF Taken, InPool
  <2> QED
    BY <1>4, <2>1 DEF GetTake, InHand
<1>5. ASSUME NEW g \in Goroutines, GetReturn(g)
      PROVE  Locals' /\ PinExclusive'
  BY <1>5 DEF GetReturn, NotShared, InHand
<1>6. ASSUME NEW g \in Goroutines, NEW n \in Nodes, NEW p \in Procs, PutPin(g, n, p)
      PROVE  Locals' /\ PinExclusive'
  BY <1>6 DEF PutPin, Unpinned
<1>7. ASSUME NEW g \in Goroutines, PutLink(g)
      PROVE  Locals' /\ PinExclusive'
  BY <1>7 DEF PutLink, NotShared, InHand
<1>8. ASSUME NEW g \in Goroutines, PutPush(g)
      PROVE  Locals' /\ PinExclusive'
  BY <1>8 DEF PutPush
<1>9. CASE UNCHANGED vars
  BY <1>9 DEF vars
<1> QED
  BY <1>1, <1>2, <1>3, <1>4, <1>5, <1>6, <1>7, <1>8, <1>9 DEF Next

LEMMA OneReferenceNext == PoolInv /\ [Next]_vars => OneReference'
<1> SUFFICES ASSUME PoolInv, [Next]_vars
             PROVE  OneReference'
  OBVIOUS
<1> USE PoolAssumption DEF PoolInv, TypeOK, OneReference
<1>1. ASSUME NEW g \in Goroutines, NEW p \in Procs,
             GetPin(g, p) \/ GetMiss(g, p) \/ PoolPanic(g, p)
      PROVE  OneReference'
  BY <1>1, Moves DEF GetPin, GetMiss, PoolPanic, Kept
<1>2. ASSUME NEW g \in Goroutines, NEW n \in Nodes, New(g, n)
      PROVE  OneReference'
  BY <1>2, Moves DEF New, Made
<1>3. ASSUME NEW g \in Goroutines, GetTake(g)
      PROVE  OneReference'
  <2>1. Taken(g, node[g]) /\ proc[g] \in Heads /\ head[proc[g]] = node[g] /\ node[g] # Nil
    BY <1>3, Moves DEF GetTake, Locals, InList
  <2>2. head' = [head EXCEPT ![proc[g]] = next[node[g]]] /\ next' = next
    BY <1>3 DEF GetTake
  <2> QED
    BY <2>1, <2>2 DEF Taken
<1>4. ASSUME NEW g \in Goroutines, GetReturn(g)
      PROVE  OneReference'
  <2>1. Kept /\ node[g] \notin InPool
    BY <1>4, Moves DEF GetReturn, InPool, InHand
  <2> QED
    BY <1>4, <2>1 DEF GetReturn, Kept, InPool
<1>5. ASSUME NEW g \in Goroutines, NEW n \in Nodes, NEW p \in Procs, PutPin(g, n, p)
      PROVE  OneReference'
  BY <1>5, Moves DEF PutPin, Kept
<1>6. ASSUME NEW g \in Goroutines, PutLink(g)
      PROVE  OneReference'
  <2>1. Kept /\ node[g] \notin InPool
    BY <1>6, Moves DEF PutLink, InPool, InHand
  <2> QED
    BY <1>6, <2>1 DEF PutLink, Kept, InPool
<1>7. ASSUME NEW g \in Goroutines, PutPush(g)
      PROVE  OneReference'
  <2>1. /\ Returned(g, node[g]) /\ node[g] \notin InPool
        /\ proc[g] \in Heads /\ next[node[g]] = head[proc[g]]
    BY <1>7, Moves DEF PutPush, Locals, InList, InPool, InHand
  <2>2. head' = [head EXCEPT ![proc[g]] = node[g]] /\ next' = next
    BY <1>7 DEF PutPush
  <2> QED
    BY <2>1, <2>2 DEF Returned
<1>8. CASE UNCHANGED vars
  BY <1>8 DEF vars, InPool, InHand
<1> QED
  BY <1>1, <1>2, <1>3, <1>4, <1>5, <1>6, <1>7, <1>8 DEF Next

LEMMA PoolCorrect == Spec => []PoolInv
<1>1. PoolInv /\ [Next]_vars => PoolInv'
  BY TypeNext, LocalsNext, NotSharedNext, OneReferenceNext DEF PoolInv
<1> QED
  BY <1>1, PoolInit, PTL DEF Spec

(* An object is in the hands of at most one goroutine, however the calls   *)
(* of Get and Put interleave and whatever Ps they run on.                  *)
THEOREM ExclusiveOwnership == Spec => []NotShared
BY PoolCorrect, PTL DEF PoolInv

(* The lists of the Ps, with their pins and their two-step links, behave   *)
(* as one pool of exclusively owned objects.                               *)
THEOREM PoolImplements == Spec => ImplementsObjectPool
<1> DEFINE hands == [g \in Goroutines |-> InHand(g)]
<1>1. Init => Abstract!Init
  BY DEF Init, Abstract!Init, InPool, InHand
<1>2. PoolInv /\ [Next]_vars => [Abstract!Next]_<<InPool, hands>>
  <2> SUFFICES ASSUME PoolInv, [Next]_vars
               PROVE  Abstract!Next \/ (InPool' = InPool /\ hands' = hands)
    OBVIOUS
  <2>1. CASE Kept
    BY <2>1 DEF Kept
  <2>2. ASSUME NEW g \in Goroutines, NEW n, Taken(g, n)
        PROVE  Abstract!Next
    <3>1. hands' = [hands EXCEPT ![g] = @ \cup {n}]
      BY <2>2 DEF Taken
    <3>2. n \in Nodes
      BY <2>2 DEF Taken, InPool, PoolInv, TypeOK
    <3> QED
      BY <2>2, <3>1, <3>2 DEF Taken, Abstract!Next, Abstract!GetPooled
  <2>3. ASSUME NEW g \in Goroutines, NEW n, Made(g, n)
        PROVE  Abstract!Next
    <3>1. hands' = [hands EXCEPT ![g] = @ \cup {n}]
      BY <2>3 DEF Made
    <3>2. n \in Nodes /\ n \notin InPool /\ \A h \in Goroutines : n \notin hands[h]
      BY <2>3, HandsCreated DEF Made, InPool
    <3> QED
      BY <2>3, <3>1, <3>2 DEF Made, Abstract!Next, Abstract!GetNew
  <2>4. ASSUME NEW g \in Goroutines, NEW n, Returned(g, n)
        PROVE  Abstract!Next
    <3>1. hands' = [hands EXCEPT ![g] = @ \ {n}]
      BY <2>4 DEF Returned
    <3>2. n \in Nodes /\ n \in hands[g]
      BY <2>4, HandsCreated DEF Returned, PoolInv, TypeOK
    <3> QED
      BY <2>4, <3>1, <3>2 DEF Returned, Abstract!Next, Abstract!Put
  <2>5. UNCHANGED vars => Kept
    BY DEF vars, Kept, InPool, InHand
  <2>6. ASSUME Next
        PROVE  Kept \/ \E g \in Goroutines : \E n : Taken(g, n) \/ Made(g, n) \/ Returned(g, n)
    BY <2>6, Moves DEF Next
  <2> QED
    BY <2>1, <2>2, <2>3, <2>4, <2>5, <2>6
<1> QED
  BY <1>1, <1>2, PoolCorrect, PTL DEF Spec, ImplementsObjectPool, Abstract!Spec

-----------------------------------------------------------------------------
(* The lists lose nothing.  What is on a list comes from OneReference      *)
(* alone: the pooled objects are a set that has the heads and is closed.   *)

LEMMA ListsPooled == PoolInv => \A p \in Heads : OnList(p) \subseteq InPool
<1> SUFFICES ASSUME PoolInv, NEW p \in Heads
             PROVE  OnList(p) \subseteq InPool
  OBVIOUS
<1>1. InPool \in SUBSET Nodes /\ Linked(InPool) /\ head[p] \in InPool \cup {Nil}
  BY DEF PoolInv, TypeOK, OneReference, InPool, Linked
<1> QED
  BY <1>1 DEF OnList

(* A list has its head, and with an object the one it links to.            *)
LEMMA ListClosed ==
  ASSUME PoolInv, NEW p \in Heads
  PROVE  /\ head[p] \in OnList(p) \cup {Nil}
         /\ Linked(OnList(p))
BY DEF PoolInv, TypeOK, OnList, Linked

(* It has nothing else: what has no reference from the list is not on it.  *)
LEMMA ListLeast ==
  ASSUME PoolInv, NEW p \in Heads, NEW n \in OnList(p), head[p] # n
  PROVE  \E m \in OnList(p) : next[m] = n
<1> SUFFICES ASSUME \A m \in OnList(p) : next[m] # n
             PROVE  FALSE
  OBVIOUS
<1> DEFINE S == OnList(p) \ {n}
<1>1. S \in SUBSET Nodes
  BY DEF OnList
<1>2. head[p] \in S \cup {Nil} /\ Linked(S)
  BY ListClosed DEF Linked
<1>3. n \in S
  BY <1>1, <1>2 DEF OnList
<1> QED
  BY <1>3

LEMMA ListsApart ==
  PoolInv => \A p, q \in Heads : p # q => OnList(p) \cap OnList(q) = {}
<1> SUFFICES ASSUME PoolInv, NEW p \in Heads, NEW q \in Heads, p # q
             PROVE  OnList(p) \cap OnList(q) = {}
  OBVIOUS
<1> DEFINE S == OnList(p) \ OnList(q)
<1>1. S \in SUBSET Nodes /\ OnList(p) \subseteq InPool /\ OnList(q) \subseteq InPool
  BY ListsPooled DEF OnList
<1>2. head[p] \in S \cup {Nil}
  <2> SUFFICES ASSUME head[p] # Nil, head[p] \in OnList(q)
               PROVE  FALSE
    BY ListClosed
  <2>1. head[q] # head[p] /\ \A m \in OnList(q) : next[m] # head[p]
    BY <1>1 DEF PoolInv, OneReference
  <2> QED
    BY <2>1, ListLeast
<1>3. Linked(S)
  <2> SUFFICES ASSUME NEW m \in S, next[m] # Nil, next[m] \in OnList(q)
               PROVE  FALSE
    BY ListClosed DEF Linked
  <2>1. head[q] # next[m] /\ \A k \in OnList(q) : next[k] # next[m]
    BY <1>1 DEF PoolInv, OneReference
  <2> QED
    BY <2>1, ListLeast
<1>4. OnList(p) \subseteq S
  BY <1>1, <1>2, <1>3 DEF OnList
<1> QED
  BY <1>4

(* Every pooled object is on a list.                                       *)
AllListed == InPool \subseteq UNION {OnList(p) : p \in Heads}

(* A list does not change when its head and the links of pooled objects    *)
(* stay.                                                                   *)
LEMMA ListKept ==
  ASSUME PoolInv, PoolInv', NEW p \in Heads,
         head'[p] = head[p], \A n \in InPool : next'[n] = next[n]
  PROVE  OnList(p) \subseteq OnList(p)'
<1> SUFFICES ASSUME NEW n \in OnList(p), NEW S \in SUBSET Nodes,
                    head'[p] \in S \cup {Nil}, Linked(S)'
             PROVE  n \in S
  BY DEF OnList
<1> DEFINE T == S \cap InPool
<1>1. T \in SUBSET Nodes /\ head[p] \in T \cup {Nil} /\ Linked(T)
  BY DEF PoolInv, OneReference, Linked
<1> QED
  BY <1>1 DEF OnList

LEMMA AllListedNext == PoolInv /\ PoolInv' /\ AllListed /\ [Next]_vars => AllListed'
<1> SUFFICES ASSUME PoolInv, PoolInv', AllListed, [Next]_vars
             PROVE  AllListed'
  OBVIOUS
<1>1. ASSUME head' = head, InPool' = InPool, \A n \in InPool : next'[n] = next[n]
      PROVE  AllListed'
  BY <1>1, ListKept DEF AllListed
<1>2. ASSUME NEW g \in Goroutines, NEW p \in Procs,
             GetPin(g, p) \/ GetMiss(g, p) \/ PoolPanic(g, p)
      PROVE  AllListed'
  BY <1>1, <1>2, Moves DEF GetPin, GetMiss, PoolPanic, Kept
<1>3. ASSUME NEW g \in Goroutines, NEW n \in Nodes, New(g, n)
      PROVE  AllListed'
  BY <1>1, <1>3, Moves DEF New, Made
<1>4. ASSUME NEW g \in Goroutines, NEW n \in Nodes, NEW p \in Procs, PutPin(g, n, p)
      PROVE  AllListed'
  BY <1>1, <1>4, Moves DEF PutPin, Kept
<1>5. ASSUME NEW g \in Goroutines, GetReturn(g)
      PROVE  AllListed'
  <2>1. Kept /\ node[g] \notin InPool
    BY <1>5, Moves DEF GetReturn, InPool, InHand
  <2> QED
    BY <1>1, <1>5, <2>1 DEF GetReturn, Kept, PoolInv, TypeOK, InPool
<1>6. ASSUME NEW g \in Goroutines, PutLink(g)
      PROVE  AllListed'
  <2>1. Kept /\ node[g] \notin InPool
    BY <1>6, Moves DEF PutLink, InPool, InHand
  <2> QED
    BY <1>1, <1>6, <2>1 DEF PutLink, Kept, PoolInv, TypeOK, InPool
<1>7. ASSUME NEW g \in Goroutines, GetTake(g)
      PROVE  AllListed'
  <2>1. PICK p \in Heads, taken \in Nodes :
          p = proc[g] /\ taken = node[g] /\ head[p] = taken /\ Taken(g, node[g])
    BY <1>7, Moves DEF GetTake, PoolInv, TypeOK, Locals, InList
  <2>2. head' = [head EXCEPT ![p] = next[taken]] /\ next' = next
    BY <1>7, <2>1 DEF GetTake
  <2>3. head \in [Heads -> Nodes \cup {Nil}]
    BY DEF PoolInv, TypeOK
  <2>4. \A q \in Heads : q # p => OnList(q) \subseteq OnList(q)'
    BY <2>2, <2>3, ListKept
  <2>5. OnList(p) \ {taken} \subseteq OnList(p)'
    <3> SUFFICES ASSUME NEW n \in OnList(p), n # taken, NEW S \in SUBSET Nodes,
                        head'[p] \in S \cup {Nil}, Linked(S)'
                 PROVE  n \in S
      BY DEF OnList
    <3> DEFINE T == S \cup {taken}
    <3>1. T \in SUBSET Nodes /\ head[p] \in T \cup {Nil} /\ Linked(T)
      BY <2>1, <2>2, <2>3 DEF Linked
    <3>2. n \in T
      BY <3>1 DEF OnList
    <3> QED
      BY <3>2
  <2> QED
    BY <2>1, <2>4, <2>5 DEF AllListed, Taken
<1>8. ASSUME NEW g \in Goroutines, PutPush(g)
      PROVE  AllListed'
  <2>1. PICK p \in Heads, put \in Nodes :
          p = proc[g] /\ put = node[g] /\ next[put] = head[p] /\ Returned(g, node[g])
    <3>1. proc[g] \in Heads /\ node[g] \in Nodes /\ next[node[g]] = head[proc[g]]
      BY <1>8 DEF PutPush, PoolInv, TypeOK, Locals, InList
    <3> QED
      BY <1>8, <3>1, Moves
  <2>2. head' = [head EXCEPT ![p] = put] /\ next' = next
    BY <1>8, <2>1 DEF PutPush
  <2>3. head \in [Heads -> Nodes \cup {Nil}]
    BY DEF PoolInv, TypeOK
  <2>4. \A q \in Heads : q # p => OnList(q) \subseteq OnList(q)'
    BY <2>2, <2>3, ListKept
  <2>5. OnList(p) \cup {put} \subseteq OnList(p)'
    <3> SUFFICES ASSUME NEW S \in SUBSET Nodes, head'[p] \in S \cup {Nil}, Linked(S)'
                 PROVE  OnList(p) \cup {put} \subseteq S
      BY <2>1 DEF OnList
    <3>1. put \in S
      BY <2>1, <2>2, <2>3, PoolAssumption
    <3>2. head[p] \in S \cup {Nil} /\ Linked(S)
      BY <3>1, <2>1, <2>2 DEF Linked
    <3> QED
      BY <3>1, <3>2 DEF OnList
  <2> QED
    BY <2>1, <2>4, <2>5 DEF AllListed, Returned
<1>9. CASE UNCHANGED vars
  BY <1>1, <1>9 DEF vars, InPool, InHand
<1> QED
  BY <1>2, <1>3, <1>4, <1>5, <1>6, <1>7, <1>8, <1>9 DEF Next

(* An object that nobody has is on one list: no Get and no Put, wherever   *)
(* the goroutines are in theirs, drops an object from the pool.            *)
THEOREM ObjectsNeverLost == Spec => []NoNodeLost
<1>1. Init => AllListed
  BY DEF Init, AllListed, InPool
<1>2. PoolInv /\ AllListed => NoNodeLost
  BY ListsPooled, ListsApart DEF AllListed, NoNodeLost
<1> QED
  BY <1>1, <1>2, AllListedNext, PoolCorrect, PTL DEF Spec

-----------------------------------------------------------------------------
(* The arenas in it. *)

Ready(n) == size[n] = PoolSize /\ current[n] = 0 /\ dirty[n] = 0

(* What the pool has, and what is on its way to or from the pool. *)
PooledReady ==
  /\ pools = "open" => \A n \in created : (\A g \in Goroutines : n \notin held[g]) => Ready(n)
  /\ \A g \in Goroutines : pc[g] \in {"take", "clear"} => Ready(node[g])

(* What is true of an arena wherever it is. *)
Arena ==
  /\ \A n \in Nodes : n \notin created => size[n] = 0 /\ current[n] = 0 /\ dirty[n] = 0
  /\ \A n \in Nodes : size[n] \in {0, PoolSize}
  /\ \A a \in Arenas : RoundUp(current[a]) = current[a]
  /\ \A a \in Arenas : size[a] # 0 => dirty[a] <= current[a]

Owners ==
  /\ \A g \in down : pc[g] = "idle"
  /\ \A g, h \in Goroutines : g # h => direct[g] \cap direct[h] = {}

ArenaInv == ArenaTypeOK /\ Owners /\ Arena /\ PooledReady /\ AllocationsFit

-----------------------------------------------------------------------------
(* Rounding up to the alignment. *)
LEMMA Rounding ==
  /\ RoundUp(0) = 0
  /\ \A k \in Nat : RoundUp(k) \in Nat /\ RoundUp(k) >= k /\ RoundUp(RoundUp(k)) = RoundUp(k)
  /\ \A c, k \in Nat : RoundUp(c) = c => RoundUp(c + k) = c + RoundUp(k)
BY SMT DEF RoundUp, Align

(* The estimate of Done covers what it allocates: three words for an input   *)
(* or an output are one in its list and two for the pointers and the events  *)
(* of the devices, of which there are no more than there are outputs.       *)
LEMMA EstimateCovers ==
  ASSUME NEW e \in Executions
  PROVE  Execute(e).target \in Nat /\ Execute(e).need \in 0..Execute(e).target
<1>1. /\ e.devices \in Nat \ {0} /\ e.inputs \in Nat /\ e.kept \in 0..e.inputs
      /\ e.outputs \in Nat \ {0} /\ Margin \in Nat /\ Structs \in 0..Margin
  BY ArenaAssumption
<1> DEFINE inputs == e.devices * e.inputs
           outputs == e.devices * e.outputs
           kept == e.devices * e.kept
           lists == IF e.inputs = 0 THEN 0 ELSE 8 * (e.devices + inputs)
<1>2. inputs \in Nat /\ outputs \in Nat /\ kept \in Nat
  BY <1>1
<1>3. kept <= inputs /\ e.devices <= outputs /\ (e.inputs # 0 => e.devices <= inputs)
  BY <1>1, SMT
<1>4. Execute(e) = [target |-> (inputs + outputs) * 3 * 8 + Margin,
                    need |-> Structs + 8 * e.devices * e.kept + lists
                               + 8 * (e.devices + outputs) + 8 * e.devices]
  BY DEF Execute
<1>5. 8 * e.devices * e.kept = 8 * kept
  BY <1>1, SMT
<1> HIDE DEF inputs, outputs, kept
<1>6. Structs + 8 * kept + lists + 8 * (e.devices + outputs) + 8 * e.devices
        \in 0..((inputs + outputs) * 3 * 8 + Margin)
  BY <1>1, <1>2, <1>3
<1> QED
  BY <1>1, <1>2, <1>4, <1>5, <1>6

LEMMA CallsFit ==
  ASSUME NEW call \in Calls
  PROVE  call.target \in Nat /\ call.need \in 0..call.target
BY EstimateCovers, ArenaAssumption DEF Calls, Default

-----------------------------------------------------------------------------
(* The arenas use the pool as any other program does. *)
LEMMA PoolSteps == [ArenaNext]_<<vars, arenaVars>> => [Next]_vars
<1> SUFFICES ASSUME [ArenaNext]_<<vars, arenaVars>>
             PROVE  [Next]_vars
  OBVIOUS
<1> USE DEF Next
<1>1. ASSUME NEW g \in Goroutines, GotArena(g) \/ CallPanics(g) \/ PoolStep(g)
      PROVE  [Next]_vars
  BY <1>1 DEF GotArena, CallPanics, PoolStep
<1>2. ASSUME NEW g \in Goroutines, NEW n \in Nodes, NewArena(g, n)
      PROVE  [Next]_vars
  BY <1>2 DEF NewArena
<1>3. ASSUME NEW g \in Goroutines, NEW p \in Procs, PoolCallPanics(g, p)
      PROVE  [Next]_vars
  BY <1>3 DEF PoolCallPanics
<1>4. ASSUME NEW g \in Goroutines, NEW p \in Procs, NEW call \in Calls, GetArena(g, p, call)
      PROVE  [Next]_vars
  BY <1>4 DEF GetArena
<1>5. ASSUME NEW g \in Goroutines, NEW p \in Procs, NEW n \in Nodes, ReturnArena(g, n, p)
      PROVE  [Next]_vars
  BY <1>5 DEF ReturnArena
<1>6. ASSUME NEW g \in Goroutines, NEW a \in Large, NEW call \in Calls, GetLarge(g, a, call)
      PROVE  [Next]_vars
  BY <1>6 DEF GetLarge
<1>7. ASSUME NEW g \in Goroutines, NEW a \in Arenas,
             FreeArena(g, a) \/ \E k \in AllocSizes : Alloc(g, a, k)
      PROVE  [Next]_vars
  BY <1>7 DEF FreeArena, Alloc
<1>8. ASSUME FreePools \/ \E a \in Arenas : Collect(a)
      PROVE  [Next]_vars
  BY <1>8 DEF FreePools, Collect
<1>9. CASE UNCHANGED <<vars, arenaVars>>
  BY <1>9
<1> QED
  <2> HIDE DEF Next
  <2> QED
    BY <1>1, <1>2, <1>3, <1>4, <1>5, <1>6, <1>7, <1>8, <1>9 DEF ArenaNext

LEMMA ArenaSpecPool == ArenaSpec => Spec
BY PoolSteps, PTL DEF ArenaSpec, ArenaInit, Spec

-----------------------------------------------------------------------------
LEMMA ArenaInvInit == ArenaInit => ArenaInv
<1> SUFFICES ASSUME ArenaInit
             PROVE  ArenaInv
  OBVIOUS
<1> USE ArenaAssumption DEF ArenaInit, Init, Arenas
<1>1. ArenaTypeOK
  BY DEF ArenaTypeOK
<1>2. Owners
  BY DEF Owners
<1>3. Arena
  BY Rounding DEF Arena
<1>4. PooledReady
  BY DEF PooledReady
<1>5. AllocationsFit
  BY DEF AllocationsFit, Has
<1> QED
  BY <1>1, <1>2, <1>3, <1>4, <1>5 DEF ArenaInv

LEMMA ArenaTypeNext ==
  ASSUME PoolInv, ArenaInv, [ArenaNext]_<<vars, arenaVars>>
  PROVE  ArenaTypeOK' /\ Owners'
<1> USE ArenaAssumption DEF ArenaInv, ArenaTypeOK, Owners, PoolInv, TypeOK, Running, Arenas
<1>1. ASSUME NEW g \in Goroutines, GotArena(g) \/ CallPanics(g) \/ PoolStep(g)
      PROVE  ArenaTypeOK' /\ Owners'
  BY <1>1 DEF GotArena, CallPanics, PoolStep, arenaVars, vars, GetReturn, GetTake, PutLink, PutPush,
              Locals, InList
<1>2. ASSUME NEW g \in Goroutines, NEW n \in Nodes, NewArena(g, n)
      PROVE  ArenaTypeOK' /\ Owners'
  BY <1>2 DEF NewArena, New
<1>3. ASSUME NEW g \in Goroutines, NEW p \in Procs, PoolCallPanics(g, p)
      PROVE  ArenaTypeOK' /\ Owners'
  BY <1>3 DEF PoolCallPanics, PoolPanic, arenaVars
<1>4. ASSUME NEW g \in Goroutines, NEW p \in Procs, NEW call \in Calls, GetArena(g, p, call)
      PROVE  ArenaTypeOK' /\ Owners'
  <2>1. call.need \in 0..PoolSize
    BY <1>4, CallsFit DEF GetArena
  <2> QED
    BY <1>4, <2>1 DEF GetArena, GetPin, GetMiss
<1>5. ASSUME NEW g \in Goroutines, NEW p \in Procs, NEW n \in Nodes, ReturnArena(g, n, p)
      PROVE  ArenaTypeOK' /\ Owners'
  BY <1>5 DEF ReturnArena, PutPin, Reset
<1>6. ASSUME NEW g \in Goroutines, NEW a \in Large, NEW call \in Calls, GetLarge(g, a, call)
      PROVE  ArenaTypeOK' /\ Owners'
  <2>1. call.need \in Nat /\ call.target \in Nat
    BY CallsFit
  <2> QED
    BY <1>6, <2>1 DEF GetLarge, vars
<1>7. ASSUME NEW g \in Goroutines, NEW a \in Arenas, FreeArena(g, a)
      PROVE  ArenaTypeOK' /\ Owners'
  BY <1>7 DEF FreeArena, vars
<1>8. ASSUME NEW g \in Goroutines, NEW a \in Arenas, NEW k \in AllocSizes, Alloc(g, a, k)
      PROVE  ArenaTypeOK' /\ Owners'
  <2>1. /\ RoundUp(current[a] + k) \in Nat /\ RoundUp(k) \in Nat
        /\ need[a] - RoundUp(k) \in Nat
    <3>1. k \in Nat /\ current[a] + k \in Nat
      OBVIOUS
    <3>2. RoundUp(current[a] + k) \in Nat /\ RoundUp(k) \in Nat
      BY <3>1, Rounding
    <3> QED
      BY <1>8, <3>2 DEF Alloc
  <2> QED
    BY <1>8, <2>1 DEF Alloc, vars
<1>9. ASSUME FreePools \/ \E a \in Arenas : Collect(a)
      PROVE  ArenaTypeOK' /\ Owners'
  BY <1>9 DEF FreePools, EmptyPools, DropPools, Collect, vars
<1>10. CASE UNCHANGED <<vars, arenaVars>>
  BY <1>10 DEF vars, arenaVars
<1> QED
  BY <1>1, <1>2, <1>3, <1>4, <1>5, <1>6, <1>7, <1>8, <1>9, <1>10 DEF ArenaNext

(* Who can have an arena, so that a step of one goroutine with an arena does *)
(* not concern the arenas of the others, nor those of the pool.             *)
LEMMA Apart ==
  ASSUME PoolInv, ArenaInv
  PROVE  /\ \A g, h \in Goroutines : g # h => held[g] \cap held[h] = {} /\ Has(g) \cap Has(h) = {}
         /\ \A g, h \in Goroutines : pc[h] \in {"take", "clear"} =>
              node[h] \in created /\ node[h] \in Nodes /\ node[h] \notin held[g]
         /\ \A n \in created : (\A g \in Goroutines : n \notin held[g]) =>
              n \in InPool \/ \E g \in Goroutines : Running(g) /\ n \in InHand(g)
         /\ \A g \in Goroutines : held[g] \subseteq created /\ held[g] \subseteq Nodes
         /\ \A h \in Goroutines : pc[h] = "take" => node[h] \in InPool
<1> USE DEF PoolInv, TypeOK, Locals, InList, ArenaInv, ArenaTypeOK, Owners
<1>1. \A g, h \in Goroutines : g # h => held[g] \cap held[h] = {}
  BY DEF NotShared, InHand
<1>2. \A g, h \in Goroutines : g # h => Has(g) \cap Has(h) = {}
  BY <1>1, ArenaAssumption DEF Has
<1>3. \A h \in Goroutines : pc[h] = "take" => node[h] \in InPool
  BY PoolAssumption DEF OneReference
<1>4. ASSUME NEW g \in Goroutines, NEW h \in Goroutines, pc[h] \in {"take", "clear"}
      PROVE  node[h] \in created /\ node[h] \in Nodes /\ node[h] \notin held[g]
  <2>1. CASE pc[h] = "take"
    BY <1>3, <2>1 DEF InPool, InHand
  <2>2. CASE pc[h] = "clear"
    BY <2>2 DEF NotShared, InHand
  <2> QED
    BY <1>4, <2>1, <2>2
<1>5. ASSUME NEW n \in created, \A g \in Goroutines : n \notin held[g], n \notin InPool
      PROVE  \E g \in Goroutines : Running(g) /\ n \in InHand(g)
  <2>1. PICK g \in Goroutines : n \in InHand(g)
    BY <1>5 DEF InPool
  <2>2. pc[g] \in {"clear", "link", "push"}
    BY <1>5, <2>1 DEF InHand
  <2> QED
    BY <2>1, <2>2 DEF Running
<1> QED
  BY <1>1, <1>2, <1>3, <1>4, <1>5

(* What a step does to the arenas other than those it is about. *)
ArenaKept(a) ==
  size[a]' = size[a] /\ current[a]' = current[a] /\ dirty[a]' = dirty[a] /\ need[a]' = need[a]

(* Reset clears all that a call can have written. *)
LEMMA ResetClears ==
  ASSUME PoolInv, ArenaInv, NEW g \in Goroutines, NEW n \in Nodes, NEW p \in Procs,
         ReturnArena(g, n, p)
  PROVE  /\ size[n] = PoolSize /\ size' = size /\ pools' = pools
         /\ current' = [current EXCEPT ![n] = 0] /\ dirty' = [dirty EXCEPT ![n] = 0]
<1> USE DEF ArenaInv, ArenaTypeOK, Arenas
<1>1. Running(g) /\ n \in Has(g) /\ size[n] # 0 /\ Reset(n)
  BY DEF ReturnArena, PutPin, Has
<1>2. current[n] \in Nat /\ need[n] \in Nat /\ size[n] \in Nat /\ dirty[n] \in Nat
  OBVIOUS
<1>3. current[n] + need[n] <= size[n]
  BY <1>1 DEF AllocationsFit
<1>4. size[n] = PoolSize /\ dirty[n] <= current[n]
  BY <1>1 DEF Arena
<1>5. current[n] <= size[n] /\ dirty[n] <= size[n]
  BY <1>2, <1>3, <1>4
<1>6. dirty' = [dirty EXCEPT ![n] = 0]
  BY <1>1, <1>4, <1>5 DEF Reset
<1> QED
  BY <1>1, <1>4, <1>6 DEF ReturnArena, Reset

LEMMA ArenaNextPart ==
  ASSUME PoolInv, ArenaInv, [ArenaNext]_<<vars, arenaVars>>
  PROVE  Arena'
<1> USE ArenaAssumption DEF ArenaInv, Arena, ArenaTypeOK, Arenas, PoolInv, TypeOK
<1>1. ASSUME NEW g \in Goroutines, GotArena(g) \/ CallPanics(g) \/ PoolStep(g)
      PROVE  Arena'
  BY <1>1 DEF GotArena, CallPanics, PoolStep, arenaVars, vars, GetReturn, GetTake, PutLink, PutPush
<1>2. ASSUME NEW g \in Goroutines, NEW n \in Nodes, NewArena(g, n)
      PROVE  Arena'
  BY <1>2 DEF NewArena, New
<1>3. ASSUME NEW g \in Goroutines, NEW p \in Procs, PoolCallPanics(g, p)
      PROVE  Arena'
  BY <1>3 DEF PoolCallPanics, PoolPanic, arenaVars
<1>4. ASSUME NEW g \in Goroutines, NEW p \in Procs, NEW call \in Calls, GetArena(g, p, call)
      PROVE  Arena'
  BY <1>4 DEF GetArena, GetPin, GetMiss
<1>5. ASSUME NEW g \in Goroutines, NEW p \in Procs, NEW n \in Nodes, ReturnArena(g, n, p)
      PROVE  Arena'
  <2>1. /\ current' = [current EXCEPT ![n] = 0] /\ dirty' = [dirty EXCEPT ![n] = 0]
        /\ size' = size /\ created' = created
    BY <1>5, ResetClears DEF ReturnArena, PutPin
  <2>2. n \in created
    BY <1>5, Apart DEF ReturnArena, PutPin
  <2> QED
    BY <2>1, <2>2, Rounding
<1>6. ASSUME NEW g \in Goroutines, NEW a \in Large, NEW call \in Calls, GetLarge(g, a, call)
      PROVE  Arena'
  <2>1. /\ size' = [size EXCEPT ![a] = call.target] /\ current' = [current EXCEPT ![a] = 0]
        /\ dirty' = [dirty EXCEPT ![a] = 0] /\ created' = created
    BY <1>6 DEF GetLarge, vars
  <2>2. a \in Arenas /\ a \notin Nodes
    OBVIOUS
  <2> QED
    BY <2>1, <2>2, Rounding
<1>7. ASSUME NEW g \in Goroutines, NEW a \in Arenas, FreeArena(g, a)
      PROVE  Arena'
  <2>1. a \in Nodes => a \in created
    BY <1>7, Apart DEF FreeArena, Has, Owners
  <2> QED
    BY <1>7, <2>1, Rounding DEF FreeArena, vars
<1>8. ASSUME NEW g \in Goroutines, NEW a \in Arenas, NEW k \in AllocSizes, Alloc(g, a, k)
      PROVE  Arena'
  <2>1. a \in Nodes => a \in created
    BY <1>8, Apart DEF Alloc, Has
  <2>2. LET c == RoundUp(current[a] + k) IN c \in Nat /\ RoundUp(c) = c
    <3>1. k \in Nat /\ current[a] + k \in Nat
      OBVIOUS
    <3> QED
      BY <3>1, Rounding
  <2>3. /\ current' = [current EXCEPT ![a] = RoundUp(current[a] + k)]
        /\ dirty' = [dirty EXCEPT ![a] = RoundUp(current[a] + k)]
        /\ size' = size /\ created' = created
    BY <1>8 DEF Alloc, vars
  <2> QED
    BY <2>1, <2>2, <2>3
<1>9. ASSUME FreePools \/ \E a \in Arenas : Collect(a)
      PROVE  Arena'
  BY <1>9 DEF FreePools, Collect, vars
<1>10. CASE UNCHANGED <<vars, arenaVars>>
  BY <1>10 DEF vars, arenaVars
<1> QED
  BY <1>1, <1>2, <1>3, <1>4, <1>5, <1>6, <1>7, <1>8, <1>9, <1>10 DEF ArenaNext

LEMMA ReadyNextPart ==
  ASSUME PoolInv, ArenaInv, [ArenaNext]_<<vars, arenaVars>>
  PROVE  PooledReady'
<1> USE ArenaAssumption DEF ArenaInv, PooledReady, Ready, ArenaTypeOK, Arenas, PoolInv, TypeOK
<1>1. ASSUME NEW g \in Goroutines, GotArena(g)
      PROVE  PooledReady'
  BY <1>1 DEF GotArena, GetReturn
<1>2. ASSUME NEW g \in Goroutines, CallPanics(g) \/ PoolStep(g)
      PROVE  PooledReady'
  BY <1>2 DEF CallPanics, PoolStep, arenaVars, vars, GetTake, PutLink, PutPush
<1>3. ASSUME NEW g \in Goroutines, NEW n \in Nodes, NewArena(g, n)
      PROVE  PooledReady'
  <2>1. \A h \in Goroutines : pc[h] \in {"take", "clear"} => node[h] # n
    BY <1>3, Apart DEF NewArena, New
  <2> QED
    BY <1>3, <2>1, Apart DEF NewArena, New
<1>4. ASSUME NEW g \in Goroutines, NEW p \in Procs, PoolCallPanics(g, p)
      PROVE  PooledReady'
  BY <1>4 DEF PoolCallPanics, PoolPanic, arenaVars
<1>5. ASSUME NEW g \in Goroutines, NEW p \in Procs, NEW call \in Calls, GetArena(g, p, call)
      PROVE  PooledReady'
  <2>1. CASE GetMiss(g, p)
    BY <1>5, <2>1 DEF GetArena, GetMiss
  <2>2. CASE GetPin(g, p)
    <3>1. head[p] \in InPool
      BY <2>2 DEF GetPin, OneReference
    <3>2. Ready(head[p])
      BY <1>5, <3>1 DEF GetArena, InPool, InHand
    <3> QED
      BY <1>5, <2>2, <3>2 DEF GetArena, GetPin
  <2> QED
    BY <1>5, <2>1, <2>2 DEF GetArena
<1>6. ASSUME NEW g \in Goroutines, NEW p \in Procs, NEW n \in Nodes, ReturnArena(g, n, p)
      PROVE  PooledReady'
  <2>1. /\ size[n] = PoolSize /\ size' = size /\ pools' = pools
        /\ current' = [current EXCEPT ![n] = 0] /\ dirty' = [dirty EXCEPT ![n] = 0]
    BY <1>6, ResetClears
  <2>2. \A h \in Goroutines : pc[h] \in {"take", "clear"} => node[h] # n
    BY <1>6, Apart DEF ReturnArena, PutPin
  <2> QED
    BY <1>6, <2>1, <2>2, Apart DEF ReturnArena, PutPin
<1>7. ASSUME NEW g \in Goroutines, NEW a \in Large, NEW call \in Calls, GetLarge(g, a, call)
      PROVE  PooledReady'
  <2>1. \A n \in Nodes : n # a
    OBVIOUS
  <2> QED
    BY <1>7, <2>1, Apart DEF GetLarge, vars
<1>8. ASSUME NEW g \in Goroutines, NEW a \in Arenas,
             FreeArena(g, a) \/ \E k \in AllocSizes : Alloc(g, a, k)
      PROVE  PooledReady'
  <2>1. /\ \A n \in Nodes : n # a => ArenaKept(n)
        /\ UNCHANGED <<pools, vars>>
    BY <1>8 DEF FreeArena, Alloc, ArenaKept
  <2>2. a \in held[g] \/ a \in Large
    BY <1>8 DEF FreeArena, Alloc, Has
  <2>3. a \in Large => a \notin Nodes
    OBVIOUS
  <2>4. \A h \in Goroutines : pc[h] \in {"take", "clear"} => node[h] # a
    BY <2>2, <2>3, Apart
  <2> QED
    BY <2>1, <2>2, <2>3, <2>4, Apart DEF vars, ArenaKept
<1>9. ASSUME NEW a \in Arenas, Collect(a)
      PROVE  PooledReady'
  <2>1. \A h \in Goroutines : pc[h] \in {"take", "clear"} => node[h] # a
    BY <1>9, Apart DEF Collect, Unreachable, Running, InHand, Owners
  <2>2. pools = "open" => a \notin created \/ \E g \in Goroutines : a \in held[g]
    BY <1>9, Apart DEF Collect, Unreachable
  <2> QED
    BY <1>9, <2>1, <2>2, Apart DEF Collect, vars
<1>10. CASE FreePools
  BY <1>10 DEF FreePools, EmptyPools, DropPools, vars
<1>11. CASE UNCHANGED <<vars, arenaVars>>
  BY <1>11 DEF vars, arenaVars
<1> QED
  BY <1>1, <1>2, <1>3, <1>4, <1>5, <1>6, <1>7, <1>8, <1>9, <1>10, <1>11 DEF ArenaNext

LEMMA FitNextPart ==
  ASSUME PoolInv, ArenaInv, [ArenaNext]_<<vars, arenaVars>>
  PROVE  AllocationsFit'
<1> USE ArenaAssumption DEF ArenaInv, AllocationsFit, Has, Running, ArenaTypeOK, Arenas, PoolInv, TypeOK
<1>1. ASSUME NEW g \in Goroutines, GotArena(g)
      PROVE  AllocationsFit'
  <2>1. pc[g] = "clear" /\ Ready(node[g]) /\ node[g] \in Nodes
    BY <1>1, Apart DEF GotArena, GetReturn, PooledReady
  <2>2. need' = [need EXCEPT ![node[g]] = wanted[g]]
    BY <1>1 DEF GotArena
  <2>3. \A h \in Goroutines : h # g => node[g] \notin Has(h)
    BY <2>1, Apart
  <2> QED
    BY <1>1, <2>1, <2>2, <2>3 DEF GotArena, GetReturn, Ready
<1>2. ASSUME NEW g \in Goroutines, CallPanics(g) \/ PoolStep(g)
      PROVE  AllocationsFit'
  BY <1>2 DEF CallPanics, PoolStep, arenaVars, vars, GetTake, PutLink, PutPush
<1>3. ASSUME NEW g \in Goroutines, NEW n \in Nodes, NewArena(g, n)
      PROVE  AllocationsFit'
  <2>1. current[n] = 0 /\ \A h \in Goroutines : n \notin Has(h)
    BY <1>3, Apart DEF NewArena, New, Arena
  <2> QED
    BY <1>3, <2>1 DEF NewArena, New
<1>4. ASSUME NEW g \in Goroutines, NEW p \in Procs, PoolCallPanics(g, p)
      PROVE  AllocationsFit'
  BY <1>4 DEF PoolCallPanics, PoolPanic, arenaVars
<1>5. ASSUME NEW g \in Goroutines, NEW p \in Procs, NEW call \in Calls, GetArena(g, p, call)
      PROVE  AllocationsFit'
  BY <1>5 DEF GetArena, GetPin, GetMiss
<1>6. ASSUME NEW g \in Goroutines, NEW p \in Procs, NEW n \in Nodes, ReturnArena(g, n, p)
      PROVE  AllocationsFit'
  <2>1. \A h \in Goroutines : n \notin Has(h)'
    BY <1>6, Apart DEF ReturnArena, PutPin
  <2>2. \A a \in Arenas : a # n => ArenaKept(a)
    <3>1. /\ size' = size /\ current' = [current EXCEPT ![n] = 0]
          /\ dirty' = [dirty EXCEPT ![n] = 0]
      BY <1>6, ResetClears
    <3>2. need' = [need EXCEPT ![n] = 0]
      BY <1>6 DEF ReturnArena
    <3> QED
      BY <3>1, <3>2 DEF ArenaKept
  <2> QED
    BY <1>6, <2>1, <2>2 DEF ReturnArena, PutPin, ArenaKept
<1>7. ASSUME NEW g \in Goroutines, NEW a \in Large, NEW call \in Calls, GetLarge(g, a, call)
      PROVE  AllocationsFit'
  <2>1. \A h \in Goroutines : a \notin Has(h)
    BY <1>7, Apart DEF GetLarge
  <2>2. call.need \in 0..call.target /\ call.target \in Nat
    BY CallsFit
  <2> QED
    BY <1>7, <2>1, <2>2 DEF GetLarge, vars
<1>8. ASSUME NEW g \in Goroutines, NEW a \in Arenas, FreeArena(g, a)
      PROVE  AllocationsFit'
  BY <1>8 DEF FreeArena, vars
<1>9. ASSUME NEW g \in Goroutines, NEW a \in Arenas, NEW k \in AllocSizes, Alloc(g, a, k)
      PROVE  AllocationsFit'
  <2>1. k \in Nat /\ RoundUp(current[a]) = current[a] /\ current[a] \in Nat
    BY DEF Arena
  <2>2. RoundUp(current[a] + k) = current[a] + RoundUp(k) /\ RoundUp(k) \in Nat
    BY <2>1, Rounding
  <2>3. /\ current' = [current EXCEPT ![a] = current[a] + RoundUp(k)]
        /\ need' = [need EXCEPT ![a] = need[a] - RoundUp(k)]
        /\ UNCHANGED <<size, vars, direct, down>>
    BY <1>9, <2>2 DEF Alloc
  <2>4. \A b \in Arenas : current'[b] + need'[b] = current[b] + need[b]
    BY <2>1, <2>2, <2>3
  <2> QED
    BY <2>3, <2>4 DEF vars
<1>10. ASSUME NEW a \in Arenas, Collect(a)
      PROVE  AllocationsFit'
  <2>1. \A g \in Goroutines : Running(g) => a \notin Has(g)
    BY <1>10 DEF Collect, Unreachable, InHand
  <2> QED
    BY <1>10, <2>1 DEF Collect, vars
<1>11. CASE FreePools
  BY <1>11 DEF FreePools, vars
<1>12. CASE UNCHANGED <<vars, arenaVars>>
  BY <1>12 DEF vars, arenaVars
<1> QED
  BY <1>1, <1>2, <1>3, <1>4, <1>5, <1>6, <1>7, <1>8, <1>9, <1>10, <1>11, <1>12 DEF ArenaNext

LEMMA ArenaCorrect == ArenaSpec => [](PoolInv /\ ArenaInv)
<1>1. PoolInv /\ ArenaInv /\ [ArenaNext]_<<vars, arenaVars>> => ArenaInv'
  BY ArenaTypeNext, ArenaNextPart, ReadyNextPart, FitNextPart DEF ArenaInv
<1> QED
  BY <1>1, ArenaInvInit, ArenaSpecPool, PoolCorrect, PTL DEF ArenaSpec

(* However calls of the API interleave, end early, or overlap Plugin.Free,   *)
(* none runs out of its arena or loses it.  In particular, the size Done     *)
(* asks for is enough for all it allocates.                                 *)
THEOREM CallsHaveTheirMemory == ArenaSpec => []AllocationsFit
BY ArenaCorrect, PTL DEF ArenaInv

(* The arenas of the pool are empty and zero as long as the plugin has it:   *)
(* those that no call has, the pool's own, were cleared by Reset.            *)
THEOREM PooledArenasReady == ArenaSpec => []FreeArenasReady
<1>1. PoolInv /\ ArenaInv => FreeArenasReady
  BY DEF ArenaInv, PooledReady, Ready, FreeArenasReady, InPool, InHand
<1> QED
  BY <1>1, ArenaCorrect, PTL

(* What is proved of the pool holds of it as the arenas use it. *)
THEOREM ArenasNotShared == ArenaSpec => []NotShared
BY ArenaSpecPool, ExclusiveOwnership, PTL

(* No arena is ever dropped from the pool: the calls that put one back and *)
(* those that panic leave each on one list or with one call.               *)
THEOREM ArenasNeverLost == ArenaSpec => []NoNodeLost
BY ArenaSpecPool, ObjectsNeverLost, PTL
===============================================================================
