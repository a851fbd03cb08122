----------------------------- MODULE ArenaPools -----------------------------
(***************************************************************************)
(* pjrt's arenas over internal/pool: C memory for the arguments of one      *)
(* call of the PJRT API.  A call gets an arena, allocates from it, and      *)
(* returns it when it ends, early or not.  The plugin may be freed          *)
(* meanwhile.                                                              *)
(*                                                                         *)
(* arenaPools has one pool for each power of two up to the largest; they    *)
(* differ in the size of their arenas only, and one of them is followed, so *)
(* PoolSize is both the smallest and the largest pooled size.  The variables *)
(* and actions of the pool are those of ProcPool.                           *)
(***************************************************************************)
EXTENDS ProcPool, Integers

CONSTANTS
  Large,       \* identities of the arenas that are allocated directly
  PoolSize,    \* bytes of a pooled arena
  Margin,      \* the 1024 bytes Done adds for structures
  Structs,     \* the bytes of those structures
  CallNeeds,   \* bytes allocated by calls that ask for an arena of default size
  Executions,  \* executions: devices, and per device inputs, those of them
               \* that are kept, and outputs
  AllocSizes   \* sizes of single allocations

Align == 8
RoundUp(k) == ((k + Align - 1) \div Align) * Align

(* "Rank" and structures of the default calls fit a default arena; every    *)
(* program has an output, without which Done fails otherwise.               *)
ASSUME ArenaAssumption ==
  /\ Large \cap Nodes = {}
  /\ PoolSize \in Nat /\ RoundUp(PoolSize) = PoolSize
  /\ Margin \in Nat /\ Structs \in 0..Margin
  /\ CallNeeds \subseteq 0..PoolSize
  /\ Executions \subseteq [devices : Nat \ {0}, inputs : Nat, kept : Nat, outputs : Nat \ {0}]
  /\ \A e \in Executions : e.kept <= e.inputs
  /\ AllocSizes \subseteq Nat

Arenas == Nodes \cup Large

VARIABLES
  pools,    \* "open", "emptied" once ap.pools is nil, "dropped" once p.arenaPools is
  size,     \* the bytes of memory each arena has, zero without
  current,  \* where its next allocation starts
  dirty,    \* the bytes at its start that may not be zero
  need,     \* the bytes the call that has it will still allocate
  wanted,   \* for a goroutine inside Get, the bytes its call needs
  direct,   \* the arenas of Large each goroutine has
  down      \* the goroutines that have panicked outside the pool

arenaVars == <<pools, size, current, dirty, need, wanted, direct, down>>

ArenaInit ==
  /\ Init
  /\ pools = "open"
  /\ size = [a \in Arenas |-> 0]
  /\ current = [a \in Arenas |-> 0]
  /\ dirty = [a \in Arenas |-> 0]
  /\ need = [a \in Arenas |-> 0]
  /\ wanted = [g \in Goroutines |-> 0]
  /\ direct = [g \in Goroutines |-> {}]
  /\ down = {}

-----------------------------------------------------------------------------
(* Calls, as the size of the arena they ask for and the bytes they need.    *)
Default(bytes) == [target |-> PoolSize, need |-> bytes]

(* Seeded bug: Done counts two words for each input and output. *)
Execute_TwoWords(e) ==
  LET inputs == e.devices * e.inputs
      outputs == e.devices * e.outputs
  IN [target |-> (inputs + outputs) * 2 * 8 + Margin,
      need |-> Structs + 8 * e.devices * e.kept
                 + (IF e.inputs = 0 THEN 0 ELSE 8 * (e.devices + inputs))
                 + 8 * (e.devices + outputs)
                 + 8 * e.devices]

(* Done: the structures, the indices of the inputs that are kept, for inputs *)
(* and for outputs a pointer per device and per buffer, an event per device. *)
Execute(e) ==
  LET inputs == e.devices * e.inputs
      outputs == e.devices * e.outputs
  IN [target |-> (inputs + outputs) * 3 * 8 + Margin,
      need |-> Structs + 8 * e.devices * e.kept
                 + (IF e.inputs = 0 THEN 0 ELSE 8 * (e.devices + inputs))
                 + 8 * (e.devices + outputs)
                 + 8 * e.devices]

Calls == {Default(bytes) : bytes \in CallNeeds} \cup {Execute(e) : e \in Executions}

Running(g) == g \notin down /\ pc[g] # "panicked"
Has(g) == held[g] \cup direct[g]

(* arenaPools.Get, of a size that is pooled. *)
GetArena(g, p, call) ==
  /\ Running(g) /\ pools = "open" /\ call.target <= PoolSize
  /\ GetPin(g, p) \/ GetMiss(g, p)
  /\ wanted' = [wanted EXCEPT ![g] = call.need]
  /\ UNCHANGED <<pools, size, current, dirty, need, direct, down>>

(* The pool's New: calloc gives memory that is zero. *)
NewArena(g, n) ==
  /\ Running(g) /\ New(g, n)
  /\ size' = [size EXCEPT ![n] = PoolSize]
  /\ need' = [need EXCEPT ![n] = wanted[g]]
  /\ wanted' = [wanted EXCEPT ![g] = 0]
  /\ UNCHANGED <<pools, current, dirty, direct, down>>

GotArena(g) ==
  /\ Running(g) /\ GetReturn(g)
  /\ need' = [need EXCEPT ![node[g]] = wanted[g]]
  /\ wanted' = [wanted EXCEPT ![g] = 0]
  /\ UNCHANGED <<pools, size, current, dirty, direct, down>>

(* A size above the pooled ones: the pools are not looked at. *)
GetLarge(g, a, call) ==
  /\ Running(g) /\ pc[g] = "idle" /\ pools # "dropped" /\ call.target > PoolSize
  /\ size[a] = 0 /\ \A h \in Goroutines : a \notin direct[h]
  /\ size' = [size EXCEPT ![a] = call.target]
  /\ current' = [current EXCEPT ![a] = 0]
  /\ dirty' = [dirty EXCEPT ![a] = 0]
  /\ need' = [need EXCEPT ![a] = call.need]
  /\ direct' = [direct EXCEPT ![g] = @ \cup {a}]
  /\ UNCHANGED <<vars, pools, wanted, down>>

(* arenaAlloc and arenaAllocSlice: the bytes are then written by the call.   *)
(* The size is compared before it is rounded up.                            *)
Alloc(g, a, k) ==
  /\ Running(g) /\ pc[g] = "idle" /\ a \in Has(g)
  /\ RoundUp(k) <= need[a]
  /\ current[a] + k <= size[a]
  /\ current' = [current EXCEPT ![a] = RoundUp(@ + k)]
  /\ dirty' = [dirty EXCEPT ![a] = RoundUp(current[a] + k)]
  /\ need' = [need EXCEPT ![a] = @ - RoundUp(k)]
  /\ UNCHANGED <<vars, pools, size, wanted, direct, down>>

(* Seeded bug: the place of the next allocation is reset before it is used   *)
(* as the length to clear.                                                  *)
Reset_First(a) ==
  /\ current' = [current EXCEPT ![a] = 0]
  /\ UNCHANGED dirty
Reset(a) ==
  /\ current' = [current EXCEPT ![a] = 0]
  /\ dirty' = [dirty EXCEPT ![a] = IF @ <= current[a] /\ @ <= size[a] THEN 0 ELSE @]

(* arenaPools.Return, as far as the pool's Put has pinned the goroutine.     *)
ReturnArena(g, n, p) ==
  /\ Running(g) /\ pools = "open" /\ size[n] # 0
  /\ PutPin(g, n, p) /\ Reset(n)
  /\ need' = [need EXCEPT ![n] = 0]
  /\ UNCHANGED <<pools, size, wanted, direct, down>>

(* Return frees an arena that no pool can take: a large one, or any while    *)
(* Plugin.Free has emptied arenaPools but still has it.  A pooled one stays  *)
(* with the goroutine, without memory.                                      *)
FreeArena(g, a) ==
  /\ Running(g) /\ pc[g] = "idle" /\ a \in Has(g) /\ size[a] # 0
  /\ a \in Large \/ pools = "emptied"
  /\ size' = [size EXCEPT ![a] = 0]
  /\ current' = [current EXCEPT ![a] = 0]
  /\ need' = [need EXCEPT ![a] = 0]
  /\ direct' = [direct EXCEPT ![g] = @ \ {a}]
  /\ UNCHANGED <<vars, pools, dirty, wanted, down>>

-----------------------------------------------------------------------------
(* Plugin.Free: no call is waited for. *)
EmptyPools == pools = "open" /\ pools' = "emptied"
DropPools == pools = "emptied" /\ pools' = "dropped"
FreePools ==
  /\ EmptyPools \/ DropPools
  /\ UNCHANGED <<vars, size, current, dirty, need, wanted, direct, down>>

(* A call gets an arena, or returns a pooled one, of a plugin that is freed: *)
(* a list without elements, or a nil pointer, is indexed.                   *)
CallPanics(g) ==
  /\ Running(g) /\ pc[g] = "idle" /\ pools # "open"
  /\ down' = down \cup {g}
  /\ UNCHANGED <<vars, pools, size, current, dirty, need, wanted, direct>>

(* The pool panics, on a P without a list; see ProcPool. *)
PoolCallPanics(g, p) ==
  /\ Running(g) /\ PoolPanic(g, p)
  /\ UNCHANGED arenaVars

(* The other steps of Get and Put. *)
PoolStep(g) ==
  /\ Running(g) /\ (GetTake(g) \/ PutLink(g) \/ PutPush(g))
  /\ UNCHANGED arenaVars

(* Nothing leads to the arena: no call has it, and if it is in the pool,     *)
(* nothing leads to the pool.                                               *)
Unreachable(a) ==
  /\ \A g \in Goroutines : Running(g) => a \notin InHand(g) \cup direct[g]
  /\ a \in InPool => pools # "open" /\ \A g \in Goroutines : pc[g] \in {"idle", "panicked"}

(* The collector runs the cleanup of the arena, which frees the memory. *)
Collect(a) ==
  /\ size[a] # 0 /\ Unreachable(a)
  /\ size' = [size EXCEPT ![a] = 0]
  /\ UNCHANGED <<vars, pools, current, dirty, need, wanted, direct, down>>

ArenaNext ==
  \/ FreePools
  \/ \E a \in Arenas : Collect(a)
  \/ \E g \in Goroutines :
       \/ GotArena(g) \/ CallPanics(g) \/ PoolStep(g)
       \/ \E n \in Nodes : NewArena(g, n)
       \/ \E p \in Procs :
            \/ PoolCallPanics(g, p)
            \/ \E call \in Calls : GetArena(g, p, call)
            \/ \E n \in Nodes : ReturnArena(g, n, p)
       \/ \E a \in Large, call \in Calls : GetLarge(g, a, call)
       \/ \E a \in Arenas : FreeArena(g, a) \/ \E k \in AllocSizes : Alloc(g, a, k)

ArenaSpec == ArenaInit /\ [][ArenaNext]_<<vars, arenaVars>>

-----------------------------------------------------------------------------
(* Type correctness of the arenas. *)
ArenaTypeOK ==
  /\ pools \in {"open", "emptied", "dropped"}
  /\ size \in [Arenas -> Nat]
  /\ current \in [Arenas -> Nat]
  /\ dirty \in [Arenas -> Nat]
  /\ need \in [Arenas -> Nat]
  /\ wanted \in [Goroutines -> 0..PoolSize]
  /\ direct \in [Goroutines -> SUBSET Large]
  /\ down \subseteq Goroutines

(* "The returned arena is reset and ready to use": while the plugin is there, *)
(* whatever calls had the arenas of the pool and however these ended, their   *)
(* memory is allocated, all of it is free, and all of it is zero, which the   *)
(* optional fields of the structures of PJRT rely on.                        *)
FreeArenasReady ==
  pools = "open" =>
    \A n \in InPool : size[n] = PoolSize /\ current[n] = 0 /\ dirty[n] = 0

(* A call never runs out of its arena, nor does it lose it to another call,   *)
(* to Plugin.Free or to the collector: the memory holds what it has allocated *)
(* and what it still will.  For Done this is about the estimate it makes from *)
(* the numbers of inputs and outputs.                                        *)
AllocationsFit ==
  \A g \in Goroutines : Running(g) =>
    \A a \in Has(g) : current[a] + need[a] <= size[a]
=============================================================================
