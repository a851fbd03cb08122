--------------------------- MODULE PjrtLifecycle ---------------------------
(***************************************************************************)
(* Ownership of PJRT objects by the Go package pjrt.                       *)
(*                                                                         *)
(* Every Go object (Client, Buffer, LoadedExecutable) wraps a pointer to a *)
(* C object of the plugin.  The C object is released either by an explicit *)
(* Destroy, called by the program, or by the cleanup registered with       *)
(* runtime.AddCleanup, which the Go runtime runs on a goroutine of its own *)
(* once the garbage collector finds the Go object unreachable.  Cleanups   *)
(* of different objects run concurrently and in no order but the one       *)
(* reachability imposes: what a wrapper points to is alive as long as its  *)
(* cleanup has not run.                                                    *)
(*                                                                         *)
(* A C call is an interval, from the step that reads the arguments out of  *)
(* the Go wrappers to the step that stores its effect.                     *)
(***************************************************************************)
EXTENDS Integers, FiniteSets

CONSTANTS
  Clients, Buffers, Execs,  \* identities of the objects the program creates
  NoClient,                 \* the nil *Client
  Calls,                    \* the optional calls the program makes
  Underflow                 \* bound: buffersAlive is followed down to -Underflow

ASSUME LifecycleAssumption ==
  /\ IsFiniteSet(Buffers) /\ IsFiniteSet(Execs)
  /\ Clients \cap Buffers = {} /\ Clients \cap Execs = {} /\ Buffers \cap Execs = {}
  /\ NoClient \notin Clients
  /\ Underflow \in Nat
  /\ Calls \subseteq {"ClientDestroy", "PluginFree", "UnsafePointer"}

Objects == Clients \cup Buffers \cup Execs
Agents  == {"user", "gc"}  \* a program goroutine, the object's cleanup

VARIABLES
  api,          \* Plugin.api is not nil
  c,            \* [Objects -> BOOLEAN]: the wrapper's C pointer is not nil
  life,         \* the C object itself, as the plugin sees it
  owner,        \* the client a buffer or executable was created by
  wrapClient,   \* bufferWrapper.client; bufferWrapper.plugin is nil iff it is nil
  storage,      \* bufferWrapper.sharedRawStorage and the memory it pointed to
  held,         \* objects the program still has a reference to
  cleanup,      \* the cleanup registered for each object
  pc,           \* where each agent is in its call on each object
  using,        \* the input buffers of each Execute in progress
  buffersAlive, numLoadedExecutables

vars == <<api, c, life, owner, wrapClient, storage, held, cleanup, pc, using,
          buffersAlive, numLoadedExecutables>>

-----------------------------------------------------------------------------
(* Reachability, as the collector computes it.                             *)

(* Seeded bug: no runtime.KeepAlive(b) after the C call. *)
BufferReachable_NoKeepAlive(b) ==
  \/ b \in held
  \/ pc[b]["user"] = "call"
  \/ \E e \in Execs : b \in using[e]

(* Seeded bug: the argument of the cleanup leads back to the Buffer. *)
BufferReachable_Cycle(b) ==
  \/ b \in held \/ cleanup[b] = "armed"
  \/ pc[b]["user"] \in {"query", "call"}
  \/ \E e \in Execs : b \in using[e]

(* runtime.KeepAlive(b) extends the life of a Buffer over the C calls made *)
(* on it; UnsafePointer ("raw") has no KeepAlive.  Done still needs its    *)
(* inputs after the call, so those of an Execute are alive too.            *)
BufferReachable(b) ==
  \/ b \in held
  \/ pc[b]["user"] \in {"query", "call"}
  \/ \E e \in Execs : b \in using[e]

ExecReachable(e) == e \in held \/ pc[e]["user"] # "idle"

(* The runtime holds the argument of a cleanup until the cleanup has run.  *)
WrapperReachable(b) ==
  \/ BufferReachable(b)
  \/ cleanup[b] = "armed"
  \/ pc[b]["gc"] # "idle"

(* Seeded bug: bufferWrapper has no reference to the client. *)
ClientReachable_NotByBuffer(k) ==
  \/ k \in held \/ pc[k]["user"] # "idle"
  \/ \E e \in Execs : owner[e] = k /\ ExecReachable(e)

(* Seeded bug: LoadedExecutable has no reference to the client. *)
ClientReachable_NotByExecutable(k) ==
  \/ k \in held \/ pc[k]["user"] # "idle"
  \/ \E b \in Buffers : wrapClient[b] = k /\ WrapperReachable(b)

(* Seeded bug: the argument of the cleanup leads back to the Client. *)
ClientReachable_Cycle(k) ==
  \/ k \in held \/ pc[k]["user"] # "idle" \/ cleanup[k] = "armed"
  \/ \E b \in Buffers : wrapClient[b] = k /\ WrapperReachable(b)
  \/ \E e \in Execs : owner[e] = k /\ ExecReachable(e)

(* bufferWrapper.client and LoadedExecutable.client are strong references; *)
(* loadedExecutableC, which the executable's cleanup gets, has none.       *)
ClientReachable(k) ==
  \/ k \in held
  \/ pc[k]["user"] # "idle"
  \/ \E b \in Buffers : wrapClient[b] = k /\ WrapperReachable(b)
  \/ \E e \in Execs : owner[e] = k /\ ExecReachable(e)

Reachable(o) ==
  \/ o \in Clients /\ ClientReachable(o)
  \/ o \in Buffers /\ BufferReachable(o)
  \/ o \in Execs /\ ExecReachable(o)

(* Client.IsValid *)
IsValid(k) == k \in Clients /\ c[k]

(* Buffer.Check, Buffer.getPlugin *)
BufferCheck(b) == wrapClient[b] # NoClient /\ c[b]

(* What the program owes: it makes no call through a nil api or a nil      *)
(* client, and does not destroy an object one of its own calls is using.   *)
ClientUsable(k) == api /\ k \in Clients /\ c[k] /\ pc[k]["user"] = "idle"

ClientBusy(k) ==
  \E o \in Buffers \cup Execs : owner[o] = k /\ pc[o]["user"] # "idle"

InputOfExecute(b) == \E e \in Execs : b \in using[e]

-----------------------------------------------------------------------------
Init ==
  /\ api = TRUE
  /\ c = [o \in Objects |-> FALSE]
  /\ life = [o \in Objects |-> "none"]
  /\ owner = [o \in Buffers \cup Execs |-> NoClient]
  /\ wrapClient = [b \in Buffers |-> NoClient]
  /\ storage = [b \in Buffers |-> "none"]
  /\ held = {}
  /\ cleanup = [o \in Objects |-> "unset"]
  /\ pc = [o \in Objects |-> [a \in Agents |-> "idle"]]
  /\ using = [e \in Execs |-> {}]
  /\ buffersAlive = 0
  /\ numLoadedExecutables = 0

(* newClient: the C client exists, its wrapper points to it, its cleanup   *)
(* is registered.                                                          *)
NewClient(k) ==
  /\ api /\ life[k] = "none"
  /\ c' = [c EXCEPT ![k] = TRUE]
  /\ life' = [life EXCEPT ![k] = "live"]
  /\ cleanup' = [cleanup EXCEPT ![k] = "armed"]
  /\ held' = held \cup {k}
  /\ UNCHANGED <<api, owner, wrapClient, storage, pc, using, buffersAlive,
                 numLoadedExecutables>>

(* newClient when the addressable devices cannot be listed: the C client   *)
(* is destroyed before any cleanup is registered.                          *)
NewClientFails(k) ==
  /\ api /\ life[k] = "none"
  /\ life' = [life EXCEPT ![k] = "freed"]
  /\ UNCHANGED <<api, c, owner, wrapClient, storage, held, cleanup, pc, using,
                 buffersAlive, numLoadedExecutables>>

(* Seeded bug: the new buffer is not counted. *)
newBuffer_NotCounted(b, k, s) ==
  /\ life[b] = "none"
  /\ c' = [c EXCEPT ![b] = TRUE]
  /\ life' = [life EXCEPT ![b] = "live"]
  /\ owner' = [owner EXCEPT ![b] = k]
  /\ wrapClient' = [wrapClient EXCEPT ![b] = k]
  /\ storage' = [storage EXCEPT ![b] = s]
  /\ cleanup' = [cleanup EXCEPT ![b] = "armed"]
  /\ held' = held \cup {b}
  /\ UNCHANGED <<api, buffersAlive, numLoadedExecutables>>

(* newBuffer: wraps a C buffer of client k; s tells whether it is a view   *)
(* of storage the wrapper owns.                                            *)
newBuffer(b, k, s) ==
  /\ life[b] = "none"
  /\ c' = [c EXCEPT ![b] = TRUE]
  /\ life' = [life EXCEPT ![b] = "live"]
  /\ owner' = [owner EXCEPT ![b] = k]
  /\ wrapClient' = [wrapClient EXCEPT ![b] = k]
  /\ storage' = [storage EXCEPT ![b] = s]
  /\ cleanup' = [cleanup EXCEPT ![b] = "armed"]
  /\ held' = held \cup {b}
  /\ buffersAlive' = buffersAlive + 1
  /\ UNCHANGED <<api, numLoadedExecutables>>

(* BufferFromHostConfig.Done (s = "none") and NewSharedBuffer ("held").    *)
BufferFromHost(b, k, s) ==
  /\ ClientUsable(k) /\ k \in held
  /\ newBuffer(b, k, s)
  /\ UNCHANGED <<pc, using>>

(* Client.Compile()...Done, ending in newLoadedExecutable.                 *)
Compile(e, k) ==
  /\ ClientUsable(k) /\ k \in held /\ life[e] = "none"
  /\ c' = [c EXCEPT ![e] = TRUE]
  /\ life' = [life EXCEPT ![e] = "live"]
  /\ owner' = [owner EXCEPT ![e] = k]
  /\ cleanup' = [cleanup EXCEPT ![e] = "armed"]
  /\ held' = held \cup {e}
  /\ numLoadedExecutables' = numLoadedExecutables + 1
  /\ UNCHANGED <<api, wrapClient, storage, pc, using, buffersAlive>>

(* Seeded bug: the executable is counted before its metadata is read. *)
CompileFails_Counted(e, k) ==
  /\ ClientUsable(k) /\ k \in held /\ life[e] = "none"
  /\ life' = [life EXCEPT ![e] = "freed"]
  /\ owner' = [owner EXCEPT ![e] = k]
  /\ cleanup' = [cleanup EXCEPT ![e] = "armed"]
  /\ numLoadedExecutables' = numLoadedExecutables + 1
  /\ UNCHANGED <<api, c, wrapClient, storage, held, pc, using, buffersAlive>>

(* newLoadedExecutable when the program's metadata cannot be read:         *)
(* destroyOrLog releases it at once, its cleanup stays registered.         *)
CompileFails(e, k) ==
  /\ ClientUsable(k) /\ k \in held /\ life[e] = "none"
  /\ life' = [life EXCEPT ![e] = "freed"]
  /\ owner' = [owner EXCEPT ![e] = k]
  /\ cleanup' = [cleanup EXCEPT ![e] = "armed"]
  /\ UNCHANGED <<api, c, wrapClient, storage, held, pc, using, buffersAlive,
                 numLoadedExecutables>>

(* The program lets go of its last reference to o. *)
Drop(o) ==
  /\ o \in held
  /\ held' = held \ {o}
  /\ UNCHANGED <<api, c, life, owner, wrapClient, storage, cleanup, pc, using,
                 buffersAlive, numLoadedExecutables>>

-----------------------------------------------------------------------------
(* Calls on a buffer.                                                      *)

(* DType, Dimensions, Device, Size, ToHost, CopyToDevice and Bitcast       *)
(* ("query"), and UnsafePointer ("raw"): getPlugin, then the C pointer is  *)
(* read and the call is entered.                                           *)
BufferCall(b, kind) ==
  /\ api /\ b \in held /\ BufferCheck(b) /\ pc[b]["user"] = "idle"
  /\ kind = "raw" => "UnsafePointer" \in Calls
  /\ pc' = [pc EXCEPT ![b]["user"] = kind]
  /\ UNCHANGED <<api, c, life, owner, wrapClient, storage, held, cleanup,
                 using, buffersAlive, numLoadedExecutables>>

BufferCallReturn(b) ==
  /\ pc[b]["user"] \in {"query", "raw"}
  /\ pc' = [pc EXCEPT ![b]["user"] = "idle"]
  /\ UNCHANGED <<api, c, life, owner, wrapClient, storage, held, cleanup,
                 using, buffersAlive, numLoadedExecutables>>

(* CopyToDevice and Bitcast return a new buffer of the same client.        *)
BufferCopyReturn(b, new) ==
  /\ pc[b]["user"] = "query"
  /\ newBuffer(new, wrapClient[b], "none")
  /\ pc' = [pc EXCEPT ![b]["user"] = "idle"]
  /\ UNCHANGED using

-----------------------------------------------------------------------------
(* bufferWrapper.Destroy, entered from Buffer.Destroy or from the cleanup. *)

EnterDestroy(b, a) ==
  \/ /\ a = "user"
     /\ b \in held /\ c[b] /\ pc[b]["user"] = "idle" /\ ~InputOfExecute(b)
  \/ a = "gc" /\ pc[b]["gc"] = "fired"

(* The deferred part of bufferWrapper.Destroy frees the shared storage;    *)
(* Buffer.Destroy then stops the cleanup.                                  *)
LeaveDestroy(b, a) ==
  /\ storage' = [storage EXCEPT ![b] = IF @ = "held" THEN "freed" ELSE @]
  /\ cleanup' = [cleanup EXCEPT ![b] = IF a = "user" THEN "stopped" ELSE @]
  /\ pc' = [pc EXCEPT ![b][a] = "idle"]

(* "Already destroyed, no-op." *)
BufferDestroyNoop(b, a) ==
  /\ EnterDestroy(b, a)
  /\ ~c[b] \/ wrapClient[b] = NoClient \/ ~api
  /\ LeaveDestroy(b, a)
  /\ UNCHANGED <<api, c, life, owner, wrapClient, held, using, buffersAlive,
                 numLoadedExecutables>>

(* "Client is already destroyed, assume buffer is also destroyed." *)
BufferDestroyClientGone(b, a) ==
  /\ EnterDestroy(b, a)
  /\ c[b] /\ wrapClient[b] # NoClient /\ api /\ ~IsValid(wrapClient[b])
  /\ buffersAlive > -Underflow
  /\ buffersAlive' = buffersAlive - 1
  /\ LeaveDestroy(b, a)
  /\ UNCHANGED <<api, c, life, owner, wrapClient, held, using,
                 numLoadedExecutables>>

(* Seeded bug: the wrapper keeps its C pointer over the call. *)
BufferDestroyCall_KeepsPointer(b, a) ==
  /\ EnterDestroy(b, a)
  /\ c[b] /\ api /\ IsValid(wrapClient[b])
  /\ pc' = [pc EXCEPT ![b][a] = "call"]
  /\ UNCHANGED <<api, c, life, owner, wrapClient, storage, held, cleanup, using,
                 buffersAlive, numLoadedExecutables>>

(* Seeded bug: the shared storage is freed before the C call. *)
BufferDestroyCall_FreesFirst(b, a) ==
  /\ EnterDestroy(b, a)
  /\ c[b] /\ api /\ IsValid(wrapClient[b])
  /\ c' = [c EXCEPT ![b] = FALSE]
  /\ wrapClient' = [wrapClient EXCEPT ![b] = NoClient]
  /\ storage' = [storage EXCEPT ![b] = IF @ = "held" THEN "freed" ELSE @]
  /\ pc' = [pc EXCEPT ![b][a] = "call"]
  /\ UNCHANGED <<api, life, owner, held, cleanup, using, buffersAlive,
                 numLoadedExecutables>>

(* The wrapper is reset, then PJRT_Buffer_Destroy is called. *)
BufferDestroyCall(b, a) ==
  /\ EnterDestroy(b, a)
  /\ c[b] /\ api /\ IsValid(wrapClient[b])
  /\ c' = [c EXCEPT ![b] = FALSE]
  /\ wrapClient' = [wrapClient EXCEPT ![b] = NoClient]
  /\ pc' = [pc EXCEPT ![b][a] = "call"]
  /\ UNCHANGED <<api, life, owner, storage, held, cleanup, using, buffersAlive,
                 numLoadedExecutables>>

BufferDestroyReturn(b, a) ==
  /\ pc[b][a] = "call"
  /\ life' = [life EXCEPT ![b] = "freed"]
  /\ buffersAlive' = buffersAlive - 1
  /\ LeaveDestroy(b, a)
  /\ UNCHANGED <<api, c, owner, wrapClient, held, using, numLoadedExecutables>>

-----------------------------------------------------------------------------
(* LoadedExecutable: Execute with the default of donating no input, and    *)
(* loadedExecutableC.Destroy.                                              *)

Execute(e, inputs) ==
  /\ api /\ e \in held /\ c[e] /\ pc[e]["user"] = "idle"
  /\ \A b \in inputs : b \in held /\ c[b] /\ pc[b]["user"] # "call"
  /\ pc' = [pc EXCEPT ![e]["user"] = "run"]
  /\ using' = [using EXCEPT ![e] = inputs]
  /\ UNCHANGED <<api, c, life, owner, wrapClient, storage, held, cleanup,
                 buffersAlive, numLoadedExecutables>>

ExecuteReturn(e, out) ==
  /\ pc[e]["user"] = "run"
  /\ newBuffer(out, owner[e], "none")
  /\ pc' = [pc EXCEPT ![e]["user"] = "idle"]
  /\ using' = [using EXCEPT ![e] = {}]

ExecuteFails(e) ==
  /\ pc[e]["user"] = "run"
  /\ pc' = [pc EXCEPT ![e]["user"] = "idle"]
  /\ using' = [using EXCEPT ![e] = {}]
  /\ UNCHANGED <<api, c, life, owner, wrapClient, storage, held, cleanup,
                 buffersAlive, numLoadedExecutables>>

EnterExecDestroy(e, a) ==
  \/ a = "user" /\ e \in held /\ pc[e]["user"] = "idle"
  \/ a = "gc" /\ pc[e]["gc"] = "fired"

ExecDestroyCall(e, a) ==
  /\ EnterExecDestroy(e, a)
  /\ api /\ c[e]
  /\ pc' = [pc EXCEPT ![e][a] = "call"]
  /\ UNCHANGED <<api, c, life, owner, wrapClient, storage, held, cleanup,
                 using, buffersAlive, numLoadedExecutables>>

ExecDestroyReturn(e, a) ==
  /\ pc[e][a] = "call"
  /\ c' = [c EXCEPT ![e] = FALSE]
  /\ life' = [life EXCEPT ![e] = "freed"]
  /\ numLoadedExecutables' = numLoadedExecutables - 1
  /\ pc' = [pc EXCEPT ![e][a] = "idle"]
  /\ UNCHANGED <<api, owner, wrapClient, storage, held, cleanup, using,
                 buffersAlive>>

ExecCleanupNoop(e) ==
  /\ EnterExecDestroy(e, "gc")
  /\ ~api \/ ~c[e]
  /\ pc' = [pc EXCEPT ![e]["gc"] = "idle"]
  /\ UNCHANGED <<api, c, life, owner, wrapClient, storage, held, cleanup,
                 using, buffersAlive, numLoadedExecutables>>

-----------------------------------------------------------------------------
(* clientC.Destroy, entered from Client.Destroy or from the cleanup.  It   *)
(* does not look at the api pointer, and resets c only after the call.     *)

EnterClientDestroy(k, a) ==
  \/ /\ a = "user" /\ "ClientDestroy" \in Calls
     /\ k \in held /\ api /\ pc[k]["user"] = "idle" /\ ~ClientBusy(k)
  \/ a = "gc" /\ pc[k]["gc"] = "fired"

ClientDestroyCall(k, a) ==
  /\ EnterClientDestroy(k, a)
  /\ c[k]
  /\ pc' = [pc EXCEPT ![k][a] = "call"]
  /\ UNCHANGED <<api, c, life, owner, wrapClient, storage, held, cleanup,
                 using, buffersAlive, numLoadedExecutables>>

ClientDestroyReturn(k, a) ==
  /\ pc[k][a] = "call" /\ api
  /\ life' = [life EXCEPT ![k] = "freed"]
  /\ c' = [c EXCEPT ![k] = FALSE]
  /\ pc' = [pc EXCEPT ![k][a] = "idle"]
  /\ UNCHANGED <<api, owner, wrapClient, storage, held, cleanup, using,
                 buffersAlive, numLoadedExecutables>>

ClientCleanupNoop(k) ==
  /\ EnterClientDestroy(k, "gc")
  /\ ~c[k]
  /\ pc' = [pc EXCEPT ![k]["gc"] = "idle"]
  /\ UNCHANGED <<api, c, life, owner, wrapClient, storage, held, cleanup,
                 using, buffersAlive, numLoadedExecutables>>

-----------------------------------------------------------------------------
(* Plugin.Free, by a program that makes no further PJRT call but Destroy.  *)
PluginFree ==
  /\ "PluginFree" \in Calls /\ api
  /\ \A o \in Objects : pc[o]["user"] = "idle"
  /\ api' = FALSE
  /\ UNCHANGED <<c, life, owner, wrapClient, storage, held, cleanup, pc, using,
                 buffersAlive, numLoadedExecutables>>

(* The collector finds o unreachable and hands its cleanup to a goroutine. *)
Collect(o) ==
  /\ cleanup[o] = "armed" /\ ~Reachable(o)
  /\ cleanup' = [cleanup EXCEPT ![o] = "fired"]
  /\ pc' = [pc EXCEPT ![o]["gc"] = "fired"]
  /\ UNCHANGED <<api, c, life, owner, wrapClient, storage, held, using,
                 buffersAlive, numLoadedExecutables>>

ClientNext(k) ==
  \/ NewClient(k) \/ NewClientFails(k) \/ ClientCleanupNoop(k)
  \/ \E a \in Agents : ClientDestroyCall(k, a) \/ ClientDestroyReturn(k, a)

BufferNext(b) ==
  \/ \E k \in Clients, s \in {"none", "held"} : BufferFromHost(b, k, s)
  \/ \E kind \in {"query", "raw"} : BufferCall(b, kind)
  \/ BufferCallReturn(b)
  \/ \E new \in Buffers : BufferCopyReturn(b, new)
  \/ \E a \in Agents :
       \/ BufferDestroyNoop(b, a) \/ BufferDestroyClientGone(b, a)
       \/ BufferDestroyCall(b, a) \/ BufferDestroyReturn(b, a)

ExecNext(e) ==
  \/ \E k \in Clients : Compile(e, k) \/ CompileFails(e, k)
  \/ \E inputs \in SUBSET Buffers : Execute(e, inputs)
  \/ \E out \in Buffers : ExecuteReturn(e, out)
  \/ ExecuteFails(e) \/ ExecCleanupNoop(e)
  \/ \E a \in Agents : ExecDestroyCall(e, a) \/ ExecDestroyReturn(e, a)

Next ==
  \/ \E k \in Clients : ClientNext(k)
  \/ \E b \in Buffers : BufferNext(b)
  \/ \E e \in Execs : ExecNext(e)
  \/ \E o \in Objects : Drop(o) \/ Collect(o)
  \/ PluginFree

Spec == Init /\ [][Next]_vars

(* C calls return, the collector keeps running and the cleanups it fires   *)
(* are scheduled; the program owes nothing.                                *)
CallReturns(b) ==
  \/ BufferCallReturn(b)
  \/ \E a \in Agents : BufferDestroyReturn(b, a)

CleanupRuns(b) ==
  \/ BufferDestroyNoop(b, "gc") \/ BufferDestroyClientGone(b, "gc")
  \/ BufferDestroyCall(b, "gc")

ExecProgress(e) ==
  \/ ExecuteFails(e) \/ (\E out \in Buffers : ExecuteReturn(e, out))
  \/ ExecCleanupNoop(e) \/ ExecDestroyCall(e, "gc")
  \/ \E a \in Agents : ExecDestroyReturn(e, a)

ClientProgress(k) ==
  \/ ClientCleanupNoop(k) \/ ClientDestroyCall(k, "gc")
  \/ \E a \in Agents : ClientDestroyReturn(k, a)

Fairness ==
  /\ \A o \in Objects : WF_vars(Collect(o))
  /\ \A b \in Buffers : WF_vars(CallReturns(b)) /\ WF_vars(CleanupRuns(b))
  /\ \A e \in Execs : WF_vars(ExecProgress(e))
  /\ \A k \in Clients : WF_vars(ClientProgress(k))

FairSpec == Spec /\ Fairness


-----------------------------------------------------------------------------
(* Type correctness of the ownership state. *)
TypeOK ==
  /\ api \in BOOLEAN
  /\ c \in [Objects -> BOOLEAN]
  /\ life \in [Objects -> {"none", "live", "freed"}]
  /\ owner \in [Buffers \cup Execs -> Clients \cup {NoClient}]
  /\ wrapClient \in [Buffers -> Clients \cup {NoClient}]
  /\ storage \in [Buffers -> {"none", "held", "freed"}]
  /\ held \subseteq Objects
  /\ cleanup \in [Objects -> {"unset", "armed", "fired", "stopped"}]
  /\ pc \in [Objects -> [Agents -> {"idle", "query", "raw", "run", "fired", "call"}]]
  /\ using \in [Execs -> SUBSET Buffers]
  /\ buffersAlive \in Int
  /\ numLoadedExecutables \in Int

(* The C destroy function of an object is entered at most once: whoever is *)
(* in it, Destroy or the cleanup, is alone there and the C object has not  *)
(* been freed before (the nil checks and pointer resets of the wrappers'   *)
(* Destroy methods, and Buffer.Destroy stopping the cleanup).              *)
DestroyOnce ==
  \A o \in Objects : \A a \in Agents :
    pc[o][a] = "call" =>
      life[o] = "live" /\ \A other \in Agents \ {a} : pc[o][other] # "call"

(* A cleanup never destroys a buffer or an executable under a C call that  *)
(* uses it: the KeepAlive of the buffer queries, and the inputs Done holds *)
(* on to during Execute, keep the object's cleanup from firing.            *)
CallKeepsObject ==
  /\ \A b \in Buffers :
       pc[b]["user"] = "query" \/ InputOfExecute(b) =>
         life[b] = "live" /\ c[b] /\ pc[b]["gc"] = "idle"
  /\ \A e \in Execs :
       pc[e]["user"] = "run" => life[e] = "live" /\ pc[e]["gc"] = "idle"

(* A client is not destroyed, and its destruction has not begun, while a   *)
(* buffer of it has its C pointer: the wrapper, which is the argument of   *)
(* the buffer's cleanup, references the client.  Of a program that leaves  *)
(* the destruction of clients to the collector.                            *)
ClientOutlivesBuffer(b) ==
  LET k == wrapClient[b] IN
  /\ k \in Clients
  /\ c[k] /\ life[k] = "live"
  /\ \A a \in Agents : pc[k][a] = "idle"

BufferKeepsClient == \A b \in Buffers : c[b] => ClientOutlivesBuffer(b)

(* The same of an executable the program holds or is running: Compile and  *)
(* Execute never see their client destroyed, since LoadedExecutable.client *)
(* references it.                                                          *)
ExecutableKeepsClient ==
  \A e \in Execs :
    ExecReachable(e) /\ c[e] =>
      life[owner[e]] = "live" /\ pc[owner[e]]["gc"] = "idle"

(* While the plugin is loaded, shared storage is freed only when the PJRT  *)
(* buffer that views it is gone, destroyed or released with its client     *)
(* (buffers.go: "Shared storage can only be freed after the buffer is      *)
(* destroyed"), and no call is using the buffer.                           *)
StorageOutlivesBuffer ==
  api => \A b \in Buffers : storage[b] = "freed" =>
    /\ life[b] = "freed" \/ life[owner[b]] = "freed"
    /\ ~c[b] \/ ~IsValid(wrapClient[b])

(* LoadedExecutablesAlive counts the executables not yet destroyed.        *)
LoadedExecutablesExact ==
  numLoadedExecutables = Cardinality({e \in Execs : life[e] = "live"})

(* BuffersAlive counts the buffers not yet destroyed, if clients are left  *)
(* to the collector.                                                       *)
BuffersAliveExact ==
  buffersAlive = Cardinality({b \in Buffers : life[b] = "live"})

(* What the collector has handed out for cleanup stays out of the          *)
(* program's reach: no later call (a copy, an output, Buffer.Client's      *)
(* client) brings back an object whose cleanup has fired.                  *)
CollectedStaysUnreachable ==
  \A o \in Objects : cleanup[o] = "fired" => ~Reachable(o)

(* Buffer.Destroy "is automatically called if Buffer is garbage collected":*)
(* a buffer the program let go of is destroyed, or goes with its client.   *)
BufferReclaimed ==
  \A b \in Buffers :
    (life[b] = "live" /\ b \notin held) ~>
      (life[b] = "freed" \/ \E k \in Clients : owner[b] = k /\ life[k] = "freed")

(* Client.Destroy "is automatically called if Client is garbage collected":*)
(* a client is destroyed once the program holds nothing of it, for good.   *)
NothingHeld(k) ==
  /\ k \notin held
  /\ \A o \in held \cap (Buffers \cup Execs) : owner[o] # k

ClientReclaimed ==
  \A k \in Clients : <>[]NothingHeld(k) => []<>(life[k] # "live")

-----------------------------------------------------------------------------
(* What the change log says and the code does not keep.                    *)

(* docs/CHANGELOG-pjrt.md: "Prevent buffers from being destroyed if the    *)
(* PJRT client has already been destroyed": PJRT_Buffer_Destroy runs only  *)
(* while the buffer's client exists.                                       *)
NoBufferDestroyAfterClient ==
  \A b \in Buffers : \A a \in Agents :
    pc[b][a] = "call" => life[owner[b]] = "live"
=============================================================================
