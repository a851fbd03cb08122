------------------------- MODULE PjrtLifecycleProofs -------------------------
(***************************************************************************)
(* Theorems about the ownership protocol of PjrtLifecycle, for every set   *)
(* of clients, buffers and executables.                                    *)
(***************************************************************************)
EXTENDS PjrtLifecycle, FiniteSetTheorems, TLAPS

(* The steps of Next, one operator per object kind, keep the state typed.  *)
LEMMA TypeClient ==
  ASSUME TypeOK, NEW k \in Clients, ClientNext(k)
  PROVE  TypeOK'
<1> k \in Objects /\ "gc" \in Agents
  BY DEF Objects, Agents
<1>1. CASE NewClient(k)
  BY <1>1 DEF TypeOK, NewClient
<1>2. CASE NewClientFails(k)
  BY <1>2 DEF TypeOK, NewClientFails
<1>3. CASE ClientCleanupNoop(k)
  BY <1>3 DEF TypeOK, ClientCleanupNoop, Agents
<1>4. ASSUME NEW a \in Agents, ClientDestroyCall(k, a)
      PROVE  TypeOK'
  BY <1>4 DEF TypeOK, ClientDestroyCall
<1>5. ASSUME NEW a \in Agents, ClientDestroyReturn(k, a)
      PROVE  TypeOK'
  BY <1>5 DEF TypeOK, ClientDestroyReturn
<1> QED
  BY <1>1, <1>2, <1>3, <1>4, <1>5 DEF ClientNext

(* newBuffer, with whatever it leaves of pc and using. *)
LEMMA TypeNewBuffer ==
  ASSUME TypeOK, NEW b \in Buffers, NEW k \in Clients \cup {NoClient},
         NEW s \in {"none", "held"}, newBuffer(b, k, s),
         pc' \in [Objects -> [Agents -> {"idle", "query", "raw", "run", "fired", "call"}]],
         using' \in [Execs -> SUBSET Buffers]
  PROVE  TypeOK'
<1> b \in Objects /\ b \in Buffers \cup Execs
  BY DEF Objects
<1>1. c' \in [Objects -> BOOLEAN] /\ life' \in [Objects -> {"none", "live", "freed"}]
  BY DEF TypeOK, newBuffer
<1>2. owner' \in [Buffers \cup Execs -> Clients \cup {NoClient}]
  BY DEF TypeOK, newBuffer
<1>3. wrapClient' \in [Buffers -> Clients \cup {NoClient}]
  BY DEF TypeOK, newBuffer
<1>4. storage' \in [Buffers -> {"none", "held", "freed"}]
  BY DEF TypeOK, newBuffer
<1>5. held' \subseteq Objects
  BY DEF TypeOK, newBuffer
<1>6. cleanup' \in [Objects -> {"unset", "armed", "fired", "stopped"}]
  BY DEF TypeOK, newBuffer
<1>7. api' \in BOOLEAN /\ buffersAlive' \in Int /\ numLoadedExecutables' \in Int
  BY DEF TypeOK, newBuffer
<1> QED
  BY <1>1, <1>2, <1>3, <1>4, <1>5, <1>6, <1>7 DEF TypeOK

LEMMA TypeBuffer ==
  ASSUME TypeOK, NEW b \in Buffers, BufferNext(b)
  PROVE  TypeOK'
<1> b \in Objects
  BY DEF Objects
<1> "user" \in Agents /\ "gc" \in Agents
  BY DEF Agents
<1>1. ASSUME NEW k \in Clients, NEW s \in {"none", "held"}, BufferFromHost(b, k, s)
      PROVE  TypeOK'
  BY <1>1, TypeNewBuffer DEF BufferFromHost, TypeOK
<1>2. ASSUME NEW kind \in {"query", "raw"}, BufferCall(b, kind)
      PROVE  TypeOK'
  BY <1>2 DEF TypeOK, BufferCall
<1>3. CASE BufferCallReturn(b)
  BY <1>3 DEF TypeOK, BufferCallReturn
<1>4. ASSUME NEW new \in Buffers, BufferCopyReturn(b, new)
      PROVE  TypeOK'
  <2>1. wrapClient[b] \in Clients \cup {NoClient}
    BY DEF TypeOK
  <2>2. pc' \in [Objects -> [Agents -> {"idle", "query", "raw", "run", "fired", "call"}]]
    BY <1>4 DEF TypeOK, BufferCopyReturn
  <2> QED
    BY <1>4, <2>1, <2>2, TypeNewBuffer DEF BufferCopyReturn, TypeOK
<1>5. ASSUME NEW a \in Agents, BufferDestroyNoop(b, a)
      PROVE  TypeOK'
  BY <1>5 DEF TypeOK, BufferDestroyNoop, LeaveDestroy
<1>6. ASSUME NEW a \in Agents, BufferDestroyClientGone(b, a)
      PROVE  TypeOK'
  BY <1>6 DEF TypeOK, BufferDestroyClientGone, LeaveDestroy
<1>7. ASSUME NEW a \in Agents, BufferDestroyCall(b, a)
      PROVE  TypeOK'
  BY <1>7 DEF TypeOK, BufferDestroyCall
<1>8. ASSUME NEW a \in Agents, BufferDestroyReturn(b, a)
      PROVE  TypeOK'
  BY <1>8 DEF TypeOK, BufferDestroyReturn, LeaveDestroy
<1> QED
  BY <1>1, <1>2, <1>3, <1>4, <1>5, <1>6, <1>7, <1>8 DEF BufferNext

LEMMA TypeExec ==
  ASSUME TypeOK, NEW e \in Execs, ExecNext(e)
  PROVE  TypeOK'
<1> e \in Objects /\ e \in Buffers \cup Execs
  BY DEF Objects
<1> "user" \in Agents /\ "gc" \in Agents
  BY DEF Agents
<1>1. ASSUME NEW k \in Clients, Compile(e, k)
      PROVE  TypeOK'
  BY <1>1 DEF TypeOK, Compile
<1>2. ASSUME NEW k \in Clients, CompileFails(e, k)
      PROVE  TypeOK'
  BY <1>2 DEF TypeOK, CompileFails
<1>3. ASSUME NEW inputs \in SUBSET Buffers, Execute(e, inputs)
      PROVE  TypeOK'
  BY <1>3 DEF TypeOK, Execute
<1>4. ASSUME NEW out \in Buffers, ExecuteReturn(e, out)
      PROVE  TypeOK'
  <2>1. owner[e] \in Clients \cup {NoClient}
    BY DEF TypeOK
  <2>2. pc' \in [Objects -> [Agents -> {"idle", "query", "raw", "run", "fired", "call"}]]
    BY <1>4 DEF TypeOK, ExecuteReturn
  <2>3. using' \in [Execs -> SUBSET Buffers]
    BY <1>4 DEF TypeOK, ExecuteReturn
  <2> QED
    BY <1>4, <2>1, <2>2, <2>3, TypeNewBuffer DEF ExecuteReturn
<1>5. CASE ExecuteFails(e)
  BY <1>5 DEF TypeOK, ExecuteFails
<1>6. CASE ExecCleanupNoop(e)
  BY <1>6 DEF TypeOK, ExecCleanupNoop
<1>7. ASSUME NEW a \in Agents, ExecDestroyCall(e, a)
      PROVE  TypeOK'
  BY <1>7 DEF TypeOK, ExecDestroyCall
<1>8. ASSUME NEW a \in Agents, ExecDestroyReturn(e, a)
      PROVE  TypeOK'
  BY <1>8 DEF TypeOK, ExecDestroyReturn
<1> QED
  BY <1>1, <1>2, <1>3, <1>4, <1>5, <1>6, <1>7, <1>8 DEF ExecNext

LEMMA TypeNext == TypeOK /\ [Next]_vars => TypeOK'
<1> SUFFICES ASSUME TypeOK, [Next]_vars
             PROVE  TypeOK'
  OBVIOUS
<1>1. ASSUME NEW o \in Objects, Drop(o)
      PROVE  TypeOK'
  BY <1>1 DEF TypeOK, Drop
<1>2. ASSUME NEW o \in Objects, Collect(o)
      PROVE  TypeOK'
  BY <1>2 DEF TypeOK, Collect, Agents
<1>3. CASE PluginFree
  BY <1>3 DEF TypeOK, PluginFree
<1>4. CASE UNCHANGED vars
  BY <1>4 DEF TypeOK, vars
<1> QED
  BY <1>1, <1>2, <1>3, <1>4, TypeClient, TypeBuffer, TypeExec DEF Next

LEMMA TypeInit == Init => TypeOK
BY DEF Init, TypeOK

(* The ownership state stays well typed whatever the program calls. *)
THEOREM TypeCorrect == Spec => []TypeOK
BY TypeInit, TypeNext, PTL DEF Spec
-----------------------------------------------------------------------------
(* The inductive invariant.  CollectedStaysUnreachable is inductive only   *)
(* with Registered, and it is what makes OwnCall inductive: a cleanup can  *)
(* clear c or free the C object of nothing a program call still uses.      *)
Registered ==
  \A o \in Objects :
    /\ life[o] = "none" => cleanup[o] = "unset"
    /\ pc[o]["gc"] # "idle" => cleanup[o] = "fired"

OwnCall ==
  /\ \A o \in Objects :
       /\ c[o] => life[o] = "live"
       /\ \A a \in Agents : pc[o][a] = "call" => life[o] = "live"
       /\ ~(pc[o]["user"] = "call" /\ pc[o]["gc"] = "call")
  /\ \A b \in Buffers :
       /\ \A a \in Agents : pc[b][a] = "call" => ~c[b]
       /\ pc[b]["user"] = "query" \/ InputOfExecute(b) => c[b]
  /\ \A o \in Clients \cup Execs : \A a \in Agents : pc[o][a] = "call" => c[o]
  /\ \A e \in Execs : pc[e]["user"] = "run" => c[e]

LifeInv == TypeOK /\ Registered /\ CollectedStaysUnreachable /\ OwnCall

LEMMA LifeClient ==
  ASSUME LifeInv, TypeOK', NEW k \in Clients, ClientNext(k)
  PROVE  LifeInv'
<1> USE DEF LifeInv, TypeOK, Registered, Agents, Objects
<1>1. CASE NewClient(k)
  <2>1. Registered'
    BY <1>1 DEF NewClient
  <2>2. CollectedStaysUnreachable'
    BY <1>1, LifecycleAssumption DEF NewClient, CollectedStaysUnreachable,
       Reachable, ClientReachable, WrapperReachable, BufferReachable,
       ExecReachable
  <2>3. OwnCall'
    BY <1>1, LifecycleAssumption DEF NewClient, OwnCall, InputOfExecute,
       CollectedStaysUnreachable, Reachable, ClientReachable,
       WrapperReachable, BufferReachable, ExecReachable
  <2> QED
    BY <2>1, <2>2, <2>3 DEF LifeInv
<1>2. CASE NewClientFails(k)
  <2>1. Registered'
    BY <1>2 DEF NewClientFails
  <2>2. CollectedStaysUnreachable'
    BY <1>2, LifecycleAssumption DEF NewClientFails,
       CollectedStaysUnreachable, Reachable, ClientReachable,
       WrapperReachable, BufferReachable, ExecReachable
  <2>3. OwnCall'
    BY <1>2, LifecycleAssumption DEF NewClientFails, OwnCall, InputOfExecute,
       CollectedStaysUnreachable, Reachable, ClientReachable,
       WrapperReachable, BufferReachable, ExecReachable
  <2> QED
    BY <2>1, <2>2, <2>3 DEF LifeInv
<1>3. CASE ClientCleanupNoop(k)
  <2>1. Registered'
    BY <1>3 DEF ClientCleanupNoop, EnterClientDestroy
  <2>2. CollectedStaysUnreachable'
    BY <1>3, LifecycleAssumption DEF ClientCleanupNoop, EnterClientDestroy,
       CollectedStaysUnreachable, Reachable, ClientReachable,
       WrapperReachable, BufferReachable, ExecReachable
  <2>3. OwnCall'
    BY <1>3, LifecycleAssumption DEF ClientCleanupNoop, EnterClientDestroy,
       OwnCall, InputOfExecute, CollectedStaysUnreachable, Reachable,
       ClientReachable, WrapperReachable, BufferReachable, ExecReachable
  <2> QED
    BY <2>1, <2>2, <2>3 DEF LifeInv
<1>4. ASSUME NEW a \in Agents, ClientDestroyCall(k, a)
      PROVE  LifeInv'
  <2>1. Registered'
    BY <1>4 DEF ClientDestroyCall, EnterClientDestroy
  <2>2. CollectedStaysUnreachable'
    BY <1>4, LifecycleAssumption DEF ClientDestroyCall, EnterClientDestroy,
       CollectedStaysUnreachable, Reachable, ClientReachable,
       WrapperReachable, BufferReachable, ExecReachable
  <2>3. OwnCall'
    BY <1>4, LifecycleAssumption DEF ClientDestroyCall, EnterClientDestroy,
       OwnCall, InputOfExecute, CollectedStaysUnreachable, Reachable,
       ClientReachable, WrapperReachable, BufferReachable, ExecReachable
  <2> QED
    BY <2>1, <2>2, <2>3 DEF LifeInv
<1>5. ASSUME NEW a \in Agents, ClientDestroyReturn(k, a)
      PROVE  LifeInv'
  <2>1. Registered'
    BY <1>5 DEF ClientDestroyReturn
  <2>2. CollectedStaysUnreachable'
    BY <1>5, LifecycleAssumption DEF ClientDestroyReturn,
       CollectedStaysUnreachable, Reachable, ClientReachable,
       WrapperReachable, BufferReachable, ExecReachable
  <2>3. OwnCall'
    BY <1>5, LifecycleAssumption DEF ClientDestroyReturn, OwnCall,
       InputOfExecute, CollectedStaysUnreachable, Reachable, ClientReachable,
       WrapperReachable, BufferReachable, ExecReachable
  <2> QED
    BY <2>1, <2>2, <2>3 DEF LifeInv
<1> QED
  BY <1>1, <1>2, <1>3, <1>4, <1>5 DEF ClientNext

LEMMA LifeBuffer ==
  ASSUME LifeInv, TypeOK', NEW b \in Buffers, BufferNext(b)
  PROVE  LifeInv'
<1> USE DEF LifeInv, TypeOK, Registered, Agents, Objects
<1>1. ASSUME NEW k \in Clients, NEW s \in {"none", "held"}, BufferFromHost(b, k, s)
      PROVE  LifeInv'
  <2>1. Registered'
    BY <1>1 DEF BufferFromHost, newBuffer
  <2>2. CollectedStaysUnreachable'
    BY <1>1, LifecycleAssumption DEF BufferFromHost, newBuffer,
       CollectedStaysUnreachable, Reachable, ClientReachable,
       WrapperReachable, BufferReachable, ExecReachable
  <2>3. OwnCall'
    BY <1>1, LifecycleAssumption DEF BufferFromHost, newBuffer, OwnCall,
       InputOfExecute, CollectedStaysUnreachable, Reachable, ClientReachable,
       WrapperReachable, BufferReachable, ExecReachable
  <2> QED
    BY <2>1, <2>2, <2>3 DEF LifeInv
<1>2. ASSUME NEW kind \in {"query", "raw"}, BufferCall(b, kind)
      PROVE  LifeInv'
  <2>1. Registered'
    BY <1>2 DEF BufferCall, BufferCheck
  <2>2. CollectedStaysUnreachable'
    BY <1>2, LifecycleAssumption DEF BufferCall, BufferCheck,
       CollectedStaysUnreachable, Reachable, ClientReachable,
       WrapperReachable, BufferReachable, ExecReachable
  <2>3. OwnCall'
    BY <1>2, LifecycleAssumption DEF BufferCall, BufferCheck, OwnCall,
       InputOfExecute, CollectedStaysUnreachable, Reachable, ClientReachable,
       WrapperReachable, BufferReachable, ExecReachable
  <2> QED
    BY <2>1, <2>2, <2>3 DEF LifeInv
<1>3. CASE BufferCallReturn(b)
  <2>1. Registered'
    BY <1>3 DEF BufferCallReturn
  <2>2. CollectedStaysUnreachable'
    BY <1>3, LifecycleAssumption DEF BufferCallReturn,
       CollectedStaysUnreachable, Reachable, ClientReachable,
       WrapperReachable, BufferReachable, ExecReachable
  <2>3. OwnCall'
    BY <1>3, LifecycleAssumption DEF BufferCallReturn, OwnCall,
       InputOfExecute, CollectedStaysUnreachable, Reachable, ClientReachable,
       WrapperReachable, BufferReachable, ExecReachable
  <2> QED
    BY <2>1, <2>2, <2>3 DEF LifeInv
<1>4. ASSUME NEW new \in Buffers, BufferCopyReturn(b, new)
      PROVE  LifeInv'
  <2>1. Registered'
    BY <1>4 DEF BufferCopyReturn, newBuffer
  <2>2. CollectedStaysUnreachable'
    BY <1>4, LifecycleAssumption DEF BufferCopyReturn, newBuffer,
       CollectedStaysUnreachable, Reachable, ClientReachable,
       WrapperReachable, BufferReachable, ExecReachable
  <2>3. OwnCall'
    BY <1>4, LifecycleAssumption DEF BufferCopyReturn, newBuffer, OwnCall,
       InputOfExecute, CollectedStaysUnreachable, Reachable, ClientReachable,
       WrapperReachable, BufferReachable, ExecReachable
  <2> QED
    BY <2>1, <2>2, <2>3 DEF LifeInv
<1>5. ASSUME NEW a \in Agents, BufferDestroyNoop(b, a)
      PROVE  LifeInv'
  <2>0. a = "user" => pc[b]["gc"] = "idle" /\ life[b] = "live"
    BY <1>5 DEF BufferDestroyNoop, EnterDestroy, OwnCall,
       CollectedStaysUnreachable, Reachable, BufferReachable
  <2>1. Registered'
    BY <1>5, <2>0 DEF BufferDestroyNoop, EnterDestroy, LeaveDestroy
  <2>2. CollectedStaysUnreachable'
    BY <1>5, LifecycleAssumption DEF BufferDestroyNoop, EnterDestroy,
       LeaveDestroy, CollectedStaysUnreachable, Reachable, ClientReachable,
       WrapperReachable, BufferReachable, ExecReachable
  <2>3. OwnCall'
    BY <1>5, LifecycleAssumption DEF BufferDestroyNoop, EnterDestroy,
       LeaveDestroy, OwnCall, InputOfExecute, CollectedStaysUnreachable,
       Reachable, ClientReachable, WrapperReachable, BufferReachable,
       ExecReachable
  <2> QED
    BY <2>1, <2>2, <2>3 DEF LifeInv
<1>6. ASSUME NEW a \in Agents, BufferDestroyClientGone(b, a)
      PROVE  LifeInv'
  <2>0. a = "user" => pc[b]["gc"] = "idle" /\ life[b] = "live"
    BY <1>6 DEF BufferDestroyClientGone, EnterDestroy, OwnCall,
       CollectedStaysUnreachable, Reachable, BufferReachable
  <2>1. Registered'
    BY <1>6, <2>0 DEF BufferDestroyClientGone, EnterDestroy, LeaveDestroy
  <2>2. CollectedStaysUnreachable'
    BY <1>6, LifecycleAssumption DEF BufferDestroyClientGone, EnterDestroy,
       LeaveDestroy, CollectedStaysUnreachable, Reachable, ClientReachable,
       WrapperReachable, BufferReachable, ExecReachable
  <2>3. OwnCall'
    BY <1>6, LifecycleAssumption DEF BufferDestroyClientGone, EnterDestroy,
       LeaveDestroy, OwnCall, InputOfExecute, CollectedStaysUnreachable,
       Reachable, ClientReachable, WrapperReachable, BufferReachable,
       ExecReachable
  <2> QED
    BY <2>1, <2>2, <2>3 DEF LifeInv
<1>7. ASSUME NEW a \in Agents, BufferDestroyCall(b, a)
      PROVE  LifeInv'
  <2>1. Registered'
    BY <1>7 DEF BufferDestroyCall, EnterDestroy
  <2>2. CollectedStaysUnreachable'
    BY <1>7, LifecycleAssumption DEF BufferDestroyCall, EnterDestroy,
       CollectedStaysUnreachable, Reachable, ClientReachable,
       WrapperReachable, BufferReachable, ExecReachable
  <2>3. OwnCall'
    BY <1>7, LifecycleAssumption DEF BufferDestroyCall, EnterDestroy, OwnCall,
       InputOfExecute, CollectedStaysUnreachable, Reachable, ClientReachable,
       WrapperReachable, BufferReachable, ExecReachable
  <2> QED
    BY <2>1, <2>2, <2>3 DEF LifeInv
<1>8. ASSUME NEW a \in Agents, BufferDestroyReturn(b, a)
      PROVE  LifeInv'
  <2>1. Registered'
    BY <1>8 DEF BufferDestroyReturn, LeaveDestroy, CollectedStaysUnreachable,
       Reachable, BufferReachable
  <2>2. CollectedStaysUnreachable'
    BY <1>8, LifecycleAssumption DEF BufferDestroyReturn, LeaveDestroy,
       CollectedStaysUnreachable, Reachable, ClientReachable,
       WrapperReachable, BufferReachable, ExecReachable
  <2>3. OwnCall'
    BY <1>8, LifecycleAssumption DEF BufferDestroyReturn, LeaveDestroy,
       OwnCall, InputOfExecute, CollectedStaysUnreachable, Reachable,
       ClientReachable, WrapperReachable, BufferReachable, ExecReachable
  <2> QED
    BY <2>1, <2>2, <2>3 DEF LifeInv
<1> QED
  BY <1>1, <1>2, <1>3, <1>4, <1>5, <1>6, <1>7, <1>8 DEF BufferNext

LEMMA LifeExec ==
  ASSUME LifeInv, TypeOK', NEW e \in Execs, ExecNext(e)
  PROVE  LifeInv'
<1> USE DEF LifeInv, TypeOK, Registered, Agents, Objects
<1>1. ASSUME NEW k \in Clients, Compile(e, k)
      PROVE  LifeInv'
  <2>1. Registered'
    BY <1>1 DEF Compile
  <2>2. CollectedStaysUnreachable'
    BY <1>1, LifecycleAssumption DEF Compile, CollectedStaysUnreachable,
       Reachable, ClientReachable, WrapperReachable, BufferReachable,
       ExecReachable
  <2>3. OwnCall'
    BY <1>1, LifecycleAssumption DEF Compile, OwnCall, InputOfExecute,
       CollectedStaysUnreachable, Reachable, ClientReachable,
       WrapperReachable, BufferReachable, ExecReachable
  <2> QED
    BY <2>1, <2>2, <2>3 DEF LifeInv
<1>2. ASSUME NEW k \in Clients, CompileFails(e, k)
      PROVE  LifeInv'
  <2>1. Registered'
    BY <1>2 DEF CompileFails
  <2>2. CollectedStaysUnreachable'
    BY <1>2, LifecycleAssumption DEF CompileFails, CollectedStaysUnreachable,
       Reachable, ClientReachable, WrapperReachable, BufferReachable,
       ExecReachable
  <2>3. OwnCall'
    BY <1>2, LifecycleAssumption DEF CompileFails, OwnCall, InputOfExecute,
       CollectedStaysUnreachable, Reachable, ClientReachable,
       WrapperReachable, BufferReachable, ExecReachable
  <2> QED
    BY <2>1, <2>2, <2>3 DEF LifeInv
<1>3. ASSUME NEW inputs \in SUBSET Buffers, Execute(e, inputs)
      PROVE  LifeInv'
  <2>1. Registered'
    BY <1>3 DEF Execute
  <2>2. CollectedStaysUnreachable'
    BY <1>3, LifecycleAssumption DEF Execute, CollectedStaysUnreachable,
       Reachable, ClientReachable, WrapperReachable, BufferReachable,
       ExecReachable
  <2>3. OwnCall'
    BY <1>3, LifecycleAssumption DEF Execute, OwnCall, InputOfExecute,
       CollectedStaysUnreachable, Reachable, ClientReachable,
       WrapperReachable, BufferReachable, ExecReachable
  <2> QED
    BY <2>1, <2>2, <2>3 DEF LifeInv
<1>4. ASSUME NEW out \in Buffers, ExecuteReturn(e, out)
      PROVE  LifeInv'
  <2>1. Registered'
    BY <1>4 DEF ExecuteReturn, newBuffer
  <2>2. CollectedStaysUnreachable'
    BY <1>4, LifecycleAssumption DEF ExecuteReturn, newBuffer,
       CollectedStaysUnreachable, Reachable, ClientReachable,
       WrapperReachable, BufferReachable, ExecReachable
  <2>3. OwnCall'
    BY <1>4, LifecycleAssumption DEF ExecuteReturn, newBuffer, OwnCall,
       InputOfExecute, CollectedStaysUnreachable, Reachable, ClientReachable,
       WrapperReachable, BufferReachable, ExecReachable
  <2> QED
    BY <2>1, <2>2, <2>3 DEF LifeInv
<1>5. CASE ExecuteFails(e)
  <2>1. Registered'
    BY <1>5 DEF ExecuteFails
  <2>2. CollectedStaysUnreachable'
    BY <1>5, LifecycleAssumption DEF ExecuteFails, CollectedStaysUnreachable,
       Reachable, ClientReachable, WrapperReachable, BufferReachable,
       ExecReachable
  <2>3. OwnCall'
    BY <1>5, LifecycleAssumption DEF ExecuteFails, OwnCall, InputOfExecute,
       CollectedStaysUnreachable, Reachable, ClientReachable,
       WrapperReachable, BufferReachable, ExecReachable
  <2> QED
    BY <2>1, <2>2, <2>3 DEF LifeInv
<1>6. CASE ExecCleanupNoop(e)
  <2>1. Registered'
    BY <1>6 DEF ExecCleanupNoop, EnterExecDestroy
  <2>2. CollectedStaysUnreachable'
    BY <1>6, LifecycleAssumption DEF ExecCleanupNoop, EnterExecDestroy,
       CollectedStaysUnreachable, Reachable, ClientReachable,
       WrapperReachable, BufferReachable, ExecReachable
  <2>3. OwnCall'
    BY <1>6, LifecycleAssumption DEF ExecCleanupNoop, EnterExecDestroy,
       OwnCall, InputOfExecute, CollectedStaysUnreachable, Reachable,
       ClientReachable, WrapperReachable, BufferReachable, ExecReachable
  <2> QED
    BY <2>1, <2>2, <2>3 DEF LifeInv
<1>7. ASSUME NEW a \in Agents, ExecDestroyCall(e, a)
      PROVE  LifeInv'
  <2>1. Registered'
    BY <1>7 DEF ExecDestroyCall, EnterExecDestroy
  <2>2. CollectedStaysUnreachable'
    BY <1>7, LifecycleAssumption DEF ExecDestroyCall, EnterExecDestroy,
       CollectedStaysUnreachable, Reachable, ClientReachable,
       WrapperReachable, BufferReachable, ExecReachable
  <2>3. OwnCall'
    BY <1>7, LifecycleAssumption DEF ExecDestroyCall, EnterExecDestroy,
       OwnCall, InputOfExecute, CollectedStaysUnreachable, Reachable,
       ClientReachable, WrapperReachable, BufferReachable, ExecReachable
  <2> QED
    BY <2>1, <2>2, <2>3 DEF LifeInv
<1>8. ASSUME NEW a \in Agents, ExecDestroyReturn(e, a)
      PROVE  LifeInv'
  <2>1. Registered'
    BY <1>8 DEF ExecDestroyReturn
  <2>2. CollectedStaysUnreachable'
    BY <1>8, LifecycleAssumption DEF ExecDestroyReturn,
       CollectedStaysUnreachable, Reachable, ClientReachable,
       WrapperReachable, BufferReachable, ExecReachable
  <2>3. OwnCall'
    BY <1>8, LifecycleAssumption DEF ExecDestroyReturn, OwnCall,
       InputOfExecute, CollectedStaysUnreachable, Reachable, ClientReachable,
       WrapperReachable, BufferReachable, ExecReachable
  <2> QED
    BY <2>1, <2>2, <2>3 DEF LifeInv
<1> QED
  BY <1>1, <1>2, <1>3, <1>4, <1>5, <1>6, <1>7, <1>8 DEF ExecNext

LEMMA LifeNext == LifeInv /\ [Next]_vars => LifeInv'
<1> SUFFICES ASSUME LifeInv, [Next]_vars
             PROVE  LifeInv'
  OBVIOUS
<1>0. TypeOK'
  BY TypeNext DEF LifeInv
<1>1. ASSUME NEW o \in Objects, Drop(o)
      PROVE  LifeInv'
  BY <1>0, <1>1 DEF Drop, LifeInv, TypeOK, Registered, OwnCall,
     InputOfExecute, CollectedStaysUnreachable, Reachable, ClientReachable,
     WrapperReachable, BufferReachable, ExecReachable
<1>2. ASSUME NEW o \in Objects, Collect(o)
      PROVE  LifeInv'
  <2> USE DEF Collect, LifeInv, TypeOK, Registered, Objects, Agents
  <2>1. Registered'
    BY <1>2
  <2>2. CollectedStaysUnreachable'
    BY <1>2, LifecycleAssumption DEF CollectedStaysUnreachable, Reachable,
       ClientReachable, WrapperReachable, BufferReachable, ExecReachable
  <2>3. OwnCall'
    BY <1>2 DEF OwnCall, InputOfExecute
  <2> QED
    BY <1>0, <2>1, <2>2, <2>3
<1>3. CASE PluginFree
  BY <1>0, <1>3 DEF PluginFree, LifeInv, TypeOK, Registered, OwnCall,
     InputOfExecute, CollectedStaysUnreachable, Reachable, ClientReachable,
     WrapperReachable, BufferReachable, ExecReachable
<1>4. CASE UNCHANGED vars
  BY <1>0, <1>4 DEF vars, LifeInv, TypeOK, Registered, OwnCall,
     InputOfExecute, CollectedStaysUnreachable, Reachable, ClientReachable,
     WrapperReachable, BufferReachable, ExecReachable
<1> QED
  BY <1>0, <1>1, <1>2, <1>3, <1>4, LifeClient, LifeBuffer, LifeExec DEF Next

LEMMA LifeCorrect == Spec => []LifeInv
<1>1. Init => LifeInv
  BY TypeInit DEF Init, LifeInv, Registered, CollectedStaysUnreachable,
     OwnCall, Objects, Agents, InputOfExecute
<1> QED
  BY <1>1, LifeNext, PTL DEF Spec

(* No object whose cleanup was handed to the runtime comes back into the   *)
(* program's reach, whatever is called: newBuffer, CopyToDevice, Execute   *)
(* and Compile reference only clients and buffers that are reachable.      *)
THEOREM CollectedForGood == Spec => []CollectedStaysUnreachable
BY LifeCorrect, PTL DEF LifeInv

(* Destroy, the cleanups and explicit Client.Destroy calls never enter the *)
(* C destroy function of an object twice, nor for a freed object.          *)
THEOREM DestroyedOnce == Spec => []DestroyOnce
<1>1. LifeInv => DestroyOnce
  BY DEF LifeInv, OwnCall, DestroyOnce, Agents
<1> QED
  BY <1>1, LifeCorrect, PTL

(* KeepAlive suffices: no cleanup runs under a buffer query or an Execute. *)
THEOREM CallsKeepObjects == Spec => []CallKeepsObject
<1>1. LifeInv => CallKeepsObject
  BY DEF LifeInv, TypeOK, OwnCall, Registered, CollectedStaysUnreachable,
     CallKeepsObject, Reachable, BufferReachable, ExecReachable,
     InputOfExecute, Objects
<1> QED
  BY <1>1, LifeCorrect, PTL
-----------------------------------------------------------------------------
(* Shared storage.  A live C buffer that no wrapper points to is being     *)
(* destroyed, and a wrapper without a valid client had one that is gone;   *)
(* otherwise the no-op of Destroy, which frees the storage, would free it  *)
(* under the PJRT buffer.                                                  *)
OwnerKept ==
  /\ \A k \in Clients : life[k] = "live" => c[k]
  /\ \A o \in Buffers \cup Execs :
       life[o] # "none" => owner[o] \in Clients /\ life[owner[o]] # "none"
  /\ \A b \in Buffers :
       /\ c[b] => wrapClient[b] = owner[b]
       /\ life[b] = "live" => c[b] \/ \E a \in Agents : pc[b][a] = "call"
       /\ life[b] = "none" => storage[b] = "none"

StorageInv == OwnerKept /\ StorageOutlivesBuffer

LEMMA StorageClient ==
  ASSUME LifeInv, StorageInv, NEW k \in Clients, ClientNext(k)
  PROVE  StorageInv'
<1> USE LifecycleAssumption DEF LifeInv, TypeOK, OwnCall, StorageInv, OwnerKept,
   StorageOutlivesBuffer, Agents, Objects, IsValid
<1>1. CASE NewClient(k)
  BY <1>1 DEF NewClient
<1>2. CASE NewClientFails(k)
  BY <1>2 DEF NewClientFails
<1>3. CASE ClientCleanupNoop(k)
  BY <1>3 DEF ClientCleanupNoop
<1>4. ASSUME NEW a \in Agents, ClientDestroyCall(k, a)
      PROVE  StorageInv'
  BY <1>4 DEF ClientDestroyCall
<1>5. ASSUME NEW a \in Agents, ClientDestroyReturn(k, a)
      PROVE  StorageInv'
  BY <1>5 DEF ClientDestroyReturn
<1> QED
  BY <1>1, <1>2, <1>3, <1>4, <1>5 DEF ClientNext

(* newBuffer, for a client that exists, whatever happens to pc. *)
LEMMA StorageNewBuffer ==
  ASSUME LifeInv, StorageInv, NEW b \in Buffers, NEW k \in Clients, NEW s \in {"none", "held"},
         life[k] # "none", newBuffer(b, k, s),
         \A x \in Buffers : life[x] = "live" => \A a \in Agents : pc[x][a] = "call" => pc'[x][a] = "call"
  PROVE  StorageInv'
BY LifecycleAssumption DEF LifeInv, TypeOK, OwnCall, StorageInv, OwnerKept, StorageOutlivesBuffer,
   Agents, Objects, IsValid, newBuffer

LEMMA StorageBuffer ==
  ASSUME LifeInv, StorageInv, NEW b \in Buffers, BufferNext(b)
  PROVE  StorageInv'
<1>1. ASSUME NEW k \in Clients, NEW s \in {"none", "held"}, BufferFromHost(b, k, s)
      PROVE  StorageInv'
  BY <1>1, StorageNewBuffer DEF BufferFromHost, ClientUsable, LifeInv, OwnCall, Objects
<1>2. ASSUME NEW new \in Buffers, BufferCopyReturn(b, new)
      PROVE  StorageInv'
  <2>1. c[b] /\ wrapClient[b] \in Clients /\ life[wrapClient[b]] # "none"
    BY <1>2 DEF BufferCopyReturn, LifeInv, OwnCall, StorageInv, OwnerKept, Objects
  <2>2. \A x \in Buffers : \A a \in Agents : pc[x][a] = "call" => pc'[x][a] = "call"
    BY <1>2 DEF BufferCopyReturn, LifeInv, TypeOK, Objects, Agents
  <2> QED BY <1>2, <2>1, <2>2, StorageNewBuffer DEF BufferCopyReturn
<1> USE LifecycleAssumption DEF LifeInv, TypeOK, OwnCall, StorageInv, OwnerKept,
   StorageOutlivesBuffer, Agents, Objects, IsValid
<1>3. ASSUME NEW kind \in {"query", "raw"}, BufferCall(b, kind)
      PROVE  StorageInv'
  BY <1>3 DEF BufferCall
<1>4. CASE BufferCallReturn(b)
  BY <1>4 DEF BufferCallReturn
<1>5. ASSUME NEW a \in Agents, BufferDestroyNoop(b, a)
      PROVE  StorageInv'
  <2>1. api => ~c[b] /\ a = "gc" /\ pc[b]["gc"] = "fired"
    BY <1>5 DEF BufferDestroyNoop, EnterDestroy
  <2>2. api => pc[b]["user"] # "call"
    BY <2>1 DEF Registered, CollectedStaysUnreachable, Reachable, BufferReachable
  <2>3. api => life[b] = "freed"
    BY <2>1, <2>2 DEF Registered
  <2>4. /\ UNCHANGED <<api, c, life, owner, wrapClient>>
        /\ storage' = [storage EXCEPT ![b] = IF @ = "held" THEN "freed" ELSE @]
        /\ pc' = [pc EXCEPT ![b][a] = "idle"] /\ pc[b][a] # "call"
    BY <1>5 DEF BufferDestroyNoop, LeaveDestroy, EnterDestroy
  <2>5. OwnerKept'
    BY <2>4
  <2>6. StorageOutlivesBuffer'
    BY <2>1, <2>3, <2>4
  <2> QED BY <2>5, <2>6
<1>6. ASSUME NEW a \in Agents, BufferDestroyClientGone(b, a)
      PROVE  StorageInv'
  <2>1. c[b] /\ ~c[owner[b]] /\ life[owner[b]] = "freed" /\ wrapClient[b] = owner[b]
    BY <1>6 DEF BufferDestroyClientGone
  <2>2. /\ UNCHANGED <<api, c, life, owner, wrapClient>>
        /\ storage' = [storage EXCEPT ![b] = IF @ = "held" THEN "freed" ELSE @]
        /\ pc' = [pc EXCEPT ![b][a] = "idle"] /\ pc[b][a] # "call"
    BY <1>6 DEF BufferDestroyClientGone, LeaveDestroy, EnterDestroy
  <2>3. OwnerKept'
    BY <2>2
  <2>4. StorageOutlivesBuffer'
    BY <2>1, <2>2
  <2> QED BY <2>3, <2>4
<1>7. ASSUME NEW a \in Agents, BufferDestroyCall(b, a)
      PROVE  StorageInv'
  BY <1>7 DEF BufferDestroyCall
<1>8. ASSUME NEW a \in Agents, BufferDestroyReturn(b, a)
      PROVE  StorageInv'
  BY <1>8 DEF BufferDestroyReturn, LeaveDestroy
<1> QED
  BY <1>1, <1>2, <1>3, <1>4, <1>5, <1>6, <1>7, <1>8 DEF BufferNext

LEMMA StorageExec ==
  ASSUME LifeInv, StorageInv, NEW e \in Execs, ExecNext(e)
  PROVE  StorageInv'
<1>1. ASSUME NEW out \in Buffers, ExecuteReturn(e, out)
      PROVE  StorageInv'
  <2>1. owner[e] \in Clients /\ life[owner[e]] # "none"
    BY <1>1 DEF ExecuteReturn, LifeInv, OwnCall, StorageInv, OwnerKept, Objects
  <2>2. \A x \in Buffers : pc'[x] = pc[x]
    BY <1>1, LifecycleAssumption DEF ExecuteReturn, LifeInv, TypeOK, Objects
  <2> QED BY <1>1, <2>1, <2>2, StorageNewBuffer DEF ExecuteReturn
<1> USE LifecycleAssumption DEF LifeInv, TypeOK, OwnCall, StorageInv, OwnerKept,
   StorageOutlivesBuffer, Agents, Objects, IsValid
<1>2. ASSUME NEW k \in Clients, Compile(e, k) \/ CompileFails(e, k)
      PROVE  StorageInv'
  <2>1. /\ UNCHANGED <<api, wrapClient, storage, pc>> /\ life[k] # "none"
        /\ owner' = [owner EXCEPT ![e] = k] /\ life' = [life EXCEPT ![e] = life'[e]]
        /\ \A o \in Clients \cup Buffers : c'[o] = c[o]
    BY <1>2 DEF Compile, CompileFails, ClientUsable
  <2>2. \A o \in Clients \cup Buffers : life'[o] = life[o]
    BY <2>1
  <2>3. /\ \A o \in Buffers \cup (Execs \ {e}) : owner'[o] = owner[o]
        /\ owner'[e] = k
        /\ \A o \in Execs \ {e} : life'[o] = life[o]
    BY <2>1
  <2>4. \A o \in Buffers \cup Execs : life'[o] # "none" => o = e \/ life[o] # "none"
    BY <2>2, <2>3
  <2>5. \A o \in Buffers \cup Execs :
          life'[o] # "none" => owner'[o] \in Clients /\ life'[owner'[o]] # "none"
    BY <2>1, <2>2, <2>3, <2>4
  <2>6. \A b \in Buffers :
          /\ c'[b] = c[b] /\ wrapClient'[b] = wrapClient[b] /\ owner'[b] = owner[b]
          /\ life'[b] = life[b] /\ pc'[b] = pc[b] /\ storage'[b] = storage[b]
    BY <2>1, <2>2, <2>3
  <2>7. OwnerKept'
    BY <2>1, <2>2, <2>5, <2>6
  <2>8. StorageOutlivesBuffer'
    BY <2>1, <2>2, <2>6
  <2> QED BY <2>7, <2>8
<1>3. ASSUME NEW inputs \in SUBSET Buffers, Execute(e, inputs)
      PROVE  StorageInv'
  BY <1>3 DEF Execute
<1>4. CASE ExecuteFails(e) \/ ExecCleanupNoop(e)
  BY <1>4 DEF ExecuteFails, ExecCleanupNoop
<1>5. ASSUME NEW a \in Agents, ExecDestroyCall(e, a)
      PROVE  StorageInv'
  BY <1>5 DEF ExecDestroyCall
<1>6. ASSUME NEW a \in Agents, ExecDestroyReturn(e, a)
      PROVE  StorageInv'
  <2>1. UNCHANGED <<api, owner, wrapClient, storage>> /\ life[e] # "none"
    BY <1>6 DEF ExecDestroyReturn
  <2>2. \A o \in Clients \cup Buffers : o # e /\ o \in Objects
    OBVIOUS
  <2>3. \A o \in Clients \cup Buffers : c'[o] = c[o] /\ life'[o] = life[o] /\ pc'[o] = pc[o]
    BY <1>6, <2>2 DEF ExecDestroyReturn
  <2>4. \A o \in Execs : life'[o] # "none" => life[o] # "none"
    BY <1>6, <2>1 DEF ExecDestroyReturn
  <2>5. OwnerKept'
    BY <2>1, <2>3, <2>4
  <2>6. StorageOutlivesBuffer'
    BY <2>1, <2>3
  <2> QED BY <2>5, <2>6
<1> QED
  BY <1>1, <1>2, <1>3, <1>4, <1>5, <1>6 DEF ExecNext

(* The storage of a shared buffer is freed only after the PJRT buffer that *)
(* views it, whoever destroys it and when, for as long as the plugin is    *)
(* loaded.                                                                 *)
THEOREM StorageOutlives == Spec => []StorageOutlivesBuffer
<1>1. Init => StorageInv
  BY DEF Init, StorageInv, OwnerKept, StorageOutlivesBuffer, Objects
<1>2. LifeInv /\ StorageInv /\ [Next]_vars => StorageInv'
  <2> SUFFICES ASSUME LifeInv, StorageInv, [Next]_vars PROVE StorageInv'
    OBVIOUS
  <2> USE LifecycleAssumption DEF LifeInv, TypeOK, StorageInv, OwnerKept,
     StorageOutlivesBuffer, Agents, Objects, IsValid
  <2>1. ASSUME NEW o \in Objects, Drop(o) \/ Collect(o) PROVE StorageInv'
    <3>1. ASSUME NEW b \in Buffers, NEW a \in Agents, pc[b][a] = "call" PROVE pc'[b][a] = "call"
      BY <2>1, <3>1 DEF Drop, Collect, Registered
    <3> QED BY <2>1, <3>1 DEF Drop, Collect
  <2>2. CASE PluginFree
    BY <2>2 DEF PluginFree
  <2>3. CASE UNCHANGED vars
    BY <2>3 DEF vars
  <2> QED
    BY <2>1, <2>2, <2>3, StorageClient, StorageBuffer, StorageExec DEF Next
<1>3. Spec => []StorageInv
  BY <1>1, <1>2, LifeCorrect, PTL DEF Spec
<1> QED
  BY <1>3, PTL DEF StorageInv
-----------------------------------------------------------------------------
(* A program that leaves the destruction of clients to the collector and   *)
(* does not free the plugin.  A client that is registered stays armed as   *)
(* long as it is reachable, and a buffer with a C pointer keeps its client *)
(* reachable through its wrapper, the argument of its cleanup.             *)
CollectorOnly == Calls \cap {"ClientDestroy", "PluginFree"} = {}

ClientArmed ==
  /\ api
  /\ \A k \in Clients :
       /\ pc[k]["user"] = "idle"
       /\ cleanup[k] # "stopped"
       /\ c[k] => cleanup[k] # "unset"
       /\ cleanup[k] = "armed" => c[k] /\ life[k] = "live"
  /\ \A b \in Buffers : c[b] =>
       /\ wrapClient[b] \in Clients /\ cleanup[wrapClient[b]] # "unset"
       /\ cleanup[b] = "armed" \/ pc[b]["gc"] = "fired"
  /\ \A e \in Execs : c[e] =>
       owner[e] \in Clients /\ cleanup[owner[e]] # "unset"

(* What the two inductive invariants say together. *)
LEMMA ArmedKeepsClients ==
  ASSUME LifeInv, ClientArmed
  PROVE  BufferKeepsClient /\ ExecutableKeepsClient
<1> USE DEF LifeInv, TypeOK, Registered, ClientArmed, Agents, Objects,
   CollectedStaysUnreachable, Reachable, ClientReachable, WrapperReachable,
   ExecReachable
<1>1. BufferKeepsClient
  BY DEF BufferKeepsClient, ClientOutlivesBuffer
<1>2. ExecutableKeepsClient
  BY DEF ExecutableKeepsClient
<1> QED
  BY <1>1, <1>2

LEMMA ArmedClient ==
  ASSUME CollectorOnly, LifeInv, ClientArmed, NEW k \in Clients, ClientNext(k)
  PROVE  ClientArmed'
<1> USE LifecycleAssumption DEF LifeInv, TypeOK, Registered, ClientArmed,
   Agents, Objects, OwnCall
<1>1. CASE NewClient(k)
  BY <1>1 DEF NewClient, CollectorOnly
<1>2. CASE NewClientFails(k)
  BY <1>2 DEF NewClientFails, CollectorOnly
<1>3. CASE ClientCleanupNoop(k)
  BY <1>3 DEF ClientCleanupNoop, EnterClientDestroy, CollectorOnly
<1>4. ASSUME NEW a \in Agents, ClientDestroyCall(k, a)
      PROVE  ClientArmed'
  BY <1>4 DEF ClientDestroyCall, EnterClientDestroy, CollectorOnly
<1>5. ASSUME NEW a \in Agents, ClientDestroyReturn(k, a)
      PROVE  ClientArmed'
  BY <1>5 DEF ClientDestroyReturn, CollectorOnly
<1> QED
  BY <1>1, <1>2, <1>3, <1>4, <1>5 DEF ClientNext

LEMMA ArmedBuffer ==
  ASSUME CollectorOnly, LifeInv, ClientArmed, NEW b \in Buffers, BufferNext(b)
  PROVE  ClientArmed'
<1> USE LifecycleAssumption DEF LifeInv, TypeOK, Registered, ClientArmed,
   Agents, Objects, OwnCall
<1>1. ASSUME NEW k \in Clients, NEW s \in {"none", "held"}, BufferFromHost(b, k, s)
      PROVE  ClientArmed'
  BY <1>1 DEF BufferFromHost, newBuffer, ClientUsable
<1>2. ASSUME NEW kind \in {"query", "raw"}, BufferCall(b, kind)
      PROVE  ClientArmed'
  BY <1>2 DEF BufferCall, BufferCheck
<1>3. CASE BufferCallReturn(b)
  BY <1>3 DEF BufferCallReturn
<1>4. ASSUME NEW new \in Buffers, BufferCopyReturn(b, new)
      PROVE  ClientArmed'
  BY <1>4 DEF BufferCopyReturn, newBuffer
<1>5. ASSUME NEW a \in Agents, BufferDestroyNoop(b, a)
      PROVE  ClientArmed'
  BY <1>5, ArmedKeepsClients DEF BufferDestroyNoop, EnterDestroy,
     LeaveDestroy, IsValid, BufferKeepsClient, ClientOutlivesBuffer
<1>6. ASSUME NEW a \in Agents, BufferDestroyClientGone(b, a)
      PROVE  ClientArmed'
  BY <1>6, ArmedKeepsClients DEF BufferDestroyClientGone, EnterDestroy,
     LeaveDestroy, IsValid, BufferKeepsClient, ClientOutlivesBuffer
<1>7. ASSUME NEW a \in Agents, BufferDestroyCall(b, a)
      PROVE  ClientArmed'
  BY <1>7, ArmedKeepsClients DEF BufferDestroyCall, EnterDestroy, IsValid,
     BufferKeepsClient, ClientOutlivesBuffer
<1>8. ASSUME NEW a \in Agents, BufferDestroyReturn(b, a)
      PROVE  ClientArmed'
  BY <1>8, ArmedKeepsClients DEF BufferDestroyReturn, LeaveDestroy, IsValid,
     BufferKeepsClient, ClientOutlivesBuffer
<1> QED
  BY <1>1, <1>2, <1>3, <1>4, <1>5, <1>6, <1>7, <1>8 DEF BufferNext

LEMMA ArmedExec ==
  ASSUME CollectorOnly, LifeInv, ClientArmed, NEW e \in Execs, ExecNext(e)
  PROVE  ClientArmed'
<1> USE LifecycleAssumption DEF LifeInv, TypeOK, Registered, ClientArmed,
   Agents, Objects, OwnCall
<1>1. ASSUME NEW k \in Clients, Compile(e, k)
      PROVE  ClientArmed'
  BY <1>1 DEF Compile, ClientUsable
<1>2. ASSUME NEW k \in Clients, CompileFails(e, k)
      PROVE  ClientArmed'
  BY <1>2 DEF CompileFails, ClientUsable
<1>3. ASSUME NEW inputs \in SUBSET Buffers, Execute(e, inputs)
      PROVE  ClientArmed'
  BY <1>3 DEF Execute
<1>4. ASSUME NEW out \in Buffers, ExecuteReturn(e, out)
      PROVE  ClientArmed'
  BY <1>4 DEF ExecuteReturn, newBuffer
<1>5. CASE ExecuteFails(e)
  BY <1>5 DEF ExecuteFails
<1>6. CASE ExecCleanupNoop(e)
  BY <1>6 DEF ExecCleanupNoop, EnterExecDestroy
<1>7. ASSUME NEW a \in Agents, ExecDestroyCall(e, a)
      PROVE  ClientArmed'
  BY <1>7 DEF ExecDestroyCall, EnterExecDestroy
<1>8. ASSUME NEW a \in Agents, ExecDestroyReturn(e, a)
      PROVE  ClientArmed'
  BY <1>8 DEF ExecDestroyReturn
<1> QED
  BY <1>1, <1>2, <1>3, <1>4, <1>5, <1>6, <1>7, <1>8 DEF ExecNext

LEMMA ArmedCorrect ==
  ASSUME CollectorOnly
  PROVE  Spec => []ClientArmed
<1>1. Init => ClientArmed
  BY DEF Init, ClientArmed, Objects, Agents
<1>2. LifeInv /\ ClientArmed /\ [Next]_vars => ClientArmed'
  <2> SUFFICES ASSUME LifeInv, ClientArmed, [Next]_vars
               PROVE  ClientArmed'
    OBVIOUS
  <2>1. ASSUME NEW o \in Objects, Drop(o)
        PROVE  ClientArmed'
    BY <2>1 DEF Drop, ClientArmed
  <2>2. ASSUME NEW o \in Objects, Collect(o)
        PROVE  ClientArmed'
    BY <2>2 DEF Collect, ClientArmed, LifeInv, TypeOK, Objects, Agents
  <2>3. CASE PluginFree
    BY <2>3 DEF PluginFree, CollectorOnly
  <2>4. CASE UNCHANGED vars
    BY <2>4 DEF vars, ClientArmed
  <2> QED
    BY <2>1, <2>2, <2>3, <2>4, ArmedClient, ArmedBuffer, ArmedExec DEF Next
<1> QED
  BY <1>1, <1>2, LifeCorrect, PTL DEF Spec

(* Left to the collector, a client is not destroyed, nor is its            *)
(* destruction under way, while one of its buffers has a C pointer.        *)
THEOREM ClientsOutliveBuffers ==
  ASSUME CollectorOnly
  PROVE  Spec => []BufferKeepsClient
BY LifeCorrect, ArmedCorrect, ArmedKeepsClients, PTL

(* Nor while the program holds or runs one of its executables. *)
THEOREM ClientsOutliveExecutables ==
  ASSUME CollectorOnly
  PROVE  Spec => []ExecutableKeepsClient
BY LifeCorrect, ArmedCorrect, ArmedKeepsClients, PTL
-----------------------------------------------------------------------------
(* The counters.                                                           *)
LiveExecs   == {e \in Execs : life[e] = "live"}
LiveBuffers == {b \in Buffers : life[b] = "live"}

(* A counter that starts with a new member of S and drops with an old one. *)
LEMMA CountAdd ==
  ASSUME NEW S, IsFiniteSet(S), NEW x, x \notin S
  PROVE  Cardinality(S \cup {x}) = Cardinality(S) + 1
BY FS_AddElement

LEMMA CountRemove ==
  ASSUME NEW S, IsFiniteSet(S), NEW x \in S
  PROVE  Cardinality(S \ {x}) = Cardinality(S) - 1
BY FS_RemoveElement

LEMMA LiveFinite == IsFiniteSet(LiveExecs) /\ IsFiniteSet(LiveBuffers)
BY FS_Subset, LifecycleAssumption DEF LiveExecs, LiveBuffers

(* Steps of clients and buffers, and those of executables that leave the   *)
(* live ones as they are.                                                  *)
LEMMA ExecsUntouched ==
  ASSUME LifeInv, [Next]_vars,
         \A e \in Execs : ~(\E k \in Clients : Compile(e, k))
                         /\ ~(\E a \in Agents : ExecDestroyReturn(e, a))
  PROVE  LiveExecs' = LiveExecs /\ numLoadedExecutables' = numLoadedExecutables
<1> USE LifecycleAssumption DEF LifeInv, TypeOK, LiveExecs, Objects
<1>1. ASSUME NEW k \in Clients, ClientNext(k)
      PROVE  LiveExecs' = LiveExecs /\ numLoadedExecutables' = numLoadedExecutables
  BY <1>1 DEF ClientNext, NewClient, NewClientFails, ClientCleanupNoop,
     ClientDestroyCall, ClientDestroyReturn
<1>2. ASSUME NEW b \in Buffers, BufferNext(b)
      PROVE  LiveExecs' = LiveExecs /\ numLoadedExecutables' = numLoadedExecutables
  BY <1>2 DEF BufferNext, BufferFromHost, BufferCall, BufferCallReturn,
     BufferCopyReturn, BufferDestroyNoop, BufferDestroyClientGone,
     BufferDestroyCall, BufferDestroyReturn, newBuffer
<1>3. ASSUME NEW e \in Execs, ExecNext(e)
      PROVE  LiveExecs' = LiveExecs /\ numLoadedExecutables' = numLoadedExecutables
  BY <1>3 DEF ExecNext, CompileFails, Execute, ExecuteReturn, ExecuteFails,
     ExecCleanupNoop, ExecDestroyCall, newBuffer
<1>4. ASSUME NEW o \in Objects, Drop(o) \/ Collect(o)
      PROVE  LiveExecs' = LiveExecs /\ numLoadedExecutables' = numLoadedExecutables
  BY <1>4 DEF Drop, Collect
<1>5. CASE PluginFree
  BY <1>5 DEF PluginFree
<1>6. CASE UNCHANGED vars
  BY <1>6 DEF vars
<1> QED
  BY <1>1, <1>2, <1>3, <1>4, <1>5, <1>6 DEF Next

(* LoadedExecutablesAlive is exact at every moment, whatever the program   *)
(* destroys, in whatever order, and whatever the collector reclaims.       *)
THEOREM LoadedExecutablesCounted == Spec => []LoadedExecutablesExact
<1> DEFINE Counted == numLoadedExecutables = Cardinality(LiveExecs)
<1>1. Init => Counted
  <2> SUFFICES ASSUME Init
               PROVE  Counted
    OBVIOUS
  <2>1. LiveExecs = {}
    BY DEF Init, LiveExecs, Objects
  <2> QED
    BY <2>1, FS_EmptySet DEF Init
<1>2. LifeInv /\ Counted /\ [Next]_vars => Counted'
  <2> SUFFICES ASSUME LifeInv, Counted, [Next]_vars
               PROVE  Counted'
    OBVIOUS
  <2>1. ASSUME NEW e \in Execs, NEW k \in Clients, Compile(e, k)
        PROVE  Counted'
    <3>1. e \notin LiveExecs /\ LiveExecs' = LiveExecs \cup {e}
      BY <2>1 DEF Compile, LiveExecs, LifeInv, TypeOK, Objects
    <3>2. numLoadedExecutables' = numLoadedExecutables + 1
      BY <2>1 DEF Compile
    <3> QED
      BY <3>1, <3>2, LiveFinite, CountAdd
  <2>2. ASSUME NEW e \in Execs, NEW a \in Agents, ExecDestroyReturn(e, a)
        PROVE  Counted'
    <3>1. e \in LiveExecs
      BY <2>2 DEF ExecDestroyReturn, LiveExecs, LifeInv, OwnCall, Objects
    <3>2. LiveExecs' = LiveExecs \ {e}
      BY <2>2 DEF ExecDestroyReturn, LiveExecs, LifeInv, TypeOK, Objects
    <3>3. numLoadedExecutables' = numLoadedExecutables - 1
      BY <2>2 DEF ExecDestroyReturn
    <3> QED
      BY <3>1, <3>2, <3>3, LiveFinite, CountRemove
  <2>3. CASE \A e \in Execs : ~(\E k \in Clients : Compile(e, k))
                            /\ ~(\E a \in Agents : ExecDestroyReturn(e, a))
    BY <2>3, ExecsUntouched
  <2> QED
    BY <2>1, <2>2, <2>3
<1>3. Counted => LoadedExecutablesExact
  BY DEF LoadedExecutablesExact, LiveExecs
<1> HIDE DEF Counted
<1> QED
  BY <1>1, <1>2, <1>3, LifeCorrect, PTL DEF Spec

(* Every way to make a buffer ends in newBuffer, which counts it. *)
LEMMA NewBufferCounted ==
  ASSUME LifeInv, NEW b \in Buffers, NEW k, NEW s, newBuffer(b, k, s),
         buffersAlive = Cardinality(LiveBuffers)
  PROVE  buffersAlive' = Cardinality(LiveBuffers')
<1>1. b \notin LiveBuffers /\ LiveBuffers' = LiveBuffers \cup {b}
  BY DEF newBuffer, LiveBuffers, LifeInv, TypeOK, Objects
<1>2. buffersAlive' = buffersAlive + 1
  BY DEF newBuffer
<1> QED
  BY <1>1, <1>2, LiveFinite, CountAdd

(* Left to the collector, BuffersAlive is exact: the branch of Destroy     *)
(* that assumes the buffer went with its client is never taken.            *)
THEOREM BuffersCounted ==
  ASSUME CollectorOnly
  PROVE  Spec => []BuffersAliveExact
<1> DEFINE Counted == buffersAlive = Cardinality(LiveBuffers)
           Same == LiveBuffers' = LiveBuffers /\ buffersAlive' = buffersAlive
<1>1. Init => Counted
  <2> SUFFICES ASSUME Init
               PROVE  Counted
    OBVIOUS
  <2>1. LiveBuffers = {}
    BY DEF Init, LiveBuffers, Objects
  <2> QED
    BY <2>1, FS_EmptySet DEF Init
<1>2. LifeInv /\ ClientArmed /\ Counted /\ [Next]_vars => Counted'
  <2> SUFFICES ASSUME LifeInv, ClientArmed, Counted, [Next]_vars
               PROVE  Counted'
    OBVIOUS
  <2> USE LifecycleAssumption
  <2>1. ASSUME NEW k \in Clients, ClientNext(k)
        PROVE  Counted'
    <3>1. Same
      BY <2>1 DEF ClientNext, NewClient, NewClientFails, ClientCleanupNoop,
         ClientDestroyCall, ClientDestroyReturn, LiveBuffers, LifeInv, TypeOK,
         Objects
    <3> QED
      BY <3>1
  <2>2. ASSUME NEW b \in Buffers, BufferNext(b)
        PROVE  Counted'
    <3>1. CASE \E k \in Clients, t \in {"none", "held"} : BufferFromHost(b, k, t)
      BY <3>1, NewBufferCounted DEF BufferFromHost
    <3>2. CASE \E new \in Buffers : BufferCopyReturn(b, new)
      BY <3>2, NewBufferCounted DEF BufferCopyReturn
    <3>3. ASSUME NEW a \in Agents, BufferDestroyClientGone(b, a)
          PROVE  FALSE
      BY <3>3, ArmedKeepsClients DEF BufferDestroyClientGone,
         BufferKeepsClient, ClientOutlivesBuffer, IsValid
    <3>4. ASSUME NEW a \in Agents, BufferDestroyReturn(b, a)
          PROVE  Counted'
      <4>1. b \in LiveBuffers
        BY <3>4 DEF BufferDestroyReturn, LiveBuffers, LifeInv, OwnCall, Objects
      <4>2. LiveBuffers' = LiveBuffers \ {b}
        BY <3>4 DEF BufferDestroyReturn, LiveBuffers, LifeInv, TypeOK, Objects
      <4>3. buffersAlive' = buffersAlive - 1
        BY <3>4 DEF BufferDestroyReturn
      <4> QED
        BY <4>1, <4>2, <4>3, LiveFinite, CountRemove
    <3>5. ASSUME \/ \E kind \in {"query", "raw"} : BufferCall(b, kind)
                 \/ BufferCallReturn(b)
                 \/ \E a \in Agents :
                      BufferDestroyNoop(b, a) \/ BufferDestroyCall(b, a)
          PROVE  Counted'
      <4>1. Same
        BY <3>5 DEF BufferCall, BufferCallReturn, BufferDestroyNoop,
           BufferDestroyCall, LiveBuffers
      <4> QED
        BY <4>1
    <3> QED
      BY <2>2, <3>1, <3>2, <3>3, <3>4, <3>5 DEF BufferNext
  <2>3. ASSUME NEW e \in Execs, ExecNext(e)
        PROVE  Counted'
    <3>1. CASE \E out \in Buffers : ExecuteReturn(e, out)
      BY <3>1, NewBufferCounted DEF ExecuteReturn
    <3>2. CASE ~\E out \in Buffers : ExecuteReturn(e, out)
      <4>1. Same
        BY <2>3, <3>2 DEF ExecNext, Compile, CompileFails, Execute,
           ExecuteFails, ExecCleanupNoop, ExecDestroyCall, ExecDestroyReturn,
           LiveBuffers, LifeInv, TypeOK, Objects
      <4> QED
        BY <4>1
    <3> QED
      BY <3>1, <3>2
  <2>4. ASSUME NEW o \in Objects, Drop(o) \/ Collect(o)
        PROVE  Counted'
    BY <2>4 DEF Drop, Collect, LiveBuffers
  <2>5. CASE PluginFree
    BY <2>5 DEF PluginFree, LiveBuffers
  <2>6. CASE UNCHANGED vars
    BY <2>6 DEF vars, LiveBuffers
  <2> QED
    BY <2>1, <2>2, <2>3, <2>4, <2>5, <2>6 DEF Next
<1>3. Counted => BuffersAliveExact
  BY DEF BuffersAliveExact, LiveBuffers
<1> HIDE DEF Counted
<1> QED
  BY <1>1, <1>2, <1>3, LifeCorrect, ArmedCorrect, PTL DEF Spec
==============================================================================
