-------------------------- MODULE ExecutionProofs --------------------------
(***************************************************************************)
(* What an execution hands out and what it destroys, for any numbers of    *)
(* devices, inputs and outputs, any donation, and devices that finish in   *)
(* any order or fail.                                                      *)
(***************************************************************************)
EXTENDS Execution, FiniteSetTheorems, TLAPS

(* What the launch has left, input by input, once it has been accepted. *)
Launched ==
  /\ inputs % devices = 0
  /\ \A i \in Inputs :
       intact[i] <=> ~(i % perDevice \in aliased /\ i % perDevice \notin nonDonatable)

(* The outputs as the caller gets them. *)
Wrapped ==
  /\ outputs > 0
  /\ \A d \in Devices : event[d] = "destroyed"
  /\ \A s \in Slots : output[s] = "wrapped"
  /\ returned = [n \in 1..(outputs * devices) |-> <<(n - 1) \div outputs, (n - 1) % outputs>>]

Types ==
  /\ devices \in Nat \ {0} /\ inputs \in Nat /\ outputs \in Nat /\ at \in Nat
  /\ nonDonatable \in SUBSET Inputs
  /\ valid \in [Inputs -> BOOLEAN] /\ intact \in [Inputs -> BOOLEAN]
  /\ event \in [Devices -> {"none", "pending", "ready", "failed", "destroyed"}]
  /\ output \in [Slots -> {"none", "live", "wrapped"}]
  /\ pc \in {"config", "await", "donate", "returned", "panicked"}

(* Before the outputs are wrapped, nothing is destroyed but the events of  *)
(* the devices already waited for; from then on, donated inputs in order.  *)
ExecInv ==
  /\ Types
  /\ \/ returned = <<>> /\ \A i \in Inputs : valid[i]
     \/ Wrapped /\ \A i \in Inputs : valid[i] \/ i \notin nonDonatable
  /\ pc = "config" => at = 0
  /\ pc \in {"config", "await"} => returned = <<>> /\ \A i \in Inputs : valid[i]
  /\ pc \in {"config", "await", "donate", "panicked"} => result = "none"
  /\ pc = "await" => Launched /\ at <= devices /\ \A d \in 0..(at - 1) : event[d] = "destroyed"
  /\ pc = "donate" =>
       /\ Launched /\ Wrapped /\ at <= inputs
       /\ \A i \in Inputs : valid[i] <=> i \in nonDonatable \/ i >= at
  /\ result = "ok" =>
       /\ pc = "returned" /\ Launched
       /\ \A i \in Inputs : valid[i] <=> i \in nonDonatable

LEMMA ExecInvInit == Init => ExecInv
BY ExecutionAssumption DEF Init, ExecInv, Types, Inputs, Devices, Slots

LEMMA ConfigureKeeps ==
  ASSUME ExecInv,
         \E set \in SUBSET Inputs : Configure(set)
  PROVE  ExecInv'
BY DEF Configure, ExecInv, Types, Inputs, Devices, Slots, Wrapped, shape, launch

LEMMA ExecInvNext == ExecInv /\ [Next]_vars => ExecInv'
<1> SUFFICES ASSUME ExecInv, [Next]_vars PROVE ExecInv'
  OBVIOUS
<1>1. CASE DonateAll \/ DonateNone
  BY <1>1, ConfigureKeeps DEF DonateAll, DonateNone
<1>2. ASSUME NEW indices \in SUBSET Inputs, Donate(indices) PROVE ExecInv'
  <2>1. nonDonatable \ indices \in SUBSET Inputs
    BY DEF ExecInv, Types
  <2>2. Configure(nonDonatable \ indices)
    BY <1>2 DEF Donate
  <2> QED BY <2>1, <2>2, ConfigureKeeps
<1>3. ASSUME NEW donate \in [Inputs -> BOOLEAN], SetDonate(donate) PROVE ExecInv'
  <2>1. {i \in Inputs : ~donate[i]} \in SUBSET Inputs
    OBVIOUS
  <2>2. Configure({i \in Inputs : ~donate[i]})
    BY <1>3 DEF SetDonate
  <2> QED BY <2>1, <2>2, ConfigureKeeps
<1>4. CASE OnDevice \/ ConfigError
  <2>1. UNCHANGED <<shape, nonDonatable, launch, valid, pc, at, returned, result>> /\ pc = "config"
    BY <1>4 DEF OnDevice, ConfigError
  <2> QED BY <2>1 DEF ExecInv, Types, Wrapped, Inputs, Devices, Slots, shape, launch
<1>5. CASE Reject \/ LaunchFails
  <2>1. /\ UNCHANGED <<shape, config, launch, valid, at, returned>>
        /\ pc = "config" /\ pc' = "returned" /\ result' = "error"
    BY <1>5 DEF Reject, LaunchFails, Return
  <2> QED BY <2>1 DEF ExecInv, Types, Wrapped, Inputs, Devices, Slots, shape, config, launch
<1>6. CASE Launch
  <2> USE <1>6 DEF Launch
  <2>1. Types'
    BY DEF ExecInv, Types, Inputs, Devices, Slots, shape, config
  <2>2. Launched'
    BY DEF ExecInv, Types, Launched, DoneRejected, Inputs, perDevice, shape, config
  <2>3. returned' = <<>> /\ (\A i \in Inputs : valid[i])' /\ pc' = "await" /\ at' = 0 /\ result' = "none"
    BY DEF ExecInv, Inputs, shape
  <2> QED BY <2>1, <2>2, <2>3 DEF ExecInv, Types
<1>7. ASSUME NEW d \in Devices, NEW how \in {"ready", "failed"}, DeviceCompletes(d, how)
      PROVE  ExecInv'
  <2> USE <1>7 DEF DeviceCompletes
  <2>1. Types'
    BY DEF ExecInv, Types, Inputs, Devices, Slots, shape, config
  <2>2. \A x \in Devices : event[x] = "destroyed" => event'[x] = "destroyed"
    BY DEF ExecInv, Types
  <2>3. /\ Wrapped => Wrapped'
        /\ Launched => Launched'
    BY <2>2 DEF Wrapped, Launched, Inputs, Devices, Slots, perDevice, shape, config
  <2>4. pc = "await" => (\A x \in 0..(at - 1) : event[x] = "destroyed")'
    BY <2>2 DEF ExecInv, Types, Devices
  <2> QED BY <2>1, <2>3, <2>4 DEF ExecInv, Inputs, shape, config
<1>8. CASE Await
  <2> USE <1>8 DEF Await
  <2>1. Types'
    BY DEF ExecInv, Types, Inputs, Devices, Slots, shape, config, Return
  <2>2. Launched'
    BY DEF ExecInv, Launched, Inputs, perDevice, shape, config
  <2>3. CASE event[at] = "failed"
    BY <2>1, <2>3 DEF ExecInv, Inputs, shape, config, Return
  <2>4. CASE event[at] # "failed"
    <3>1. at' = at + 1 /\ at' <= devices' /\ at \in Nat
      BY <2>4 DEF ExecInv, Types, shape
    <3>2. (\A x \in 0..(at - 1) : event[x] = "destroyed")'
      BY <3>1 DEF ExecInv, Types, Devices
    <3> QED BY <2>1, <2>2, <2>4, <3>1, <3>2 DEF ExecInv, Inputs, shape, config
  <2> QED BY <2>3, <2>4
<1>9. CASE WrapOutputs
  <2> USE <1>9 DEF WrapOutputs
  <2>1. Types'
    BY DEF ExecInv, Types, Inputs, Devices, Slots, shape, config
  <2>2. Launched'
    BY DEF ExecInv, Launched, Inputs, perDevice, shape, config
  <2>3. Wrapped'
    BY DEF ExecInv, Types, Wrapped, Devices, Slots, shape
  <2>4. (at <= inputs /\ \A i \in Inputs : valid[i] /\ i >= at)'
    BY DEF ExecInv, Types, Inputs, shape
  <2> QED BY <2>1, <2>2, <2>3, <2>4 DEF ExecInv, Inputs, shape, config
<1>10. CASE WrapPanics
  BY <1>10 DEF WrapPanics, ExecInv, Types, Inputs, Devices, Slots, shape, config, launch
<1>11. CASE DestroyDonated
  <2> USE <1>11 DEF DestroyDonated
  <2>1. Types'
    BY DEF ExecInv, Types, Inputs, Devices, Slots, shape, config, launch, Return
  <2>2. /\ Launched' /\ Wrapped'
    BY DEF ExecInv, Launched, Wrapped, Inputs, Devices, Slots, perDevice, shape, config, launch
  <2>3. \A i \in Inputs : valid'[i] <=> IF i = at THEN valid[i] /\ i \in nonDonatable ELSE valid[i]
    BY DEF ExecInv, Types
  <2>4. \A i \in Inputs : valid'[i] \/ i \notin nonDonatable
    BY <2>3 DEF ExecInv
  <2>5. CASE at' = at + 1 /\ UNCHANGED <<pc, result>>
    <3>1. \A i \in Inputs : valid'[i] <=> i \in nonDonatable \/ i >= at + 1
      BY <2>3 DEF ExecInv, Types, Inputs
    <3> QED BY <2>1, <2>2, <2>4, <2>5, <3>1 DEF ExecInv, Types, Inputs, shape, config
  <2>6. CASE Return("error")
    BY <2>1, <2>2, <2>4, <2>6 DEF ExecInv, Return, Inputs, shape, config
  <2> QED BY <2>5, <2>6
<1>12. CASE Succeed
  <2> USE <1>12 DEF Succeed, Return
  <2>1. Types' /\ Launched' /\ Wrapped'
    BY DEF ExecInv, Types, Launched, Wrapped, Inputs, Devices, Slots, perDevice, shape, config, launch
  <2>2. \A i \in Inputs : valid[i] <=> i \in nonDonatable
    BY DEF ExecInv, Types, Inputs
  <2> QED BY <2>1, <2>2 DEF ExecInv, Inputs, shape, config, launch
<1>13. CASE UNCHANGED vars
  BY <1>13 DEF vars, shape, config, launch, ExecInv, Types, Launched, Wrapped, Inputs, Devices,
     Slots, perDevice
<1> QED BY <1>1, <1>2, <1>3, <1>4, <1>5, <1>6, <1>7, <1>8, <1>9, <1>10, <1>11, <1>12, <1>13 DEF Next

LEMMA ExecInvAlways == Spec => []ExecInv
BY ExecInvInit, ExecInvNext, PTL DEF Spec

-----------------------------------------------------------------------------
(* No input that the program keeps is ever destroyed, and none at all      *)
(* before every device has finished and the outputs are wrapped, whatever  *)
(* fails.                                                                  *)
THEOREM OnlyDonatedDestroyed == Spec => []DestroysOnlyDonated
<1>1. ExecInv => DestroysOnlyDonated
  BY DEF ExecInv, DestroysOnlyDonated, Wrapped
<1> QED BY <1>1, ExecInvAlways, PTL

-----------------------------------------------------------------------------
(* Inputs are numbered device by device, with as many for each.            *)
LEMMA ProductQuotient ==
  ASSUME NEW d \in Nat \ {0}, NEW q \in Nat, NEW n \in Nat, n % d = 0, q = n \div d
  PROVE  n = d * q
BY Z3

LEMMA ArgumentOfItself ==
  ASSUME NEW p \in Nat, NEW a \in Nat, a < p
  PROVE  a % p = a
BY Z3

LEMMA ArgumentNumbers ==
  ASSUME devices \in Nat \ {0}, inputs \in Nat, inputs % devices = 0, NEW i \in Inputs
  PROVE  /\ i % perDevice \in Inputs
         /\ (i % perDevice) % perDevice = i % perDevice
<1> DEFINE p == inputs \div devices
<1>1. p \in Nat /\ i \in Nat /\ inputs > 0
  BY DEF Inputs
<1>2. inputs = devices * p
  BY <1>1, ProductQuotient
<1>3. p > 0 /\ p <= inputs
  BY <1>1, <1>2, Z3
<1>4. i % p \in Nat /\ i % p < p
  BY <1>1, <1>3
<1>5. (i % p) % p = i % p
  BY <1>1, <1>4, ArgumentOfItself
<1>6. i % p \in Inputs
  BY <1>1, <1>3, <1>4 DEF Inputs
<1> QED BY <1>5, <1>6 DEF perDevice

(* After a successful Done with the same donation on every device, a       *)
(* Buffer is valid just when it was not donated, and has its memory: the   *)
(* launch, which goes by argument numbers, took nothing else.              *)
THEOREM SuccessLeavesNoDangling == Spec => []NoDanglingInput
<1>1. ExecInv => NoDanglingInput
  <2> SUFFICES ASSUME ExecInv, result = "ok", UniformDonation, NEW i \in Inputs
               PROVE  (valid[i] <=> i \in nonDonatable) /\ (valid[i] => intact[i])
    BY DEF NoDanglingInput
  <2>1. Launched /\ (valid[i] <=> i \in nonDonatable)
    BY DEF ExecInv
  <2>2. i % perDevice \in Inputs /\ (i % perDevice) % perDevice = i % perDevice
    BY <2>1, ArgumentNumbers DEF ExecInv, Types, Launched
  <2>3. i \in nonDonatable <=> i % perDevice \in nonDonatable
    BY <2>2 DEF UniformDonation
  <2> QED BY <2>1, <2>3 DEF Launched
<1> QED BY <1>1, ExecInvAlways, PTL

-----------------------------------------------------------------------------
(* Output j of device d is handed out at place d * outputs + j + 1, and    *)
(* nowhere else.                                                           *)
LEMMA Quotient ==
  ASSUME NEW k \in Nat, NEW d \in Nat, NEW j \in Nat, NEW m \in Nat, j < k, m = d * k + j
  PROVE  m \div k = d /\ m % k = j
BY Z3

LEMMA Remainder ==
  ASSUME NEW k \in Nat \ {0}, NEW m \in Nat
  PROVE  /\ m \div k \in Nat /\ m % k \in Nat
         /\ m = (m \div k) * k + (m % k)
BY Z3

LEMMA PlaceInRange ==
  ASSUME NEW k \in Nat \ {0}, NEW n \in Nat \ {0}, NEW d \in 0..(n - 1), NEW j \in 0..(k - 1)
  PROVE  d * k + j + 1 \in 1..(k * n)
<1>1. d * k \in Nat /\ (d + 1) * k <= n * k
  BY Z3
<1>2. (d + 1) * k = d * k + k /\ n * k = k * n /\ k * n \in Nat
  BY Z3
<1> QED BY <1>1, <1>2

LEMMA DivMonotone ==
  ASSUME NEW k \in Nat \ {0}, NEW m \in Nat, NEW n \in Nat, m <= n
  PROVE  m \div k <= n \div k
<1> DEFINE a == m \div k
           b == n \div k
<1>1. a \in Nat /\ b \in Nat /\ m = a * k + (m % k) /\ n = b * k + (n % k) /\ m % k >= 0 /\ n % k < k
  BY Remainder
<1>2. SUFFICES ASSUME a >= b + 1 PROVE FALSE
  BY <1>1
<1>3. a * k >= (b + 1) * k /\ (b + 1) * k = b * k + k
  BY <1>1, <1>2, Z3
<1> QED BY <1>1, <1>3

(* Outputs are handed out only when all devices have finished well and     *)
(* their events are destroyed: each output of each device once, device by  *)
(* device.                                                                 *)
THEOREM OutputsAreComplete == Spec => []OutputsComplete
<1>1. ExecInv => OutputsComplete
  <2> SUFFICES ASSUME ExecInv, returned # <<>> PROVE OutputsComplete
    BY DEF OutputsComplete
  <2>1. Wrapped /\ outputs \in Nat \ {0} /\ devices \in Nat \ {0}
    BY DEF ExecInv, Types, Wrapped
  <2>2. outputs * devices \in Nat
    BY <2>1, Z3
  <2>3. DOMAIN returned = 1..(outputs * devices)
    BY <2>1 DEF Wrapped
  <2>4. \A n \in DOMAIN returned : returned[n] = <<(n - 1) \div outputs, (n - 1) % outputs>>
    BY <2>1 DEF Wrapped
  <2>5. ASSUME NEW s \in Slots
        PROVE  Cardinality({n \in DOMAIN returned : returned[n] = s}) = 1
    <3>1. PICK d \in Devices, j \in 0..(outputs - 1) : s = <<d, j>>
      BY DEF Slots
    <3> DEFINE place == d * outputs + j + 1
    <3>2. place \in 1..(outputs * devices)
      BY <2>1, PlaceInRange DEF Devices
    <3>3. returned[place] = s
      <4>1. d \in Nat /\ j \in Nat /\ j < outputs /\ d * outputs \in Nat
        BY <2>1, Z3 DEF Devices
      <4>2. place - 1 \in Nat /\ place - 1 = d * outputs + j
        BY <4>1
      <4>3. (place - 1) \div outputs = d /\ (place - 1) % outputs = j
        BY <4>1, <4>2, <2>1, Quotient
      <4> QED BY <3>1, <3>2, <4>3, <2>3, <2>4
    <3>4. ASSUME NEW n \in DOMAIN returned, returned[n] = s PROVE n = place
      <4>1. n - 1 \in Nat
        BY <2>2, <2>3
      <4>2. (n - 1) \div outputs = d /\ (n - 1) % outputs = j
        BY <3>1, <3>4, <2>4
      <4>3. n - 1 = d * outputs + j
        BY <4>1, <4>2, <2>1, Remainder
      <4>4. d * outputs \in Nat /\ j \in Nat
        BY <2>1, Z3 DEF Devices
      <4> QED BY <4>1, <4>3, <4>4, <2>3, <2>2
    <3>5. {n \in DOMAIN returned : returned[n] = s} = {place}
      BY <3>2, <3>3, <3>4, <2>3
    <3> QED BY <3>5, FS_Singleton
  <2>6. ASSUME NEW m \in DOMAIN returned, NEW n \in DOMAIN returned, m <= n
        PROVE  returned[m][1] <= returned[n][1]
    <3>1. m - 1 \in Nat /\ n - 1 \in Nat /\ m - 1 <= n - 1
      BY <2>2, <2>3, <2>6
    <3>2. (m - 1) \div outputs <= (n - 1) \div outputs
      BY <3>1, <2>1, DivMonotone
    <3> QED BY <3>2, <2>4
  <2> QED BY <2>1, <2>5, <2>6 DEF OutputsComplete, Wrapped
<1> QED BY <1>1, ExecInvAlways, PTL
=============================================================================
