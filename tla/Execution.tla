----------------------------- MODULE Execution -----------------------------
(***************************************************************************)
(* One execution of a LoadedExecutable: the ExecutionConfig the program    *)
(* builds, and Done, which launches the program on every device, waits for *)
(* the devices' events in order, wraps the outputs and destroys the        *)
(* donated inputs.  The devices, which finish in any order and may fail    *)
(* after a successful launch, are the plugin's.                            *)
(*                                                                         *)
(* Inputs are numbered as in Execute(inputs...), from 0 and device by      *)
(* device: input i is argument i % perDevice of device i \div perDevice.   *)
(***************************************************************************)
EXTENDS Naturals, Sequences, FiniteSets

CONSTANTS MaxDevices, MaxInputs, MaxOutputs  \* bounds on the shapes explored

ASSUME ExecutionAssumption ==
  MaxDevices \in Nat \ {0} /\ MaxInputs \in Nat /\ MaxOutputs \in Nat

VARIABLES
  devices, inputs, outputs,  \* numReplicas * numPartitions, len(inputs) and
                             \* NumOutputs, the outputs of each device
  portable, onDevice,        \* isPortable; whether onDevice is not nil
  aliased,       \* the arguments the program may update in place (plugin)
  err,           \* ExecutionConfig.err is not nil
  nonDonatable,  \* nonDonatableInputs, as a set: nil and empty act alike
  valid,         \* [input -> BOOLEAN]: its wrapper has a C pointer
  intact,        \* [input -> BOOLEAN]: its memory was not taken by a launch
  event,         \* device_complete_events, one per device
  output,        \* [device, output]: the C buffers the launch makes
  pc, at,        \* place in Done, and the index of its loop
  returned,      \* the outputs Done has wrapped in Buffers, in order
  result         \* what Done returned

shape  == <<devices, inputs, outputs, portable, aliased>>
config == <<onDevice, err, nonDonatable>>
launch == <<intact, event, output>>
vars   == <<shape, config, launch, valid, pc, at, returned, result>>

Inputs    == 0..(inputs - 1)
Devices   == 0..(devices - 1)
perDevice == inputs \div devices
Slots     == {<<d, j>> : d \in Devices, j \in 0..(outputs - 1)}

(* LoadedExecutable.Execute: DonateNone, and the first addressable device  *)
(* for a portable executable.                                              *)
Init ==
  /\ devices \in 1..MaxDevices /\ inputs \in 0..MaxInputs
  /\ outputs \in 0..MaxOutputs /\ portable \in BOOLEAN
  /\ aliased \in SUBSET (0..(MaxInputs - 1))
  /\ onDevice = portable /\ err = FALSE
  /\ nonDonatable = Inputs
  /\ valid = [i \in Inputs |-> TRUE] /\ intact = [i \in Inputs |-> TRUE]
  /\ event = [d \in Devices |-> "none"]
  /\ output = [s \in Slots |-> "none"]
  /\ pc = "config" /\ at = 0 /\ returned = <<>> /\ result = "none"

-----------------------------------------------------------------------------
(* Configuration.  OnDevice and SetDonate do nothing once err is set.      *)
Configure(set) ==
  /\ pc = "config"
  /\ nonDonatable' = set
  /\ UNCHANGED <<shape, onDevice, err, launch, valid, pc, at, returned, result>>

DonateAll == Configure({})
DonateNone == Configure(Inputs)
Donate(indices) == Configure(nonDonatable \ indices)
SetDonate(donate) == ~err /\ Configure({i \in Inputs : ~donate[i]})

OnDevice ==
  /\ pc = "config" /\ ~err
  /\ onDevice' = TRUE
  /\ UNCHANGED <<shape, err, nonDonatable, launch, valid, pc, at, returned, result>>

(* OnDevice with a nil or non-addressable device, OnDeviceByNum or         *)
(* SetDonate with a wrong number.                                          *)
ConfigError ==
  /\ pc = "config" /\ ~err
  /\ err' = TRUE
  /\ UNCHANGED <<shape, onDevice, nonDonatable, launch, valid, pc, at, returned, result>>

-----------------------------------------------------------------------------
(* Done. *)
DoneRejected ==
  \/ err
  \/ inputs % devices # 0
  \/ portable /\ (devices > 1 \/ ~onDevice)
  \/ ~portable /\ onDevice

Return(r) ==
  /\ pc' = "returned" /\ result' = r

Reject ==
  /\ pc = "config" /\ DoneRejected
  /\ Return("error")
  /\ UNCHANGED <<shape, config, launch, valid, at, returned>>

(* PJRT_LoadedExecutable_Execute.  The plugin reads the non-donatable      *)
(* indices as argument numbers, the same on every device.                  *)
LaunchFails ==
  /\ pc = "config" /\ ~DoneRejected
  /\ Return("error")
  /\ UNCHANGED <<shape, config, launch, valid, at, returned>>

(* Seeded bug: the non-donatable inputs are not passed to the plugin. *)
Launch_DonatesAll ==
  /\ pc = "config" /\ ~DoneRejected
  /\ intact' = [i \in Inputs |-> i % perDevice \notin aliased]
  /\ event' = [d \in Devices |-> "pending"]
  /\ output' = [s \in Slots |-> "live"]
  /\ pc' = "await"
  /\ UNCHANGED <<shape, config, valid, at, returned, result>>

Launch ==
  /\ pc = "config" /\ ~DoneRejected
  /\ intact' = [i \in Inputs |->
       ~(i % perDevice \in aliased /\ i % perDevice \notin nonDonatable)]
  /\ event' = [d \in Devices |-> "pending"]
  /\ output' = [s \in Slots |-> "live"]
  /\ pc' = "await"
  /\ UNCHANGED <<shape, config, valid, at, returned, result>>

(* A device finishes, with an error or without. *)
DeviceCompletes(d, how) ==
  /\ event[d] = "pending"
  /\ event' = [event EXCEPT ![d] = how]
  /\ UNCHANGED <<shape, config, intact, output, valid, pc, at, returned, result>>

(* Seeded bug: the loop waits for success only. *)
Await_SuccessOnly ==
  /\ pc = "await" /\ at < devices /\ event[at] = "ready"
  /\ event' = [event EXCEPT ![at] = "destroyed"]
  /\ at' = at + 1
  /\ UNCHANGED <<shape, config, intact, output, valid, pc, returned, result>>

(* ExecuteAndWait: the event of device at is awaited, then destroyed; the  *)
(* first error ends the loop.                                              *)
Await ==
  /\ pc = "await" /\ at < devices /\ event[at] \in {"ready", "failed"}
  /\ event' = [event EXCEPT ![at] = "destroyed"]
  /\ IF event[at] = "failed"
     THEN Return("error") /\ UNCHANGED at
     ELSE at' = at + 1 /\ UNCHANGED <<pc, result>>
  /\ UNCHANGED <<shape, config, intact, output, valid, returned>>

(* Seeded bug: only the outputs of the first device are wrapped. *)
WrapOutputs_FirstDevice ==
  /\ pc = "await" /\ at = devices /\ outputs > 0
  /\ returned' = [n \in 1..outputs |-> <<0, n - 1>>]
  /\ output' = [s \in Slots |-> IF s[1] = 0 THEN "wrapped" ELSE output[s]]
  /\ pc' = "donate" /\ at' = 0
  /\ UNCHANGED <<shape, config, intact, event, valid, result>>

(* newBuffer for every output: outputs * devices of them, read from the    *)
(* list of the first device on, whose lists follow each other in the arena.*)
WrapOutputs ==
  /\ pc = "await" /\ at = devices /\ outputs > 0
  /\ returned' = [n \in 1..(outputs * devices) |->
                    <<(n - 1) \div outputs, (n - 1) % outputs>>]
  /\ output' = [s \in Slots |-> "wrapped"]
  /\ pc' = "donate" /\ at' = 0
  /\ UNCHANGED <<shape, config, intact, event, valid, result>>

(* Without outputs there are no lists, and Done dereferences a nil pointer.*)
WrapPanics ==
  /\ pc = "await" /\ at = devices /\ outputs = 0
  /\ pc' = "panicked"
  /\ UNCHANGED <<shape, config, launch, valid, at, returned, result>>

(* Seeded bug: the loop destroys the inputs to keep. *)
DestroyDonated_Inverted ==
  /\ pc = "donate" /\ at < inputs
  /\ valid' = [valid EXCEPT ![at] = @ /\ at \notin nonDonatable]
  /\ at' = at + 1
  /\ UNCHANGED <<shape, config, launch, pc, returned, result>>

(* Buffer.Destroy of the donated inputs.  It empties the wrapper even when *)
(* PJRT_Buffer_Destroy fails, but an error ends the loop.                  *)
DestroyDonated ==
  /\ pc = "donate" /\ at < inputs
  /\ valid' = [valid EXCEPT ![at] = @ /\ at \in nonDonatable]
  /\ \/ at' = at + 1 /\ UNCHANGED <<pc, result>>
     \/ at \notin nonDonatable /\ Return("error") /\ UNCHANGED at
  /\ UNCHANGED <<shape, config, launch, returned>>

Succeed ==
  /\ pc = "donate" /\ at = inputs
  /\ Return("ok")
  /\ UNCHANGED <<shape, config, launch, valid, at, returned>>

Next ==
  \/ DonateAll \/ DonateNone
  \/ \E indices \in SUBSET Inputs : Donate(indices)
  \/ \E donate \in [Inputs -> BOOLEAN] : SetDonate(donate)
  \/ OnDevice \/ ConfigError
  \/ Reject \/ LaunchFails \/ Launch
  \/ \E d \in Devices, how \in {"ready", "failed"} : DeviceCompletes(d, how)
  \/ Await \/ WrapOutputs \/ WrapPanics \/ DestroyDonated \/ Succeed

Spec == Init /\ [][Next]_vars

(* Done runs on, and the plugin completes what it launched. *)
Fairness ==
  /\ WF_vars(Await \/ WrapOutputs \/ DestroyDonated \/ Succeed)
  /\ \A d \in 0..(MaxDevices - 1) :
       WF_vars(d \in Devices /\ \E how \in {"ready", "failed"} : DeviceCompletes(d, how))

FairSpec == Spec /\ Fairness

-----------------------------------------------------------------------------
(* Outputs are handed out only when every device has finished without an   *)
(* error and every event is destroyed: each output of each device exactly  *)
(* once, device by device ("Done will return a slice of buffers").         *)
OutputsComplete ==
  returned # <<>> =>
    /\ \A d \in Devices : event[d] = "destroyed"
    /\ \A s \in Slots : Cardinality({n \in DOMAIN returned : returned[n] = s}) = 1
    /\ \A m, n \in DOMAIN returned : m <= n => returned[m][1] <= returned[n][1]

(* The donation is the same on every device. *)
UniformDonation ==
  \A i, j \in Inputs :
    i % perDevice = j % perDevice => (i \in nonDonatable <=> j \in nonDonatable)

(* After a successful Done with a donation that is uniform over devices,   *)
(* the inputs still valid are those not donated, and all of them still     *)
(* have their memory: no Buffer outlives what the launch took.             *)
NoDanglingInput ==
  result = "ok" /\ UniformDonation =>
    \A i \in Inputs :
      /\ valid[i] <=> i \in nonDonatable
      /\ valid[i] => intact[i]

(* A failed Done never destroys an input the program did not donate, and   *)
(* destroys none before the execution has succeeded on every device.       *)
DestroysOnlyDonated ==
  \A i \in Inputs : ~valid[i] =>
    /\ i \notin nonDonatable
    /\ \A s \in Slots : output[s] = "wrapped"

(* Done returns, whichever device fails, unless there is nothing to wrap.  *)
DoneReturns == (pc = "await" /\ outputs > 0) ~> pc = "returned"

-----------------------------------------------------------------------------
(* What the headers and comments say and the code does not keep.           *)

(* Donate "marks the inputs (referred to its indices) to be donated": the  *)
(* others are not donated, and keep their memory.                          *)
NonDonatedKept ==
  \A i \in nonDonatable : intact[i]
=============================================================================
