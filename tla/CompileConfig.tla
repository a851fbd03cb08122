---------------------------- MODULE CompileConfig ----------------------------
(***************************************************************************)
(* The options of a compilation, pjrt.CompileConfig: calls that are chained,   *)
(* each on the configuration that the one before returned.  After an error      *)
(* they change nothing, and Done reports it.  A program is a number of inputs.   *)
(* A nil list of devices is none at all; an empty one is a list, and not nil.    *)
(***************************************************************************)
EXTENDS Integers, Sequences

CONSTANTS NumDevices,     \* devices of the client
          Nil             \* nil, in place of a list of devices or of their proto
ASSUME NumDevicesAssumption == NumDevices \in Nat \ {0}
ASSUME NilAssumption == Nil \notin Seq(Int) \cup Seq(Seq(Int))

NoProgram == -1
newCompileConfig ==
    [err |-> "none", program |-> NoProgram, replicas |-> 1, partitions |-> 1,
     portable |-> TRUE, assignment |-> Nil, proto |-> Nil]

Failed(cc, why) == [cc EXCEPT !.err = why]

\* HLO and StableHLO programs, and computations, which are one of them.
WithStableHLO(cc, program) ==
    IF cc.err # "none" THEN cc
    ELSE IF cc.program # NoProgram THEN Failed(cc, "program given twice")
    ELSE [cc EXCEPT !.program = program]

\* The devices of each partition, one for each replica, from a list in the order of
\* the replicas.
Matrix(assignment, replicas, partitions) ==
    [p \in 1 .. partitions |-> [r \in 1 .. replicas |-> assignment[(r - 1) * partitions + p]]]

\* Seeded bug: a list that is too long is taken.
WithDeviceAssignment_Long(cc, assignment) ==
    IF cc.err # "none" THEN cc
    ELSE IF assignment = Nil THEN [cc EXCEPT !.assignment = Nil, !.proto = Nil]
    ELSE IF Len(assignment) < cc.replicas * cc.partitions THEN [cc EXCEPT !.err = "devices"]
    ELSE [cc EXCEPT !.assignment = assignment, !.portable = FALSE,
                    !.proto = Matrix(assignment, cc.replicas, cc.partitions)]
\* A nil list takes back what was set before, but not that the program is bound to
\* devices.  A list is stored before its length is looked at.  An empty list is as
\* long as it has to be for no partitions, and its matrix has none: not a nil proto.
WithDeviceAssignment(cc, assignment) ==
    IF cc.err # "none" THEN cc
    ELSE IF assignment = Nil THEN [cc EXCEPT !.assignment = Nil, !.proto = Nil]
    ELSE IF Len(assignment) # cc.replicas * cc.partitions
    THEN [cc EXCEPT !.assignment = assignment, !.portable = FALSE, !.err = "devices"]
    ELSE [cc EXCEPT !.assignment = assignment, !.portable = FALSE,
                    !.proto = Matrix(assignment, cc.replicas, cc.partitions)]

\* The default of the client: the first devices, if it has as many, and otherwise an
\* error.  For no partitions it is an empty list.
DefaultDeviceAssignment(replicas, partitions) ==
    IF replicas * partitions <= NumDevices THEN [k \in 1 .. replicas * partitions |-> k - 1] ELSE Nil

setDefaultDeviceAssignment(cc) ==
    LET default == DefaultDeviceAssignment(cc.replicas, cc.partitions)
    IN IF cc.err # "none" THEN cc
       ELSE IF default = Nil THEN Failed(cc, "no default")
       ELSE WithDeviceAssignment(cc, default)

WithSPMD(cc, replicas) ==
    IF cc.err # "none" THEN cc
    ELSE IF replicas \notin 1 .. NumDevices THEN Failed(cc, "replicas")
    ELSE setDefaultDeviceAssignment([cc EXCEPT !.replicas = replicas, !.partitions = 1, !.portable = FALSE])

\* Seeded bug: the replicas of an earlier WithSPMD stay, and its devices.
WithShardy_KeepsReplicas(cc, devices) ==
    IF cc.err # "none" THEN cc
    ELSE [cc EXCEPT !.partitions = devices, !.portable = FALSE]
\* The number of devices is not looked at: it may be zero.
WithShardy(cc, devices) ==
    IF cc.err # "none" THEN cc
    ELSE setDefaultDeviceAssignment([cc EXCEPT !.replicas = 1, !.partitions = devices, !.portable = FALSE])

AtLeastOne(n) == IF n < 1 THEN 1 ELSE n

\* Why Done refuses, or "none".  It asks whether there is a list, and a proto, not
\* whether there is a device in them.
Refusal(cc) ==
    IF cc.err # "none" THEN cc.err
    ELSE IF cc.program = NoProgram THEN "no program"
    ELSE IF cc.portable
    THEN (IF AtLeastOne(cc.replicas) * AtLeastOne(cc.partitions) > 1 \/ cc.assignment # Nil THEN "portable" ELSE "none")
    ELSE IF cc.proto = Nil THEN "no device assignment" ELSE "none"

\* The executable carries over what it needs to divide the inputs.
LoadedExecutable(cc) ==
    [program |-> cc.program, replicas |-> AtLeastOne(cc.replicas), partitions |-> AtLeastOne(cc.partitions),
     portable |-> cc.portable, assignment |-> cc.assignment, proto |-> cc.proto]
===============================================================================
