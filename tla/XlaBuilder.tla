------------------------------ MODULE XlaBuilder ------------------------------
(***************************************************************************)
(* The builder of the compute/xla backend, from the first parameter to the     *)
(* executable: how a program is distributed over devices, the parameters and    *)
(* their sharding, the module that is written, the options that the client       *)
(* compiles it with, and the executable, which divides its inputs.  Each of       *)
(* these keeps its own account of devices and parameters.  A program may instead   *)
(* use the client without the builder, with a CompileConfig of its own.            *)
(***************************************************************************)
EXTENDS CompileConfig, DeviceMesh
LOCAL INSTANCE Functions
LOCAL INSTANCE SequencesExt
LOCAL INSTANCE FiniteSetsExt

CONSTANTS MeshLists,      \* lists of meshes that the program may ask for
          ShardingSpecs,  \* specifications of parameters, as [mesh, axes]
          Assignments,    \* lists of devices
          MaxCalls        \* bound on the program

ASSUME BuilderAssumption ==
    /\ \A list \in MeshLists : list \in Seq([name : STRING, sizes : Seq(Nat), axes : Seq(STRING)])
    /\ Assignments \subseteq Seq(Int)
    /\ \A spec \in ShardingSpecs : spec \in [mesh : STRING, axes : Seq(Seq([axis : STRING, preSize : Int, size : Int]))]

None == "none"
NoSpec == [mesh |-> "", axes |-> << >>]   \* the nil specification
ParameterRank == 2

VARIABLES strategy, numDevices, deviceAssignment, meshes,   \* of the Builder
          hlo,          \* the stablehlo.Builder: attributes and meshes of the module,
                        \* and whether these are still the meshes of the Builder
          parameters,   \* of the main function: those that were declared
          inputs,       \* of its stablehlo function: those that are in the program
          returned,     \* no, yes, or failed: closed without a return statement
          exec,         \* the last executable, and what it was compiled from
          refused,      \* why the last compilation failed
          direct,       \* whether the program uses the client without the builder
          config,       \* the CompileConfig it uses then
          changes,      \* calls of DistributedSPMD and DistributedAutoSharding
          errors,       \* calls that have failed half-way, the program going on
          calls         \* calls made, for the bound on them
vars == <<strategy, numDevices, deviceAssignment, meshes, hlo, parameters, inputs,
          returned, exec, refused, direct, config, changes, errors, calls>>
setup == <<strategy, numDevices, deviceAssignment, meshes, hlo>>
program == <<parameters, inputs, returned>>
outcome == <<exec, refused>>

NoExec == [program |-> NoProgram, replicas |-> 0, partitions |-> 0, portable |-> FALSE,
           assignment |-> Nil, proto |-> Nil]
NoExecutable == [loaded |-> NoExec, parameters |-> 0, numDevices |-> 0, portable |-> FALSE, hlo |-> <<0, 0>>]

Init ==
    /\ strategy = None /\ numDevices = 0 /\ deviceAssignment = Nil /\ meshes = << >>
    /\ hlo = [replicas |-> 0, partitions |-> 0, meshes |-> << >>, current |-> TRUE]
    /\ parameters = << >> /\ inputs = << >> /\ returned = "no"
    /\ exec = NoExecutable /\ refused = "none"
    /\ direct \in BOOLEAN /\ config = newCompileConfig
    /\ changes = 0 /\ errors = {} /\ calls = 0

-------------------------------------------------------------------------------
(* How the program is distributed. *)

\* The number of devices is not looked at before the program is compiled.
DistributedSPMD(n) ==
    /\ strategy' = "SPMD" /\ numDevices' = n
    /\ hlo' = [hlo EXCEPT !.replicas = n]
    /\ changes' = changes + 1
    /\ UNCHANGED <<deviceAssignment, meshes, program, outcome, config, errors>>

MaxDevices(ms) ==
    LET most[i \in 0 .. Len(ms)] ==
            IF i = 0 THEN 0 ELSE IF MeshDevices(ms[i]) > most[i - 1] THEN MeshDevices(ms[i]) ELSE most[i - 1]
    IN most[Len(ms)]

WithShardyMeshes(made) == [replicas |-> 1, partitions |-> MaxDevices(made), meshes |-> made, current |-> TRUE]

\* Seeded bug: the number of devices of the last mesh is set.
ModuleFor_Last(made) ==
    [WithShardyMeshes(made) EXCEPT !.replicas = 1, !.partitions = IF made = << >> THEN 0 ELSE MeshDevices(Last(made))]
\* The backend sets the numbers of replicas and partitions over those of WithShardy.
ModuleFor(made) == [WithShardyMeshes(made) EXCEPT !.replicas = 1, !.partitions = MaxDevices(made)]

\* The meshes are made one by one; the first that fails leaves those before it in
\* place, nil meshes behind, and the module as it was.
DistributedAutoSharding(list) ==
    LET made == [i \in DOMAIN list |-> NewDeviceMesh(list[i].name, list[i].sizes, list[i].axes)]
        bad == {i \in DOMAIN made : made[i] = NilMesh \/ MeshDevices(made[i]) > NumDevices}
        stop == IF bad = {} THEN Len(made) ELSE Min(bad)
    IN /\ strategy' = "AutoSharding"
       /\ changes' = changes + 1
       /\ meshes' = [i \in DOMAIN made |-> IF i <= stop THEN made[i] ELSE NilMesh]
       /\ IF bad = {}
          THEN /\ numDevices' = MaxDevices(made)
               /\ hlo' = ModuleFor(made)
               /\ UNCHANGED errors
          ELSE /\ numDevices' = MaxDevices(SubSeq(made, 1, stop - 1))
               /\ errors' = errors \cup {"sharding"}
               /\ hlo' = [hlo EXCEPT !.current = FALSE]
       /\ UNCHANGED <<deviceAssignment, program, outcome, config>>

\* A device out of range is an error that leaves the list as far as that device.
DeviceAssignment(devices) ==
    LET bad == {i \in DOMAIN devices : devices[i] \notin 0 .. NumDevices - 1}
    IN /\ Len(devices) = AtLeastOne(numDevices)
       /\ deviceAssignment' = IF bad = {} THEN devices ELSE SubSeq(devices, 1, Min(bad))
       /\ errors' = IF bad = {} THEN errors ELSE errors \cup {"assignment"}
       /\ UNCHANGED <<strategy, numDevices, meshes, hlo, program, outcome, config, changes>>

-------------------------------------------------------------------------------
(* The main function. *)

\* The first mesh of a name; a nil mesh before it is dereferenced, which counts here
\* as an error.
MeshByName(name) == {i \in DOMAIN meshes : meshes[i].name = name
                                           /\ \A j \in 1 .. i - 1 : meshes[j].name # name}
NilBefore(i) == \E j \in 1 .. i - 1 : meshes[j] = NilMesh

\* Seeded bug: the specification is validated against any mesh of the name, of this
\* or an earlier call.
SpecAccepted_ByName(spec) == \E i \in MeshByName(spec.mesh) : meshes[i] # NilMesh

\* The mesh must be the very mesh of the module, not one like it from another call.
SpecAccepted(spec) ==
    \E i \in MeshByName(spec.mesh) :
        /\ ~NilBefore(i) /\ hlo.current
        /\ ValidateShape(meshes[i], spec.axes, ParameterRank)

\* The parameter is declared before its sharding is looked at.
Parameter(spec) ==
    /\ parameters' = Append(parameters, spec)
    /\ IF spec = NoSpec \/ SpecAccepted(spec)
       THEN inputs' = Append(inputs, spec) /\ UNCHANGED errors
       ELSE errors' = errors \cup {"parameter"} /\ UNCHANGED inputs
    /\ UNCHANGED <<setup, returned, outcome, config, changes>>

\* Values of another function are found out after the function is closed.
Return(owned) ==
    /\ returned = "no"
    /\ returned' = IF owned THEN "yes" ELSE "failed"
    /\ errors' = IF owned THEN errors ELSE errors \cup {"return"}
    /\ UNCHANGED <<setup, parameters, inputs, outcome, config, changes>>

-------------------------------------------------------------------------------
(* Compilation. *)

\* A mesh name that is used twice is found when the module is written.
ModuleWritten ==
    \A i, j \in DOMAIN hlo.meshes : hlo.meshes[i].name = hlo.meshes[j].name => i = j

Options ==
    LET given == WithStableHLO(newCompileConfig, Len(inputs))
    IN CASE strategy = "SPMD" -> WithDeviceAssignment(WithSPMD(given, numDevices), deviceAssignment)
         [] strategy = "AutoSharding" -> WithDeviceAssignment(WithShardy(given, numDevices), deviceAssignment)
         [] strategy = None -> IF deviceAssignment = Nil THEN given
                               ELSE WithDeviceAssignment(given, deviceAssignment)

AssignedDevices == IF deviceAssignment = Nil THEN 1 ELSE AtLeastOne(Len(deviceAssignment))

\* The plugin compiles a program that has a return statement.  The builder is not
\* closed: it may be changed and compiled again.
Compile ==
    /\ returned # "no" /\ ModuleWritten
    /\ IF Refusal(Options) = "none" /\ returned = "yes"
       THEN /\ exec' = [loaded |-> LoadedExecutable(Options), parameters |-> Len(parameters),
                        numDevices |-> AssignedDevices,
                        portable |-> strategy = None /\ deviceAssignment = Nil,
                        hlo |-> <<hlo.replicas, hlo.partitions>>]
            /\ refused' = "none"
       ELSE /\ refused' = IF Refusal(Options) = "none" THEN "plugin" ELSE Refusal(Options)
            /\ UNCHANGED exec
    /\ UNCHANGED <<setup, program, config, changes, errors>>

\* The client used directly: any order of options.
Configure ==
    /\ \/ config' = WithStableHLO(config, 1)
       \/ \E n \in 0 .. NumDevices + 1 : config' = WithSPMD(config, n) \/ config' = WithShardy(config, n)
       \/ \E devices \in Assignments \cup {<< >>, Nil} : config' = WithDeviceAssignment(config, devices)
    /\ UNCHANGED <<setup, program, outcome, changes, errors>>

Next ==
    /\ calls < MaxCalls /\ calls' = calls + 1
    /\ UNCHANGED direct
    /\ \/ /\ ~direct
          /\ \/ \E n \in 0 .. NumDevices + 1 : DistributedSPMD(n)
             \/ \E list \in MeshLists : DistributedAutoSharding(list)
             \/ \E devices \in Assignments : DeviceAssignment(devices)
             \/ \E spec \in ShardingSpecs \cup {NoSpec} : Parameter(spec)
             \/ \E owned \in BOOLEAN : Return(owned)
             \/ Compile
       \/ direct /\ Configure

Spec == Init /\ [][Next]_vars

\* The check of Execute on the number of inputs, before the client divides them.
ExecuteAccepts(e, count) == count = e.parameters * e.numDevices

-------------------------------------------------------------------------------
(* Properties. *)

\* The number of inputs that an executable asks for is the one that the client can
\* divide over its devices, each getting the inputs of the program: the builder's
\* count of devices and parameters and those of the options and the module are
\* the same, when no declaration of a parameter has failed.
CheckedInputsFit ==
    exec # NoExecutable /\ "parameter" \notin errors =>
        /\ exec.portable = exec.loaded.portable
        /\ \A count \in 0 .. MaxCalls * NumDevices :
              ExecuteAccepts(exec, count) =>
                  count = exec.loaded.replicas * exec.loaded.partitions * exec.loaded.program

\* Whatever the order of the options, a program that is compiled is portable, on one
\* device and free of an assignment, or each pair of a replica and a partition has
\* a device, and the pairs in replica-major order have those of the list.
Consistent(e) ==
    IF e.portable THEN e.replicas * e.partitions = 1 /\ e.assignment = Nil /\ e.proto = Nil
    ELSE /\ Len(e.proto) = e.partitions /\ \A p \in DOMAIN e.proto : Len(e.proto[p]) = e.replicas
         /\ Len(e.assignment) = e.replicas * e.partitions
         /\ \A r \in 1 .. e.replicas, p \in 1 .. e.partitions :
                e.proto[p][r] = e.assignment[(r - 1) * e.partitions + p]
\* Nothing else passes Done, but for the options of a program that asks WithShardy for no
\* partitions: these are for no device, and Done counts one partition.  Those of the
\* builder never are.
Deviceless(cc) == cc.partitions = 0 /\ cc.assignment = << >> /\ cc.proto = << >>
OptionsConsistent ==
    /\ exec # NoExecutable => Consistent(exec.loaded)
    /\ Refusal(config) = "none" => Consistent(LoadedExecutable(config)) \/ Deviceless(config)

\* The module says of replicas and partitions what the options say, when the
\* distribution was chosen once.
ModuleAgrees ==
    exec # NoExecutable /\ changes <= 1 /\ errors = {} =>
        /\ exec.loaded.replicas = AtLeastOne(exec.hlo[1])
        /\ exec.loaded.partitions = AtLeastOne(exec.hlo[2])

\* Every sharded input of the program names a mesh of the module and axes of that
\* mesh, when the distribution was chosen once.
ShardingsResolve ==
    changes <= 1 => \A spec \in Range(inputs) \ {NoSpec} :
        \E m \in Range(hlo.meshes) : m.name = spec.mesh /\ Validate(m, spec.axes)

\* The place of a device on the mesh is its place in the order of all coordinates.
Coordinates(m) == {c \in [DOMAIN m.sizes -> 0 .. MeshDevices(m) - 1] : \A i \in DOMAIN m.sizes : c[i] < m.sizes[i]}
Precedes(c, d, order) ==
    \E k \in DOMAIN order : c[order[k]] < d[order[k]] /\ \A j \in 1 .. k - 1 : c[order[j]] = d[order[j]]
CoordinateOf(m) ==
    LET inOrder == [i \in DOMAIN m.sizes |-> i]
    IN [device \in 0 .. MeshDevices(m) - 1 |->
          CHOOSE c \in Coordinates(m) : Cardinality({d \in Coordinates(m) : Precedes(d, c, inOrder)}) = device]
AxisLists(m) == {axes \in UNION {[1 .. k -> Range(m.axes)] : k \in 0 .. Len(m.axes)} : KnownAxes(m, axes)}
GroupsRight(m, axes) ==
    LET groups == ComputeReplicaGroups(m, axes)
        coordinates == CoordinateOf(m)
        chosen == [k \in DOMAIN axes |-> AxisIndex(m, axes[k])]
        members == UNION {{<<g, p>> : p \in DOMAIN groups[g]} : g \in DOMAIN groups}
        at(x) == coordinates[groups[x[1]][x[2]]]
        together(c, d) == \A i \in DOMAIN m.sizes \ Range(chosen) : c[i] = d[i]
    IN /\ {groups[x[1]][x[2]] : x \in members} = 0 .. MeshDevices(m) - 1
       /\ \A x, y \in members : /\ x[1] = y[1] <=> together(at(x), at(y))
                                /\ x[1] = y[1] => (x[2] < y[2] <=> Precedes(at(x), at(y), chosen))

\* Replica groups along some axes divide the devices of the mesh: two devices are in
\* one group when they differ in those axes only, and the first axis asked for is
\* the slowest within a group.
MeshesAskedFor == {NewDeviceMesh(m.name, m.sizes, m.axes) : m \in UNION {Range(list) : list \in MeshLists}} \ {NilMesh}
DividedMeshes == {m \in MeshesAskedFor : \A axes \in AxisLists(m) : GroupsRight(m, axes)}
GroupsPartition == Range(meshes) \ {NilMesh} \subseteq DividedMeshes

\* A distributed program without a list of devices gets the default of the client.
DefaultAssigned == refused # "no device assignment"
===============================================================================
