------------------------------ MODULE DeviceMesh ------------------------------
(***************************************************************************)
(* Package types/shardy: meshes of devices and the specifications of how a    *)
(* tensor is divided over them.  A mesh has named axes, each with a number of  *)
(* devices; the devices are numbered from zero, the last axis running fastest. *)
(* Names are identifiers already.  Replica groups are those of meshes with a      *)
(* device at least along every axis.                                           *)
(***************************************************************************)
EXTENDS Integers, Sequences, FiniteSets
LOCAL INSTANCE Functions
LOCAL INSTANCE FiniteSetsExt

Product(sizes) ==
    LET product[i \in 0 .. Len(sizes)] == IF i = 0 THEN 1 ELSE product[i - 1] * sizes[i]
    IN product[Len(sizes)]

\* The mesh that is returned with an error.
NilMesh == [name |-> "", axes |-> << >>, sizes |-> << >>]
Mesh(name, sizes, axes) == [name |-> name, axes |-> axes, sizes |-> sizes]

NewDeviceMesh(name, sizes, axes) ==
    IF /\ Len(sizes) = Len(axes) /\ axes # << >>
       /\ \A i, j \in DOMAIN axes : axes[i] # "" /\ (axes[i] = axes[j] => i = j)
    THEN Mesh(name, sizes, axes) ELSE NilMesh

MeshDevices(mesh) == Product(mesh.sizes)

-------------------------------------------------------------------------------
(* Replica groups: the devices that take part together in an operation along some
   of the axes. *)

AxisIndex(mesh, axis) == CHOOSE i \in DOMAIN mesh.axes : mesh.axes[i] = axis
KnownAxes(mesh, axes) ==
    /\ Range(axes) \subseteq Range(mesh.axes)
    /\ \A i, j \in DOMAIN axes : axes[i] = axes[j] => i = j

\* The index of a device along every axis, taken off its number from the last axis on.
Indices(mesh, flat) ==
    LET rank == Len(mesh.sizes)
        remaining[k \in 0 .. rank] == IF k = 0 THEN flat ELSE remaining[k - 1] \div mesh.sizes[rank - k + 1]
    IN [i \in 1 .. rank |-> remaining[rank - i] % mesh.sizes[i]]

\* Seeded bug: the multiplier is not carried from axis to axis.
Position_NoMultiplier(mesh, indices, chosen) ==
    LET position[k \in 0 .. Len(chosen)] == IF k = 0 THEN 0 ELSE position[k - 1] + indices[chosen[Len(chosen) - k + 1]]
    IN position[Len(chosen)]

\* The number that some of the indices make, the last of them running fastest.
Position(mesh, indices, chosen) ==
    LET n == Len(chosen)
        axis(k) == chosen[n - k + 1]
        multiplier[k \in 0 .. n] == IF k = 0 THEN 1 ELSE multiplier[k - 1] * mesh.sizes[axis(k)]
        position[k \in 0 .. n] == IF k = 0 THEN 0 ELSE position[k - 1] + indices[axis(k)] * multiplier[k - 1]
    IN position[n]

\* The axes that are not chosen, in order.
Others(mesh, chosen) ==
    LET others[i \in 0 .. Len(mesh.sizes)] ==
            IF i = 0 THEN << >> ELSE IF i \in Range(chosen) THEN others[i - 1] ELSE Append(others[i - 1], i)
    IN others[Len(mesh.sizes)]

\* Groups and places start as zero, and are filled in the order of the devices.
ComputeReplicaGroups(mesh, axes) ==
    LET chosen == [k \in DOMAIN axes |-> AxisIndex(mesh, axes[k])]
        others == Others(mesh, chosen)
        size == Product([k \in DOMAIN chosen |-> mesh.sizes[chosen[k]]])
        devices == 0 .. MeshDevices(mesh) - 1
        at(g, p) == {flat \in devices : /\ Position(mesh, Indices(mesh, flat), others) = g
                                        /\ Position(mesh, Indices(mesh, flat), chosen) = p}
    IN [g \in 1 .. MeshDevices(mesh) \div size |->
           [p \in 1 .. size |-> IF at(g - 1, p - 1) = {} THEN 0 ELSE Max(at(g - 1, p - 1))]]

-------------------------------------------------------------------------------
(* Sharding specifications: for each of the first axes of a tensor, the axes of the
   mesh over which it is divided. *)

\* Part of an axis is asked for by a size and the product of the sizes before it.
MeshAxisValid(mesh, a) ==
    /\ a.axis \in Range(mesh.axes)
    /\ a.size > 0 => /\ a.preSize > 0
                     /\ mesh.sizes[AxisIndex(mesh, a.axis)] % (a.preSize * a.size) = 0
Validate(mesh, axes) == \A i \in DOMAIN axes : \A j \in DOMAIN axes[i] : MeshAxisValid(mesh, axes[i][j])
ValidateShape(mesh, axes, rank) == Validate(mesh, axes) /\ Len(axes) <= rank
===============================================================================
