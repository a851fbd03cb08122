--------------------------- MODULE XlaBuilderProofs ---------------------------
(***************************************************************************)
(* The builder of the backend, the options of a compilation and the executable *)
(* agree on devices, parameters and meshes, for any number of devices and any   *)
(* lists of meshes, specifications and devices; and the replica groups of a mesh *)
(* divide its devices.                                                         *)
(***************************************************************************)
EXTENDS Functions, XlaBuilder, FiniteSetTheorems, TLAPS
LOCAL INSTANCE FiniteSetsExt

-------------------------------------------------------------------------------
(* Numbers.  The statements are about sets, since a theorem about operators      *)
(* cannot be instantiated by the provers.                                        *)

\* Otherwise the numbers below the whole set, which are finitely many, would be
\* as many as their successors, of which zero is none.
LEMMA LeastNumber ==
    ASSUME NEW T \in SUBSET Nat, T # {}
    PROVE  \E x \in T : \A y \in T : x <= y
<1> DEFINE L == {n \in Nat : \A y \in T : n <= y}
<1> SUFFICES ASSUME L \cap T = {}
             PROVE  FALSE
  OBVIOUS
<1>1. PICK t \in T : t \in Nat
  OBVIOUS
<1>2. L \in SUBSET (0 .. t)
  BY <1>1
<1>3. IsFiniteSet(L)
  <2>1. IsFiniteSet(0 .. t)
    BY <1>1, FS_Interval
  <2> QED
    BY <1>2, <2>1, FS_Subset
<1>4. 0 \in L
  OBVIOUS
<1>5. ASSUME NEW n \in L
      PROVE  n + 1 \in L \ {0}
  <2>1. n \in Nat /\ n \notin T
    OBVIOUS
  <2>2. \A y \in T : n + 1 <= y
    BY <2>1
  <2> QED
    BY <2>1, <2>2
<1> HIDE DEF L
<1>6. Cardinality(L) \in Nat /\ IsFiniteSet(L \ {0}) /\ Cardinality(L \ {0}) = Cardinality(L) - 1
  BY <1>3, <1>4, FS_CardinalityType, FS_RemoveElement
<1> DEFINE next == [n \in L |-> n + 1]
<1>7. next \in [L -> L \ {0}] /\ \A n \in L : next[n] = n + 1
  BY <1>5
<1> HIDE DEF next
<1>8. Cardinality(L \ {0}) < Cardinality(L)
  BY <1>6
<1>9. \E x, y \in L : x # y /\ next[x] = next[y]
  BY <1>3, <1>6, <1>7, <1>8, FS_PigeonHole
<1> QED
  BY <1>7, <1>9 DEF L

\* A set that has zero, and with a number the next one, has all numbers.
LEMMA NumberInduction ==
    ASSUME NEW S, 0 \in S, \A n \in Nat : n \in S => n + 1 \in S
    PROVE  Nat \subseteq S
<1> SUFFICES ASSUME Nat \ S # {}
             PROVE  FALSE
  OBVIOUS
<1>1. PICK n \in Nat \ S : \A y \in Nat \ S : n <= y
  BY LeastNumber
<1>2. n # 0 /\ n - 1 \in Nat /\ n - 1 \in S
  BY <1>1
<1> QED
  BY <1>1, <1>2

-------------------------------------------------------------------------------
(* The devices of a mesh, and of the largest of some meshes, are a number. *)

\* A function that goes on from a number to the next, from zero on, stays in Nat.
LEMMA StaysNumber ==
    ASSUME NEW N \in Nat, NEW r, r[0] \in Nat,
           \A i \in 1 .. N : r[i - 1] \in Nat => r[i] \in Nat
    PROVE  r[N] \in Nat
<1> DEFINE S == {n \in Nat : n <= N => r[n] \in Nat}
<1>1. 0 \in S
  OBVIOUS
<1>2. ASSUME NEW n \in Nat, n \in S
      PROVE  n + 1 \in S
  BY <1>2
<1> HIDE DEF S
<1>3. N \in S
  BY <1>1, <1>2, NumberInduction
<1> QED
  BY <1>3 DEF S

\* Recursion from a number to the next, among the elements of a set, has a solution.
IsAccumulation(N, V, start, step) ==
    N \in Nat /\ start \in V /\ step \in [1 .. N -> [V -> V]]
IsAccumulated(p, N, V, start, step) ==
    /\ p \in [0 .. N -> V] /\ p[0] = start
    /\ \A i \in 1 .. N : p[i] = step[i][p[i - 1]]

LEMMA AccumulationExists ==
    ASSUME NEW N, NEW V, NEW start, NEW step, IsAccumulation(N, V, start, step)
    PROVE  \E p : IsAccumulated(p, N, V, start, step)
<1> DEFINE S == {n \in Nat : n <= N => \E p : IsAccumulated(p, n, V, start, step)}
<1>1. N \in Nat /\ start \in V /\ \A i \in 1 .. N : step[i] \in [V -> V]
  BY DEF IsAccumulation
<1>2. 0 \in S
  <2>1. IsAccumulated([i \in 0 .. 0 |-> start], 0, V, start, step)
    BY <1>1 DEF IsAccumulated
  <2> QED
    BY <2>1
<1>3. ASSUME NEW n \in Nat, n \in S
      PROVE  n + 1 \in S
  <2>1. ASSUME n + 1 <= N
        PROVE  \E q : IsAccumulated(q, n + 1, V, start, step)
    <3>1. PICK p : IsAccumulated(p, n, V, start, step)
      BY <1>1, <1>3, <2>1
    <3> DEFINE q == [i \in 0 .. n + 1 |-> IF i = n + 1 THEN step[n + 1][p[n]] ELSE p[i]]
    <3>2. p \in [0 .. n -> V] /\ p[0] = start /\ \A i \in 1 .. n : p[i] = step[i][p[i - 1]]
      BY <3>1 DEF IsAccumulated
    <3>3. step[n + 1][p[n]] \in V
      BY <1>1, <2>1, <3>2
    <3>4. q \in [0 .. n + 1 -> V] /\ q[0] = start
      BY <3>2, <3>3
    <3>5. ASSUME NEW i \in 1 .. n + 1
          PROVE  q[i] = step[i][q[i - 1]]
      <4>1. q[i - 1] = p[i - 1]
        OBVIOUS
      <4>2. CASE i = n + 1
        BY <4>1, <4>2
      <4>3. CASE i # n + 1
        BY <3>2, <4>1, <4>3
      <4> QED
        BY <4>2, <4>3
    <3> HIDE DEF q
    <3> QED
      BY <3>4, <3>5 DEF IsAccumulated
  <2> QED
    BY <2>1
<1> HIDE DEF S
<1>4. N \in S
  BY <1>1, <1>2, <1>3, NumberInduction
<1> QED
  BY <1>4 DEF S

LEMMA ProductSolved ==
    ASSUME NEW sizes \in Seq(Nat)
    PROVE  \E f : /\ Product(sizes) = f[Len(sizes)] /\ f[0] = 1
                  /\ \A i \in 1 .. Len(sizes) : f[i] = f[i - 1] * sizes[i]
<1> DEFINE N == Len(sizes)
           Solves(p) == p = [i \in 0 .. N |-> IF i = 0 THEN 1 ELSE p[i - 1] * sizes[i]]
           step == [i \in 1 .. N |-> [v \in Nat |-> v * sizes[i]]]
           product == CHOOSE p : Solves(p)
<1>1. N \in Nat /\ \A i \in 1 .. N : sizes[i] \in Nat
  OBVIOUS
<1>2. Product(sizes) = product[N]
  BY DEF Product
<1> HIDE DEF N
<1>3. IsAccumulation(N, Nat, 1, step)
  BY <1>1 DEF IsAccumulation
<1>4. PICK p : IsAccumulated(p, N, Nat, 1, step)
  <2> HIDE DEF step
  <2> QED
    BY <1>3, AccumulationExists
<1>5. p \in [0 .. N -> Nat] /\ p[0] = 1
  BY <1>4 DEF IsAccumulated
<1>6. ASSUME NEW i \in 1 .. N
      PROVE  p[i] = p[i - 1] * sizes[i]
  <2>1. p[i] = step[i][p[i - 1]] /\ i - 1 \in 0 .. N
    <3> HIDE DEF step
    <3> QED
      BY <1>1, <1>4 DEF IsAccumulated
  <2>2. p[i - 1] \in Nat
    BY <1>5, <2>1
  <2> QED
    BY <2>1, <2>2
<1> HIDE DEF step
<1>7. Solves(p)
  BY <1>1, <1>5, <1>6
<1>8. Solves(product)
  BY <1>7
<1> HIDE DEF product
<1>9. product[0] = 1 /\ \A i \in 1 .. N : product[i] = product[i - 1] * sizes[i]
  BY <1>1, <1>8
<1> QED
  BY <1>2, <1>9 DEF N

LEMMA ProductIsNumber ==
    ASSUME NEW sizes \in Seq(Nat)
    PROVE  Product(sizes) \in Nat
<1> DEFINE N == Len(sizes)
<1>1. N \in Nat /\ \A i \in 1 .. N : sizes[i] \in Nat
  OBVIOUS
<1>2. PICK f : Product(sizes) = f[N] /\ f[0] = 1 /\ \A i \in 1 .. N : f[i] = f[i - 1] * sizes[i]
  BY ProductSolved
<1>3. \A i \in 1 .. N : f[i - 1] \in Nat => f[i] \in Nat
  BY <1>1, <1>2
<1> QED
  BY <1>1, <1>2, <1>3, StaysNumber

LEMMA MostIsNumber ==
    ASSUME NEW ms, Len(ms) \in Nat, \A i \in 1 .. Len(ms) : MeshDevices(ms[i]) \in Nat
    PROVE  MaxDevices(ms) \in Nat
<1> DEFINE N == Len(ms)
           more(i, v) == IF MeshDevices(ms[i]) > v THEN MeshDevices(ms[i]) ELSE v
           Solves(p) == p = [i \in 0 .. N |-> IF i = 0 THEN 0 ELSE more(i, p[i - 1])]
           step == [i \in 1 .. N |-> [v \in Nat |-> more(i, v)]]
           most == CHOOSE p : Solves(p)
<1>1. N \in Nat /\ \A i \in 1 .. N, v \in Nat : more(i, v) \in Nat
  OBVIOUS
<1>2. MaxDevices(ms) = most[N]
  BY DEF MaxDevices
<1> HIDE DEF N
<1>3. IsAccumulation(N, Nat, 0, step)
  BY <1>1 DEF IsAccumulation
<1>4. PICK p : IsAccumulated(p, N, Nat, 0, step)
  <2> HIDE DEF step
  <2> QED
    BY <1>3, AccumulationExists
<1>5. p \in [0 .. N -> Nat] /\ p[0] = 0
  BY <1>4 DEF IsAccumulated
<1>6. ASSUME NEW i \in 1 .. N
      PROVE  p[i] = more(i, p[i - 1])
  <2>1. p[i] = step[i][p[i - 1]] /\ i - 1 \in 0 .. N
    <3> HIDE DEF step
    <3> QED
      BY <1>1, <1>4 DEF IsAccumulated
  <2>2. p[i - 1] \in Nat
    BY <1>5, <2>1
  <2> QED
    BY <2>1, <2>2
<1> HIDE DEF step
<1>7. Solves(p)
  BY <1>1, <1>5, <1>6
<1>8. Solves(most)
  BY <1>7
<1> HIDE DEF most
<1>9. most[0] = 0 /\ \A i \in 1 .. N : most[i] = more(i, most[i - 1])
  <2>1. \A i \in 1 .. N : i \in 0 .. N /\ i # 0
    BY <1>1
  <2> QED
    BY <1>1, <1>8, <2>1
<1>10. \A i \in 1 .. N : most[i - 1] \in Nat => most[i] \in Nat
  BY <1>1, <1>9
<1> QED
  <2>1. most[0] \in Nat
    BY <1>9
  <2> HIDE DEF more
  <2> QED
    BY <1>1, <1>2, <1>10, <2>1, StaysNumber

-------------------------------------------------------------------------------
(* The options: each call keeps what Consistent needs. *)

Reasons == {"none", "program given twice", "devices", "no default", "replicas"}
Configs == [err : Reasons, program : Int, replicas : Int, partitions : Int,
            portable : BOOLEAN, assignment : Seq(Int) \cup {Nil}, proto : Seq(Seq(Int)) \cup {Nil}]

\* As long as there was no error, there is no matrix, or it is the list of devices in
\* other words, for the replicas and partitions of now.
Sound(cc) ==
    cc.err = "none" =>
        /\ cc.replicas \in 1 .. NumDevices /\ cc.partitions \in 0 .. NumDevices
        /\ cc.portable => /\ cc.replicas = 1 /\ cc.partitions = 1
                          /\ cc.assignment = Nil /\ cc.proto = Nil
        /\ ~cc.portable =>
             \/ cc.proto = Nil
             \/ /\ cc.assignment # Nil /\ Len(cc.assignment) = cc.replicas * cc.partitions
                /\ cc.proto = Matrix(cc.assignment, cc.replicas, cc.partitions)
Chosen(cc) == cc \in Configs /\ Sound(cc)

LEMMA NumberSet ==
    ASSUME NEW d \in Configs, NEW n \in Int
    PROVE  [d EXCEPT !.replicas = n] \in Configs /\ [d EXCEPT !.partitions = n] \in Configs
<1>1. [d EXCEPT !.replicas = n] \in Configs
  BY DEF Configs
<1>2. [d EXCEPT !.partitions = n] \in Configs
  BY DEF Configs
<1> QED
  BY <1>1, <1>2

LEMMA PairPlace ==
    ASSUME NEW R \in Nat, NEW P \in Nat, NEW r \in 1 .. R, NEW p \in 1 .. P
    PROVE  (r - 1) * P + p \in 1 .. R * P
<1>1. (r - 1) * P \in Nat /\ (r - 1) * P = r * P - P
  BY Z3
<1>2. r * P <= R * P /\ r * P \in Int /\ R * P \in Int
  BY Z3
<1> QED
  BY <1>1, <1>2

LEMMA MatrixIsList ==
    ASSUME NEW R \in Nat, NEW P \in Nat, NEW a \in Seq(Int), Len(a) = R * P
    PROVE  Matrix(a, R, P) \in Seq(Seq(Int))
<1>1. \A p \in 1 .. P : [r \in 1 .. R |-> a[(r - 1) * P + p]] \in Seq(Int)
  <2>1. \A p \in 1 .. P, r \in 1 .. R : (r - 1) * P + p \in 1 .. Len(a)
    BY PairPlace
  <2>2. \A p \in 1 .. P, r \in 1 .. R : a[(r - 1) * P + p] \in Int
    BY <2>1
  <2> QED
    BY <2>2
<1> QED
  BY <1>1 DEF Matrix

\* A list of devices on a configuration without error.
LEMMA ListTaken ==
    ASSUME NEW d \in Configs, NEW a \in Seq(Int) \cup {Nil}, d.err = "none",
           d.replicas \in 1 .. NumDevices, d.partitions \in 0 .. NumDevices,
           d.portable => d.replicas = 1 /\ d.partitions = 1
    PROVE  Chosen(WithDeviceAssignment(d, a))
<1> USE NumDevicesAssumption
<1>1. CASE a = Nil
  <2>1. WithDeviceAssignment(d, a) = [d EXCEPT !.assignment = Nil, !.proto = Nil]
    BY <1>1 DEF WithDeviceAssignment
  <2> DEFINE d1 == [d EXCEPT !.assignment = Nil]
             e == [d1 EXCEPT !.proto = Nil]
  <2>2. d1 \in Configs
    BY DEF Configs
  <2>3. WithDeviceAssignment(d, a) = e
    BY <2>1 DEF Configs
  <2>4. e \in Configs
    <3> HIDE DEF d1
    <3> QED
      BY <2>2 DEF Configs
  <2>5. /\ e.err = "none" /\ e.replicas = d.replicas /\ e.partitions = d.partitions
        /\ e.portable = d.portable /\ e.assignment = Nil /\ e.proto = Nil
    BY DEF Configs
  <2> HIDE DEF e
  <2> QED
    BY <2>3, <2>4, <2>5 DEF Chosen, Sound
<1>2. CASE a # Nil /\ Len(a) # d.replicas * d.partitions
  <2> DEFINE d1 == [d EXCEPT !.assignment = a]
             d2 == [d1 EXCEPT !.portable = FALSE]
             e == [d2 EXCEPT !.err = "devices"]
  <2>1. d1 \in Configs
    BY DEF Configs
  <2>2. d2 \in Configs
    <3> HIDE DEF d1
    <3> QED
      BY <2>1 DEF Configs
  <2>3. e \in Configs /\ e.err = "devices"
    <3> HIDE DEF d2
    <3> QED
      BY <2>2 DEF Configs, Reasons
  <2>4. WithDeviceAssignment(d, a) = e
    BY <1>2 DEF WithDeviceAssignment, Configs
  <2> HIDE DEF e
  <2> QED
    BY <2>3, <2>4 DEF Chosen, Sound
<1>3. CASE a # Nil /\ Len(a) = d.replicas * d.partitions
  <2> DEFINE M == Matrix(a, d.replicas, d.partitions)
             d1 == [d EXCEPT !.assignment = a]
             d2 == [d1 EXCEPT !.portable = FALSE]
             e == [d2 EXCEPT !.proto = M]
  <2>0. a \in Seq(Int) /\ d.replicas \in Nat /\ d.partitions \in Nat
    BY <1>3
  <2>1. WithDeviceAssignment(d, a) = e
    BY <1>3 DEF WithDeviceAssignment, Configs
  <2>2. M \in Seq(Seq(Int))
    BY <1>3, <2>0, MatrixIsList
  <2> HIDE DEF M
  <2>5. d1 \in Configs
    BY DEF Configs
  <2>6. d2 \in Configs
    <3> HIDE DEF d1
    <3> QED
      BY <2>5 DEF Configs
  <2>7. e \in Configs
    <3> HIDE DEF d2
    <3> QED
      BY <2>2, <2>6 DEF Configs
  <2>3. /\ e.err = "none" /\ e.replicas = d.replicas /\ e.partitions = d.partitions
        /\ e.portable = FALSE /\ e.assignment = a /\ e.proto = M
    BY <2>2 DEF Configs
  <2>4. e.proto = Matrix(e.assignment, e.replicas, e.partitions)
    BY <2>3 DEF M
  <2> HIDE DEF e
  <2> QED
    BY <1>3, <2>1, <2>3, <2>4, <2>7 DEF Chosen, Sound
<1> QED
  BY <1>1, <1>2, <1>3

LEMMA RefusedChosen ==
    ASSUME NEW d \in Configs, NEW why \in Reasons \ {"none"}
    PROVE  Chosen([d EXCEPT !.err = why])
<1>1. [d EXCEPT !.err = why] \in Configs
  BY DEF Configs
<1>2. [d EXCEPT !.err = why].err = why
  BY DEF Configs
<1> QED
  BY <1>1, <1>2 DEF Chosen, Sound

\* The default list of the client.
LEMMA DefaultTaken ==
    ASSUME NEW d \in Configs, d.err = "none", d.replicas \in 1 .. NumDevices, d.partitions \in Nat,
           ~d.portable, d.replicas = 1 \/ d.partitions = 1
    PROVE  Chosen(setDefaultDeviceAssignment(d))
<1> DEFINE N == d.replicas * d.partitions
           default == DefaultDeviceAssignment(d.replicas, d.partitions)
<1> USE NumDevicesAssumption
<1>1. N \in Nat /\ d.replicas <= NumDevices /\ (d.partitions <= N)
  BY Z3
<1>2. default \in Seq(Int) \cup {Nil} /\ (default # Nil => N <= NumDevices)
  <2> HIDE DEF N
  <2>1. CASE N <= NumDevices
    <3>1. default = [k \in 1 .. N |-> k - 1]
      BY <2>1 DEF DefaultDeviceAssignment, N
    <3> QED
      BY <1>1, <2>1, <3>1
  <2>2. CASE ~(N <= NumDevices)
    <3>1. default = Nil
      BY <2>2 DEF DefaultDeviceAssignment, N
    <3> QED
      BY <3>1
  <2> QED
    BY <2>1, <2>2
<1>3. CASE default = Nil
  <2>1. setDefaultDeviceAssignment(d) = Failed(d, "no default")
    BY <1>3 DEF setDefaultDeviceAssignment
  <2>2. "no default" \in Reasons \ {"none"}
    BY DEF Reasons
  <2>3. Failed(d, "no default") = [d EXCEPT !.err = "no default"]
    BY DEF Failed
  <2> QED
    BY <2>1, <2>2, <2>3, RefusedChosen
<1>4. CASE default # Nil
  <2>1. setDefaultDeviceAssignment(d) = WithDeviceAssignment(d, default)
    BY <1>4 DEF setDefaultDeviceAssignment
  <2>2. d.partitions \in 0 .. NumDevices
    <3> HIDE DEF N, default
    <3> QED
      BY <1>1, <1>2, <1>4
  <2> HIDE DEF default
  <2> QED
    BY <1>2, <2>1, <2>2, ListTaken
<1> QED
  BY <1>3, <1>4

LEMMA NewChosen == Chosen(newCompileConfig)
  BY NumDevicesAssumption DEF newCompileConfig, Chosen, Sound, Configs, Reasons, NoProgram

LEMMA ProgramKept ==
    ASSUME NEW cc, Chosen(cc), NEW n \in Nat
    PROVE  Chosen(WithStableHLO(cc, n))
<1>1. CASE cc.err # "none"
  BY <1>1 DEF WithStableHLO
<1>2. CASE cc.err = "none" /\ cc.program # NoProgram
  <2>1. WithStableHLO(cc, n) = [cc EXCEPT !.err = "program given twice"]
    BY <1>2 DEF WithStableHLO, Failed
  <2>2. cc \in Configs /\ "program given twice" \in Reasons \ {"none"}
    BY DEF Chosen, Reasons
  <2> QED
    BY <2>1, <2>2, RefusedChosen
<1>3. CASE cc.err = "none" /\ cc.program = NoProgram
  <2>1. WithStableHLO(cc, n) = [cc EXCEPT !.program = n]
    BY <1>3 DEF WithStableHLO
  <2> DEFINE e == [cc EXCEPT !.program = n]
  <2>2. e \in Configs
    <3>1. cc \in Configs /\ n \in Int
      BY DEF Chosen
    <3> QED
      BY <3>1 DEF Configs
  <2>3. /\ e.err = cc.err /\ e.replicas = cc.replicas /\ e.partitions = cc.partitions
        /\ e.portable = cc.portable /\ e.assignment = cc.assignment /\ e.proto = cc.proto
    BY DEF Chosen, Configs
  <2> HIDE DEF e
  <2> QED
    BY <2>1, <2>2, <2>3 DEF Chosen, Sound, e
<1> QED
  BY <1>1, <1>2, <1>3

LEMMA AssignmentKept ==
    ASSUME NEW cc, Chosen(cc), NEW a \in Seq(Int) \cup {Nil}
    PROVE  Chosen(WithDeviceAssignment(cc, a))
<1>1. CASE cc.err # "none"
  BY <1>1 DEF WithDeviceAssignment
<1>2. CASE cc.err = "none"
  BY <1>2, ListTaken DEF Chosen, Sound
<1> QED
  BY <1>1, <1>2

LEMMA SPMDKept ==
    ASSUME NEW cc, Chosen(cc), NEW n \in Nat
    PROVE  Chosen(WithSPMD(cc, n))
<1> USE NumDevicesAssumption
<1>1. CASE cc.err # "none"
  BY <1>1 DEF WithSPMD
<1>2. CASE cc.err = "none" /\ n \notin 1 .. NumDevices
  <2>1. WithSPMD(cc, n) = [cc EXCEPT !.err = "replicas"]
    BY <1>2 DEF WithSPMD, Failed
  <2>2. cc \in Configs /\ "replicas" \in Reasons \ {"none"}
    BY DEF Chosen, Reasons
  <2> QED
    BY <2>1, <2>2, RefusedChosen
<1>3. CASE cc.err = "none" /\ n \in 1 .. NumDevices
  <2> DEFINE d1 == [cc EXCEPT !.replicas = n]
             d2 == [d1 EXCEPT !.partitions = 1]
             d == [d2 EXCEPT !.portable = FALSE]
  <2>1. WithSPMD(cc, n) = setDefaultDeviceAssignment(d)
    BY <1>3 DEF WithSPMD, Chosen, Configs
  <2>2. d \in Configs /\ d.err = "none" /\ d.replicas = n /\ d.partitions = 1 /\ ~d.portable
    <3>0. cc \in Configs /\ n \in Int /\ 1 \in Int
      BY DEF Chosen
    <3>1. d1 \in Configs
      BY <3>0, NumberSet, Zenon
    <3>2. d2 \in Configs
      <4> HIDE DEF d1
      <4> QED
        BY <3>0, <3>1, NumberSet, Zenon
    <3>3. d \in Configs
      <4> HIDE DEF d2
      <4> QED
        BY <3>2 DEF Configs
    <3> QED
      BY <1>3, <3>3 DEF Chosen, Configs
  <2> HIDE DEF d
  <2> QED
    BY <1>3, <2>1, <2>2, DefaultTaken
<1> QED
  BY <1>1, <1>2, <1>3

LEMMA ShardyKept ==
    ASSUME NEW cc, Chosen(cc), NEW n \in Nat
    PROVE  Chosen(WithShardy(cc, n))
<1> USE NumDevicesAssumption
<1>1. CASE cc.err # "none"
  BY <1>1 DEF WithShardy
<1>2. CASE cc.err = "none"
  <2> DEFINE d1 == [cc EXCEPT !.replicas = 1]
             d2 == [d1 EXCEPT !.partitions = n]
             d == [d2 EXCEPT !.portable = FALSE]
  <2>1. WithShardy(cc, n) = setDefaultDeviceAssignment(d)
    BY <1>2 DEF WithShardy, Chosen, Configs
  <2>2. d \in Configs /\ d.err = "none" /\ d.replicas = 1 /\ d.partitions = n /\ ~d.portable
    <3>0. cc \in Configs /\ n \in Int /\ 1 \in Int
      BY DEF Chosen
    <3>1. d1 \in Configs
      BY <3>0, NumberSet, Zenon
    <3>2. d2 \in Configs
      <4> HIDE DEF d1
      <4> QED
        BY <3>0, <3>1, NumberSet, Zenon
    <3>3. d \in Configs
      <4> HIDE DEF d2
      <4> QED
        BY <3>2 DEF Configs
    <3> QED
      BY <1>2, <3>3 DEF Chosen, Configs
  <2> HIDE DEF d
  <2> QED
    BY <2>1, <2>2, DefaultTaken
<1> QED
  BY <1>1, <1>2

\* A configuration that is not refused has a consistent executable, or it is for no
\* device.
LEMMA LoadedConsistent ==
    ASSUME NEW cc, Chosen(cc), Refusal(cc) = "none", ~Deviceless(cc)
    PROVE  /\ Consistent(LoadedExecutable(cc))
           /\ cc.err = "none" /\ cc.replicas \in 1 .. NumDevices /\ cc.partitions \in 1 .. NumDevices
           /\ AtLeastOne(cc.replicas) = cc.replicas /\ AtLeastOne(cc.partitions) = cc.partitions
           /\ cc.portable => cc.replicas = 1 /\ cc.partitions = 1
           /\ ~cc.portable => cc.assignment # Nil /\ Len(cc.assignment) = cc.replicas * cc.partitions
<1> DEFINE R == cc.replicas
           P == cc.partitions
           e == LoadedExecutable(cc)
<1> USE NumDevicesAssumption
<1>1. cc.err = "none" /\ cc \in Configs /\ Sound(cc)
  BY DEF Refusal, Chosen
<1>2. R \in 1 .. NumDevices /\ P \in 0 .. NumDevices /\ AtLeastOne(R) = R
  BY <1>1 DEF Sound, AtLeastOne
<1>3. CASE cc.portable
  <2>1. R = 1 /\ P = 1 /\ cc.assignment = Nil /\ cc.proto = Nil
    BY <1>1, <1>3 DEF Sound
  <2>2. AtLeastOne(P) = 1
    BY <2>1 DEF AtLeastOne
  <2>3. /\ e.portable = cc.portable /\ e.replicas = 1 /\ e.partitions = 1 /\ e.assignment = Nil
        /\ e.proto = Nil
    BY <1>2, <2>1, <2>2 DEF LoadedExecutable
  <2> HIDE DEF e
  <2>4. Consistent(e)
    BY <1>3, <2>3 DEF Consistent
  <2> QED
    BY <1>1, <1>2, <1>3, <2>1, <2>2, <2>4 DEF e
<1>4. CASE ~cc.portable
  <2>1. cc.proto # Nil
    BY <1>1, <1>4 DEF Refusal
  <2>2. cc.assignment # Nil /\ Len(cc.assignment) = R * P /\ cc.proto = Matrix(cc.assignment, R, P)
    BY <1>1, <1>4, <2>1 DEF Sound
  <2>3. P \in 1 .. NumDevices /\ AtLeastOne(P) = P
    <3>1. cc.assignment \in Seq(Int)
      BY <1>1, <2>2 DEF Configs
    <3>2. P # 0
      <4> SUFFICES ASSUME P = 0
                   PROVE  FALSE
        OBVIOUS
      <4>1. Len(cc.assignment) = 0
        BY <1>2, <2>2
      <4>2. cc.assignment = << >>
        BY <3>1, <4>1
      <4>3. cc.proto = << >>
        BY <2>2 DEF Matrix
      <4> QED
        BY <4>2, <4>3 DEF Deviceless
    <3> QED
      BY <1>2, <3>2 DEF AtLeastOne
  <2>4. /\ e.portable = cc.portable /\ e.replicas = R /\ e.partitions = P /\ e.assignment = cc.assignment
        /\ e.proto = Matrix(cc.assignment, R, P)
    BY <1>2, <2>2, <2>3 DEF LoadedExecutable
  <2>5. /\ Len(e.proto) = P /\ DOMAIN e.proto = 1 .. P
        /\ \A p \in 1 .. P : e.proto[p] = [r \in 1 .. R |-> cc.assignment[(r - 1) * P + p]]
    BY <1>2, <2>4 DEF Matrix
  <2>6. \A p \in 1 .. P : Len(e.proto[p]) = R
    <3> HIDE DEF R, P, e
    <3>1. R \in Nat
      BY <1>2
    <3>2. ASSUME NEW p \in 1 .. P
          PROVE  Len([r \in 1 .. R |-> cc.assignment[(r - 1) * P + p]]) = R
      BY <3>1
    <3> QED
      BY <2>5, <3>2
  <2>7. ASSUME NEW r \in 1 .. R, NEW p \in 1 .. P
        PROVE  e.proto[p][r] = cc.assignment[(r - 1) * P + p]
    <3>1. e.proto[p] = [q \in 1 .. R |-> cc.assignment[(q - 1) * P + p]]
      BY <2>5
    <3> HIDE DEF R, P, e
    <3> QED
      BY <3>1, Zenon
  <2> HIDE DEF e
  <2>8. Consistent(e)
    BY <1>4, <2>2, <2>4, <2>5, <2>6, <2>7 DEF Consistent
  <2> QED
    BY <1>1, <1>2, <1>4, <2>2, <2>3, <2>8 DEF e
<1> QED
  BY <1>3, <1>4

\* What is in a configuration after a call that has not failed.
LEMMA ListTold ==
    ASSUME NEW d \in Configs, NEW a \in Seq(Int) \cup {Nil}, NEW e, e = WithDeviceAssignment(d, a), e.err = "none"
    PROVE  /\ d.err = "none" /\ e.program = d.program /\ e.replicas = d.replicas
           /\ e.partitions = d.partitions /\ e.assignment = a
           /\ a = Nil => e.portable = d.portable /\ e.proto = Nil
           /\ a # Nil => ~e.portable
<1>1. CASE d.err # "none"
  BY <1>1 DEF WithDeviceAssignment
<1>2. CASE d.err = "none" /\ a = Nil
  <2>1. e = [d EXCEPT !.assignment = Nil, !.proto = Nil]
    BY <1>2 DEF WithDeviceAssignment
  <2> QED
    BY <1>2, <2>1 DEF Configs
<1>3. CASE d.err = "none" /\ a # Nil /\ Len(a) # d.replicas * d.partitions
  <2>1. e = [d EXCEPT !.assignment = a, !.portable = FALSE, !.err = "devices"]
    BY <1>3 DEF WithDeviceAssignment
  <2>2. e.err = "devices"
    BY <2>1 DEF Configs
  <2> QED
    BY <2>2
<1>4. CASE d.err = "none" /\ a # Nil /\ Len(a) = d.replicas * d.partitions
  <2>1. e = [d EXCEPT !.assignment = a, !.portable = FALSE,
                      !.proto = Matrix(a, d.replicas, d.partitions)]
    BY <1>4 DEF WithDeviceAssignment
  <2> QED
    BY <1>4, <2>1 DEF Configs
<1> QED
  BY <1>1, <1>2, <1>3, <1>4

LEMMA DefaultTold ==
    ASSUME NEW d \in Configs, d.replicas \in Nat, d.partitions \in Nat, ~d.portable,
           NEW e, e = setDefaultDeviceAssignment(d), e.err = "none"
    PROVE  /\ d.err = "none" /\ e.program = d.program /\ e.replicas = d.replicas
           /\ e.partitions = d.partitions /\ ~e.portable
<1> DEFINE N == d.replicas * d.partitions
           default == DefaultDeviceAssignment(d.replicas, d.partitions)
<1>1. N \in Nat
  BY Z3
<1>2. default \in Seq(Int) \cup {Nil}
  <2> HIDE DEF N
  <2>1. N <= NumDevices => default = [k \in 1 .. N |-> k - 1]
    BY DEF DefaultDeviceAssignment, N
  <2>2. ~(N <= NumDevices) => default = Nil
    BY DEF DefaultDeviceAssignment, N
  <2> HIDE DEF default
  <2>3. N <= NumDevices => default \in Seq(Int)
    BY <1>1, <2>1
  <2>4. ~(N <= NumDevices) => default = Nil
    BY <2>2
  <2> QED
    BY <2>3, <2>4
<1> HIDE DEF default
<1>3. CASE d.err # "none"
  BY <1>3 DEF setDefaultDeviceAssignment
<1>4. CASE d.err = "none" /\ default = Nil
  <2>1. e = [d EXCEPT !.err = "no default"]
    BY <1>4 DEF setDefaultDeviceAssignment, Failed, default
  <2>2. e.err = "no default"
    BY <2>1 DEF Configs
  <2> QED
    BY <2>2
<1>5. CASE d.err = "none" /\ default # Nil
  <2>1. e = WithDeviceAssignment(d, default)
    BY <1>5 DEF setDefaultDeviceAssignment, default
  <2> QED
    BY <1>2, <2>1, ListTold
<1> QED
  BY <1>3, <1>4, <1>5

LEMMA SPMDTold ==
    ASSUME NEW cc \in Configs, NEW n \in Nat, NEW e, e = WithSPMD(cc, n), e.err = "none"
    PROVE  /\ cc.err = "none" /\ e.program = cc.program
           /\ e.replicas = n /\ e.partitions = 1 /\ ~e.portable
<1>1. CASE cc.err # "none"
  BY <1>1 DEF WithSPMD
<1>2. CASE cc.err = "none" /\ n \notin 1 .. NumDevices
  <2>1. e = [cc EXCEPT !.err = "replicas"]
    BY <1>2 DEF WithSPMD, Failed
  <2>2. e.err = "replicas"
    BY <2>1 DEF Configs
  <2> QED
    BY <2>2
<1>3. CASE cc.err = "none" /\ n \in 1 .. NumDevices
  <2> DEFINE d1 == [cc EXCEPT !.replicas = n]
             d2 == [d1 EXCEPT !.partitions = 1]
             d == [d2 EXCEPT !.portable = FALSE]
  <2>1. e = setDefaultDeviceAssignment(d)
    BY <1>3 DEF WithSPMD, Configs
  <2>2. d \in Configs
    <3>0. n \in Int /\ 1 \in Int
      OBVIOUS
    <3>1. d1 \in Configs
      BY <3>0, NumberSet, Zenon
    <3>2. d2 \in Configs
      <4> HIDE DEF d1
      <4> QED
        BY <3>0, <3>1, NumberSet, Zenon
    <3> HIDE DEF d2
    <3> QED
      BY <3>2 DEF Configs
  <2>3. /\ d.err = cc.err /\ d.program = cc.program /\ d.replicas = n /\ d.partitions = 1 /\ ~d.portable
    BY DEF Configs
  <2> HIDE DEF d
  <2> QED
    BY <1>3, <2>1, <2>2, <2>3, DefaultTold
<1> QED
  BY <1>1, <1>2, <1>3

LEMMA ShardyTold ==
    ASSUME NEW cc \in Configs, NEW n \in Nat, NEW e, e = WithShardy(cc, n), e.err = "none"
    PROVE  /\ cc.err = "none" /\ e.program = cc.program
           /\ e.replicas = 1 /\ e.partitions = n /\ ~e.portable
<1>1. CASE cc.err # "none"
  BY <1>1 DEF WithShardy
<1>2. CASE cc.err = "none"
  <2> DEFINE d1 == [cc EXCEPT !.replicas = 1]
             d2 == [d1 EXCEPT !.partitions = n]
             d == [d2 EXCEPT !.portable = FALSE]
  <2>1. e = setDefaultDeviceAssignment(d)
    BY <1>2 DEF WithShardy, Configs
  <2>2. d \in Configs
    <3>0. n \in Int /\ 1 \in Int
      OBVIOUS
    <3>1. d1 \in Configs
      BY <3>0, NumberSet, Zenon
    <3>2. d2 \in Configs
      <4> HIDE DEF d1
      <4> QED
        BY <3>0, <3>1, NumberSet, Zenon
    <3> HIDE DEF d2
    <3> QED
      BY <3>2 DEF Configs
  <2>3. /\ d.err = cc.err /\ d.program = cc.program /\ d.replicas = 1 /\ d.partitions = n /\ ~d.portable
    BY DEF Configs
  <2> HIDE DEF d
  <2> QED
    BY <1>2, <2>1, <2>2, <2>3, DefaultTold
<1> QED
  BY <1>1, <1>2

-------------------------------------------------------------------------------
(* The invariant of the builder. *)

\* The name of the nil mesh is a string, which the provers must be told.
Meshes == [name : STRING \cup {""}, axes : Seq(STRING), sizes : Seq(Nat)]
Specs == ShardingSpecs \cup {NoSpec}

BuilderTypes ==
    /\ strategy \in {None, "SPMD", "AutoSharding"} /\ numDevices \in Nat /\ changes \in Nat
    /\ deviceAssignment \in (Seq(Int) \ {<< >>}) \cup {Nil} /\ meshes \in Seq(Meshes)
    /\ hlo \in [replicas : Nat, partitions : Nat, meshes : Seq(Meshes), current : BOOLEAN]
    /\ parameters \in Seq(Specs) /\ inputs \in Seq(Specs)

\* The strategy, the number of devices and the module follow each other until the
\* distribution is changed again or a mesh is refused.
Distribution ==
    /\ strategy = None <=> changes = 0
    /\ changes = 0 => meshes = << >> /\ hlo.replicas = 0 /\ hlo.partitions = 0
    /\ changes = 1 /\ strategy = "SPMD" => hlo.replicas = numDevices /\ hlo.partitions = 0
    /\ changes = 1 /\ strategy = "AutoSharding" /\ errors = {} =>
          hlo.replicas = 1 /\ hlo.partitions = numDevices
    /\ changes <= 1 /\ hlo.current => hlo.meshes = meshes

\* Before the distribution is chosen no specification is accepted; afterwards those
\* that were resolve.
Resolved ==
    /\ changes = 0 => \A i \in DOMAIN inputs : inputs[i] = NoSpec
    /\ changes <= 1 => \A i \in DOMAIN inputs : inputs[i] # NoSpec =>
          \E k \in DOMAIN hlo.meshes :
              hlo.meshes[k].name = inputs[i].mesh /\ Validate(hlo.meshes[k], inputs[i].axes)

\* What an executable has, it had when it was compiled.
Compiled ==
    exec # NoExecutable =>
        /\ Consistent(exec.loaded)
        /\ exec.portable = exec.loaded.portable
        /\ exec.loaded.program \in Nat /\ exec.loaded.replicas \in Nat /\ exec.loaded.partitions \in Nat
        /\ exec.numDevices = exec.loaded.replicas * exec.loaded.partitions
        /\ "parameter" \notin errors => exec.parameters = exec.loaded.program
        /\ changes <= 1 /\ errors = {} => /\ exec.loaded.replicas = AtLeastOne(exec.hlo[1])
                                         /\ exec.loaded.partitions = AtLeastOne(exec.hlo[2])

BuilderInv ==
    /\ BuilderTypes /\ Distribution /\ Resolved /\ Compiled
    /\ "parameter" \notin errors => inputs = parameters
    /\ Chosen(config)

-------------------------------------------------------------------------------
(* What the builder compiles with. *)

\* The options are for the strategy, the devices and the inputs of now.
OptionsTell(cc) ==
    /\ cc.program = Len(inputs)
    /\ ~Deviceless(cc)
    /\ cc.portable = (strategy = None /\ deviceAssignment = Nil)
    /\ AssignedDevices = cc.replicas * cc.partitions
    /\ strategy = "SPMD" => cc.replicas = numDevices /\ cc.partitions = 1
    /\ strategy = "AutoSharding" => cc.replicas = 1 /\ cc.partitions = numDevices
    /\ strategy = None => cc.replicas = 1 /\ cc.partitions = 1 

LEMMA OptionsTold ==
    ASSUME BuilderTypes
    PROVE  /\ Chosen(Options)
           /\ Refusal(Options) = "none" => OptionsTell(Options)
<1> DEFINE given == WithStableHLO(newCompileConfig, Len(inputs))
           a == deviceAssignment
           cc == Options
<1>0. Len(inputs) \in Nat /\ numDevices \in Nat /\ a \in (Seq(Int) \ {<< >>}) \cup {Nil} /\ strategy \in {None, "SPMD", "AutoSharding"}
  BY DEF BuilderTypes
<1>1. Chosen(given)
  BY <1>0, NewChosen, ProgramKept
<1>2. /\ given.err = "none" /\ given.program = Len(inputs) /\ given.replicas = 1 /\ given.partitions = 1
      /\ given.portable = TRUE
  BY DEF WithStableHLO, newCompileConfig
<1>3. /\ strategy = "SPMD" => cc = WithDeviceAssignment(WithSPMD(given, numDevices), a)
      /\ strategy = "AutoSharding" => cc = WithDeviceAssignment(WithShardy(given, numDevices), a)
      /\ strategy = None /\ a = Nil => cc = given
      /\ strategy = None /\ a # Nil => cc = WithDeviceAssignment(given, a)
  <2> HIDE DEF given
  <2> QED
    BY DEF Options, None, given
<1> HIDE DEF given, cc
<1>5. /\ strategy = "SPMD" => Chosen(WithSPMD(given, numDevices))
      /\ strategy = "AutoSharding" => Chosen(WithShardy(given, numDevices))
  BY <1>0, <1>1, SPMDKept, ShardyKept
<1>6. Chosen(cc)
  BY <1>0, <1>1, <1>3, <1>5, AssignmentKept
<1>7. ASSUME Refusal(cc) = "none"
      PROVE  OptionsTell(cc)
  <2>0. cc.err = "none"
    BY <1>7 DEF Refusal
  <2>2. given \in Configs /\ cc \in Configs
    BY <1>1, <1>6 DEF Chosen
  <2>8. cc.assignment = a
    <3>1. CASE strategy = None /\ a = Nil
      BY <1>3, <3>1 DEF given, WithStableHLO, newCompileConfig
    <3>2. CASE strategy = None /\ a # Nil
      BY <1>0, <1>3, <2>0, <2>2, <3>2, ListTold
    <3>3. CASE strategy = "SPMD"
      BY <1>0, <1>3, <1>5, <2>0, <3>3, ListTold DEF Chosen
    <3>4. CASE strategy = "AutoSharding"
      BY <1>0, <1>3, <1>5, <2>0, <3>4, ListTold DEF Chosen
    <3> QED
      BY <1>0, <3>1, <3>2, <3>3, <3>4
  <2>9. ~Deviceless(cc)
    <3>1. << >> \in Seq(Int)
      OBVIOUS
    <3>2. a # << >>
      BY <1>0, <3>1, NilAssumption, Zenon
    <3> QED
      BY <2>8, <3>2, Zenon DEF Deviceless
  <2>1. /\ cc.err = "none"
        /\ cc.portable => cc.replicas = 1 /\ cc.partitions = 1
        /\ ~cc.portable => a # Nil /\ Len(a) = cc.replicas * cc.partitions
    BY <1>6, <1>7, <2>8, <2>9, LoadedConsistent
  <2>3. (a = Nil => AssignedDevices = 1) /\ (a # Nil => AssignedDevices = Len(a))
    BY <1>0 DEF AtLeastOne, AssignedDevices
  <2>4. CASE strategy = "SPMD"
    <3> DEFINE d == WithSPMD(given, numDevices)
    <3>1. d \in Configs /\ cc = WithDeviceAssignment(d, a)
      BY <1>3, <1>5, <2>4 DEF Chosen
    <3> HIDE DEF d
    <3>2. /\ d.err = "none" /\ cc.program = d.program /\ cc.replicas = d.replicas
          /\ cc.partitions = d.partitions /\ cc.assignment = a /\ (a = Nil => cc.portable = d.portable)
          /\ (a # Nil => ~cc.portable)
      BY <1>0, <2>1, <3>1, ListTold
    <3>3. d.program = given.program /\ d.replicas = numDevices /\ d.partitions = 1 /\ ~d.portable
      BY <1>0, <2>2, <3>2, SPMDTold DEF d
    <3> QED
      BY <1>2, <2>1, <2>2, <2>3, <2>4, <2>9, <3>2, <3>3 DEF OptionsTell, None, Configs
  <2>5. CASE strategy = "AutoSharding"
    <3> DEFINE d == WithShardy(given, numDevices)
    <3>1. d \in Configs /\ cc = WithDeviceAssignment(d, a)
      BY <1>3, <1>5, <2>5 DEF Chosen
    <3> HIDE DEF d
    <3>2. /\ d.err = "none" /\ cc.program = d.program /\ cc.replicas = d.replicas
          /\ cc.partitions = d.partitions /\ cc.assignment = a /\ (a = Nil => cc.portable = d.portable)
          /\ (a # Nil => ~cc.portable)
      BY <1>0, <2>1, <3>1, ListTold
    <3>3. d.program = given.program /\ d.replicas = 1 /\ d.partitions = numDevices /\ ~d.portable
      BY <1>0, <2>2, <3>2, ShardyTold DEF d
    <3> QED
      BY <1>2, <2>1, <2>2, <2>3, <2>5, <2>9, <3>2, <3>3 DEF OptionsTell, None, Configs
  <2>6. CASE strategy = None /\ a = Nil
    <3>1. cc = given
      BY <1>3, <2>6
    <3>2. cc.program = Len(inputs) /\ cc.replicas = 1 /\ cc.partitions = 1 /\ cc.portable = TRUE
      BY <1>2, <3>1
    <3>3. cc.portable = (strategy = None /\ deviceAssignment = Nil)
      BY <2>6, <3>2
    <3>4. AssignedDevices = cc.replicas * cc.partitions
      BY <2>3, <2>6, <3>2
    <3> QED
      BY <2>6, <2>9, <3>2, <3>3, <3>4 DEF OptionsTell, None
  <2>7. CASE strategy = None /\ a # Nil
    <3>1. cc = WithDeviceAssignment(given, a)
      BY <1>3, <2>7
    <3>2. /\ cc.program = given.program /\ cc.replicas = given.replicas
          /\ cc.partitions = given.partitions /\ cc.assignment = a /\ ~cc.portable
      BY <1>0, <2>1, <2>2, <2>7, <3>1, ListTold
    <3> QED
      BY <1>2, <2>1, <2>2, <2>3, <2>7, <2>9, <3>2 DEF OptionsTell, None, Configs
  <2> QED
    BY <1>0, <2>4, <2>5, <2>6, <2>7
<1> QED
  BY <1>6, <1>7 DEF cc

-------------------------------------------------------------------------------
(* Numbers written with digits of different ranges. *)

\* A digit counts for more than all those after it.
LEMMA LargerDigit ==
    ASSUME NEW x \in Nat, NEW y \in Nat, NEW Q \in Nat, x < y
    PROVE  x * Q + Q <= y * Q
<1>1. PICK z \in Nat : y = x + 1 + z
  <2>1. y - x - 1 \in Nat /\ y = x + 1 + (y - x - 1)
    OBVIOUS
  <2> QED
    BY <2>1
<1>2. y * Q = x * Q + Q + z * Q
  BY <1>1
<1>3. z * Q \in Nat /\ x * Q \in Nat
  OBVIOUS
<1> QED
  BY <1>2, <1>3

LEMMA DigitFirst ==
    ASSUME NEW Q \in Nat, NEW a \in Nat, NEW b \in Nat, a < Q, b < Q, NEW x \in Nat, NEW y \in Nat
    PROVE  /\ a + x * Q < b + y * Q <=> x < y \/ (x = y /\ a < b)
           /\ a + x * Q = b + y * Q <=> x = y /\ a = b
<1>1. x * Q \in Nat /\ y * Q \in Nat
  OBVIOUS
<1>2. CASE x < y
  <2>1. x * Q + Q <= y * Q
    BY <1>2, LargerDigit
  <2> HIDE <1>2
  <2> DEFINE X == x * Q
             Y == y * Q
  <2>2. X \in Nat /\ Y \in Nat /\ X + Q <= Y
    BY <1>1, <2>1
  <2> HIDE DEF X, Y
  <2>3. a + X < b + Y
    BY <2>2
  <2> QED
    BY <1>2, <2>2, <2>3 DEF X, Y
<1>3. CASE y < x
  <2>1. y * Q + Q <= x * Q
    BY <1>3, LargerDigit
  <2> DEFINE X == x * Q
             Y == y * Q
  <2>2. X \in Nat /\ Y \in Nat /\ Y + Q <= X
    BY <1>1, <2>1
  <2> HIDE DEF X, Y
  <2>3. b + Y < a + X
    BY <2>2
  <2> QED
    BY <1>3, <2>2, <2>3 DEF X, Y
<1>4. CASE x = y
  BY <1>1, <1>4
<1> QED
  BY <1>2, <1>3, <1>4

\* How many numbers the last digits can write, and the number that they write.
Multiplied(q, r, n) ==
    /\ n \in Nat /\ r \in [1 .. n -> Nat \ {0}] /\ q \in [0 .. n -> Nat] /\ q[0] = 1
    /\ \A k \in 1 .. n : q[k] = q[k - 1] * r[n - k + 1]
DigitsOf(d, r, n) == d \in [1 .. n -> Nat] /\ \A i \in 1 .. n : d[i] < r[i]
Written(p, d, q, n) == p[0] = 0 /\ \A k \in 1 .. n : p[k] = p[k - 1] + d[n - k + 1] * q[k - 1]

LEMMA WrittenStep ==
    ASSUME NEW q, NEW r, NEW n, Multiplied(q, r, n), NEW d, DigitsOf(d, r, n), NEW p, Written(p, d, q, n), NEW k \in 1 .. n
    PROVE  /\ n - k + 1 \in 1 .. n /\ k - 1 \in 0 .. n /\ k \in 0 .. n
           /\ r[n - k + 1] \in Nat \ {0} /\ d[n - k + 1] \in Nat /\ d[n - k + 1] < r[n - k + 1] /\ q[k - 1] \in Nat
           /\ q[k] = q[k - 1] * r[n - k + 1] /\ p[k] = p[k - 1] + d[n - k + 1] * q[k - 1]
<1>1. n \in Nat /\ n - k + 1 \in 1 .. n /\ k - 1 \in 0 .. n /\ k \in 0 .. n
  BY DEF Multiplied
<1> QED
  BY <1>1 DEF Multiplied, DigitsOf, Written

LEMMA WrittenBounded ==
    ASSUME NEW q, NEW r, NEW n, Multiplied(q, r, n), NEW d, DigitsOf(d, r, n), NEW p, Written(p, d, q, n)
    PROVE  \A k \in 0 .. n : p[k] \in Nat /\ p[k] < q[k]
<1> DEFINE S == {k \in Nat : k <= n => p[k] \in Nat /\ p[k] < q[k]}
<1>0. n \in Nat /\ q[0] = 1 /\ p[0] = 0
  BY DEF Multiplied, Written
<1>1. 0 \in S
  BY <1>0
<1>2. ASSUME NEW j \in Nat, j \in S
      PROVE  j + 1 \in S
  <2> SUFFICES ASSUME j + 1 <= n
               PROVE  p[j + 1] \in Nat /\ p[j + 1] < q[j + 1]
    OBVIOUS
  <2> DEFINE k == j + 1
             x == d[n - k + 1]
             y == r[n - k + 1]
             Q == q[j]
             a == p[j]
  <2>1. k \in 1 .. n /\ k - 1 = j /\ a \in Nat /\ a < Q
    BY <1>0, <1>2
  <2>2. x \in Nat /\ y \in Nat /\ x < y /\ Q \in Nat /\ q[k] = Q * y /\ p[k] = a + x * Q
    BY <2>1, WrittenStep
  <2> HIDE DEF a, x, y, Q, k
  <2>3. x * Q + Q <= y * Q /\ x * Q \in Nat /\ y * Q \in Nat /\ Q * y = y * Q
    BY <2>2, LargerDigit
  <2>4. p[k] \in Nat /\ p[k] < q[k]
    BY <2>1, <2>2, <2>3
  <2> QED
    BY <2>4 DEF k
<1> HIDE DEF S
<1>3. Nat \subseteq S
  BY <1>1, <1>2, NumberInduction
<1> QED
  BY <1>0, <1>3 DEF S

\* The digits from the first one that differs decide.
Below(d, e, i, n) == \E j \in i .. n : d[j] < e[j] /\ \A l \in i .. j - 1 : d[l] = e[l]
Alike(d, e, i, n) == \A j \in i .. n : d[j] = e[j]

LEMMA BelowNext ==
    ASSUME NEW n \in Nat, NEW i \in 1 .. n, NEW d \in [1 .. n -> Nat], NEW e \in [1 .. n -> Nat]
    PROVE  /\ Below(d, e, i, n) <=> d[i] < e[i] \/ (d[i] = e[i] /\ Below(d, e, i + 1, n))
           /\ Alike(d, e, i, n) <=> d[i] = e[i] /\ Alike(d, e, i + 1, n)
<1>1. i .. n = {i} \cup (i + 1 .. n) /\ i \in i .. n
  OBVIOUS
<1>2. Alike(d, e, i, n) <=> d[i] = e[i] /\ Alike(d, e, i + 1, n)
  BY <1>1 DEF Alike
<1>3. ASSUME Below(d, e, i, n)
      PROVE  d[i] < e[i] \/ (d[i] = e[i] /\ Below(d, e, i + 1, n))
  <2>1. PICK j \in i .. n : d[j] < e[j] /\ \A l \in i .. j - 1 : d[l] = e[l]
    BY <1>3 DEF Below
  <2>2. CASE j = i
    BY <2>1, <2>2
  <2>3. CASE j # i
    <3>1. j \in i + 1 .. n /\ i \in i .. j - 1 /\ \A l \in i + 1 .. j - 1 : l \in i .. j - 1
      BY <2>1, <2>3
    <3> QED
      BY <2>1, <3>1 DEF Below
  <2> QED
    BY <2>2, <2>3
<1>4. ASSUME d[i] < e[i]
      PROVE  Below(d, e, i, n)
  <2>1. \A l \in i .. i - 1 : d[l] = e[l]
    OBVIOUS
  <2> QED
    BY <1>1, <1>4, <2>1 DEF Below
<1>5. ASSUME d[i] = e[i], Below(d, e, i + 1, n)
      PROVE  Below(d, e, i, n)
  <2>1. PICK j \in i + 1 .. n : d[j] < e[j] /\ \A l \in i + 1 .. j - 1 : d[l] = e[l]
    BY <1>5 DEF Below
  <2>2. j \in i .. n /\ \A l \in i .. j - 1 : l = i \/ l \in i + 1 .. j - 1
    OBVIOUS
  <2> QED
    BY <1>5, <2>1, <2>2 DEF Below
<1> QED
  BY <1>2, <1>3, <1>4, <1>5

LEMMA WrittenOrder ==
    ASSUME NEW q, NEW r, NEW n, Multiplied(q, r, n), NEW d, DigitsOf(d, r, n), NEW p, Written(p, d, q, n),
           NEW e, DigitsOf(e, r, n), NEW s, Written(s, e, q, n)
    PROVE  /\ p[n] < s[n] <=> Below(d, e, 1, n)
           /\ p[n] = s[n] <=> Alike(d, e, 1, n)
<1> DEFINE S == {k \in Nat : k <= n => /\ (p[k] < s[k] <=> Below(d, e, n - k + 1, n))
                                       /\ (p[k] = s[k] <=> Alike(d, e, n - k + 1, n))}
<1>0. n \in Nat /\ p[0] = 0 /\ s[0] = 0 /\ d \in [1 .. n -> Nat] /\ e \in [1 .. n -> Nat]
  BY DEF Multiplied, Written, DigitsOf
<1>1. 0 \in S
  <2>1. (n - 0 + 1) .. n = {}
    BY <1>0
  <2>2. ~Below(d, e, n - 0 + 1, n) /\ Alike(d, e, n - 0 + 1, n)
    BY <2>1 DEF Below, Alike
  <2> QED
    BY <1>0, <2>2
<1>2. ASSUME NEW j \in Nat, j \in S
      PROVE  j + 1 \in S
  <2> SUFFICES ASSUME j + 1 <= n
               PROVE  /\ p[j + 1] < s[j + 1] <=> Below(d, e, n - (j + 1) + 1, n)
                      /\ p[j + 1] = s[j + 1] <=> Alike(d, e, n - (j + 1) + 1, n)
    OBVIOUS
  <2> DEFINE k == j + 1
             i == n - k + 1
  <2>1. k \in 1 .. n /\ k - 1 = j /\ j \in 0 .. n /\ i \in 1 .. n /\ i + 1 = n - j + 1 /\ j <= n
    BY <1>0, <1>2
  <2>2. /\ p[j] < s[j] <=> Below(d, e, i + 1, n)
        /\ p[j] = s[j] <=> Alike(d, e, i + 1, n)
    <3>1. /\ p[j] < s[j] <=> Below(d, e, n - j + 1, n)
          /\ p[j] = s[j] <=> Alike(d, e, n - j + 1, n)
      BY <1>2, <2>1, Zenon
    <3>2. i + 1 = n - j + 1
      BY <2>1
    <3> HIDE DEF i, S
    <3> QED
      BY <3>1, <3>2, Zenon
  <2>3. /\ d[i] \in Nat /\ q[j] \in Nat /\ p[k] = p[j] + d[i] * q[j]
        /\ e[i] \in Nat /\ s[k] = s[j] + e[i] * q[j]
    BY <2>1, WrittenStep
  <2>4. p[j] \in Nat /\ p[j] < q[j] /\ s[j] \in Nat /\ s[j] < q[j]
    BY <2>1, WrittenBounded
  <2> HIDE DEF k, i
  <2>5. /\ p[k] < s[k] <=> d[i] < e[i] \/ (d[i] = e[i] /\ p[j] < s[j])
        /\ p[k] = s[k] <=> d[i] = e[i] /\ p[j] = s[j]
    BY <2>3, <2>4, DigitFirst
  <2>6. /\ Below(d, e, i, n) <=> d[i] < e[i] \/ (d[i] = e[i] /\ Below(d, e, i + 1, n))
        /\ Alike(d, e, i, n) <=> d[i] = e[i] /\ Alike(d, e, i + 1, n)
    BY <1>0, <2>1, BelowNext
  <2>7. (p[k] < s[k] <=> Below(d, e, i, n)) /\ (p[k] = s[k] <=> Alike(d, e, i, n))
    BY <2>2, <2>5, <2>6
  <2> QED
    BY <2>7 DEF k, i
<1> HIDE DEF S
<1>3. n \in S
  BY <1>0, <1>1, <1>2, NumberInduction
<1>4. n - n + 1 = 1
  BY <1>0
<1>6. n <= n
  BY <1>0
<1>5. /\ p[n] < s[n] <=> Below(d, e, n - n + 1, n)
      /\ p[n] = s[n] <=> Alike(d, e, n - n + 1, n)
  BY <1>3, <1>6, Zenon DEF S
<1> QED
  BY <1>4, <1>5, Zenon

\* The digits that division gives write the number that was divided.
LEMMA Divided ==
    ASSUME NEW x \in Nat, NEW y \in Nat \ {0}
    PROVE  /\ x \div y \in Nat /\ x % y \in Nat /\ x % y < y /\ x % y <= x /\ x \div y <= x
           /\ x = y * (x \div y) + (x % y)
<1>1. x \div y \in Nat /\ x % y \in Nat /\ x % y < y
  OBVIOUS
<1>2. x = y * (x \div y) + (x % y)
  OBVIOUS
<1> DEFINE z == x \div y
           w == x % y
<1>3. z \in Nat /\ w \in Nat /\ x = y * z + w
  BY <1>1, <1>2
<1> HIDE DEF z, w
<1>4. z <= y * z /\ y * z \in Nat
  <2>1. PICK u \in Nat : y = u + 1
    <3>1. y - 1 \in Nat /\ y = (y - 1) + 1
      OBVIOUS
    <3> QED
      BY <3>1
  <2>2. y * z = u * z + z /\ u * z \in Nat
    BY <1>3, <2>1
  <2> QED
    BY <1>3, <2>2
<1>5. w <= x /\ z <= x
  BY <1>3, <1>4
<1> QED
  BY <1>1, <1>2, <1>5 DEF z, w

LEMMA TakenOff ==
    ASSUME NEW a \in Nat, NEW b \in Nat, NEW c \in Nat, NEW y \in Nat, NEW Q \in Nat, NEW w \in Nat
    PROVE  (y * a + w) * Q + b = a * (Q * y) + (b + w * Q)
<1>1. (y * a + w) * Q = (y * a) * Q + w * Q
  OBVIOUS
<1>2. (y * a) * Q = a * (Q * y)
  OBVIOUS
<1>3. (y * a) * Q \in Nat /\ w * Q \in Nat
  OBVIOUS
<1> QED
  BY <1>1, <1>2, <1>3

TakenFrom(rest, d, v, r, n) ==
    /\ rest[0] = v /\ \A k \in 1 .. n : rest[k] = rest[k - 1] \div r[n - k + 1]
    /\ d \in [1 .. n -> Nat] /\ \A i \in 1 .. n : d[i] = rest[n - i] % r[i]

LEMMA TakenDigits ==
    ASSUME NEW n \in Nat, NEW r \in [1 .. n -> Nat \ {0}], NEW v \in Nat, NEW rest, NEW d, TakenFrom(rest, d, v, r, n)
    PROVE  /\ \A k \in 0 .. n : rest[k] \in Nat /\ rest[k] <= v
           /\ DigitsOf(d, r, n)
           /\ \A i \in 1 .. n : d[i] <= v
<1> DEFINE S == {k \in Nat : k <= n => rest[k] \in Nat /\ rest[k] <= v}
<1>1. 0 \in S
  BY DEF TakenFrom
<1>2. ASSUME NEW j \in Nat, j \in S
      PROVE  j + 1 \in S
  <2> SUFFICES ASSUME j + 1 <= n
               PROVE  rest[j + 1] \in Nat /\ rest[j + 1] <= v
    OBVIOUS
  <2> DEFINE k == j + 1
             x == rest[j]
             y == r[n - k + 1]
  <2>1. k \in 1 .. n /\ k - 1 = j /\ n - k + 1 \in 1 .. n
    OBVIOUS
  <2>2. x \in Nat /\ x <= v /\ y \in Nat \ {0}
    BY <1>2, <2>1
  <2>3. rest[k] = x \div y
    BY <2>1 DEF TakenFrom
  <2> HIDE DEF k, x, y
  <2>4. x \div y \in Nat /\ x \div y <= x
    BY <2>2, Divided
  <2> DEFINE z == x \div y
  <2>5. z \in Nat /\ z <= x /\ rest[k] = z
    BY <2>3, <2>4
  <2> HIDE DEF z
  <2>6. rest[k] \in Nat /\ rest[k] <= v
    BY <2>2, <2>5
  <2> QED
    BY <2>6 DEF k
<1> HIDE DEF S
<1>3. Nat \subseteq S
  BY <1>1, <1>2, NumberInduction
<1>4. \A k \in 0 .. n : rest[k] \in Nat /\ rest[k] <= v
  BY <1>3 DEF S
<1>5. ASSUME NEW i \in 1 .. n
      PROVE  d[i] \in Nat /\ d[i] < r[i] /\ d[i] <= v
  <2> DEFINE x == rest[n - i]
  <2>1. n - i \in 0 .. n
    OBVIOUS
  <2>2. x \in Nat /\ x <= v
    BY <1>4, <2>1
  <2>3. r[i] \in Nat \ {0} /\ d[i] = x % r[i]
    BY DEF TakenFrom
  <2> HIDE DEF x
  <2>4. x % r[i] \in Nat /\ x % r[i] < r[i] /\ x % r[i] <= x
    BY <2>2, <2>3, Divided
  <2> QED
    BY <2>2, <2>3, <2>4
<1>6. d \in [1 .. n -> Nat]
  BY DEF TakenFrom
<1> QED
  BY <1>4, <1>5, <1>6 DEF DigitsOf

LEMMA WrittenBack ==
    ASSUME NEW q, NEW r, NEW n, Multiplied(q, r, n), NEW v \in Nat, v < q[n],
           NEW rest, NEW d, TakenFrom(rest, d, v, r, n), NEW p, Written(p, d, q, n)
    PROVE  p[n] = v
<1> DEFINE S == {k \in Nat : k <= n => v = rest[k] * q[k] + p[k]}
<1>0. n \in Nat /\ r \in [1 .. n -> Nat \ {0}] /\ q[0] = 1 /\ p[0] = 0 /\ rest[0] = v /\ q[n] \in Nat
  BY DEF Multiplied, Written, TakenFrom
<1>4. /\ \A k \in 0 .. n : rest[k] \in Nat /\ rest[k] <= v
      /\ DigitsOf(d, r, n)
  BY <1>0, TakenDigits
<1>5. \A k \in 0 .. n : p[k] \in Nat
  BY <1>4, WrittenBounded
<1>1. 0 \in S
  BY <1>0
<1>2. ASSUME NEW j \in Nat, j \in S
      PROVE  j + 1 \in S
  <2> SUFFICES ASSUME j + 1 <= n
               PROVE  v = rest[j + 1] * q[j + 1] + p[j + 1]
    OBVIOUS
  <2> DEFINE k == j + 1
             i == n - k + 1
             y == r[i]
             Q == q[j]
             x == rest[j]
             b == p[j]
  <2>1. k \in 1 .. n /\ k - 1 = j /\ j \in 0 .. n /\ i \in 1 .. n /\ n - i = j
    BY <1>0, <1>2
  <2>2. x \in Nat /\ b \in Nat /\ v = x * Q + b
    BY <1>2, <1>4, <1>5, <2>1
  <2>3. rest[k] = x \div y /\ d[i] = x % y
    BY <2>1 DEF TakenFrom
  <2>4. y \in Nat \ {0} /\ Q \in Nat /\ q[k] = Q * y /\ p[k] = b + d[i] * Q
    BY <2>1 DEF Multiplied, Written
  <2> HIDE DEF k, i, y, Q, x, b
  <2>5. x \div y \in Nat /\ x % y \in Nat /\ x = y * (x \div y) + (x % y)
    BY <2>2, <2>4, Divided
  <2> DEFINE a == x \div y
             w == x % y
  <2>6. a \in Nat /\ w \in Nat /\ x = y * a + w /\ rest[k] = a /\ p[k] = b + w * Q
    BY <2>2, <2>3, <2>4, <2>5
  <2> HIDE DEF a, w
  <2>7. v = a * (Q * y) + (b + w * Q)
    BY <2>2, <2>4, <2>6, TakenOff
  <2>8. v = rest[k] * q[k] + p[k]
    BY <2>4, <2>6, <2>7
  <2> QED
    BY <2>8 DEF k
<1> HIDE DEF S
<1>3. Nat \subseteq S
  BY <1>1, <1>2, NumberInduction
<1>7. rest[n] \in Nat /\ p[n] \in Nat /\ v = rest[n] * q[n] + p[n]
  BY <1>0, <1>3, <1>4, <1>5 DEF S
<1>8. rest[n] = 0
  <2> SUFFICES ASSUME 0 < rest[n]
               PROVE  FALSE
    BY <1>7
  <2>1. 0 * q[n] + q[n] <= rest[n] * q[n]
    BY <1>0, <1>7, LargerDigit
  <2> DEFINE X == rest[n] * q[n]
  <2>2. X \in Nat /\ 0 * q[n] = 0
    BY <1>0, <1>7
  <2> HIDE DEF X
  <2> QED
    BY <1>0, <1>7, <2>1, <2>2 DEF X
<1>9. 0 * q[n] = 0
  BY <1>0
<1> QED
  BY <1>7, <1>8, <1>9

\* All digits together can write the product of their ranges, from either end.
LEMMA ProductTaken ==
    ASSUME NEW r \in Seq(Nat \ {0}), NEW q, Multiplied(q, r, Len(r))
    PROVE  Product(r) = q[Len(r)]
<1> DEFINE n == Len(r)
<1>0. n \in Nat /\ q[0] = 1 /\ r \in Seq(Nat) /\ q \in [0 .. n -> Nat] /\ \A i \in 1 .. n : r[i] \in Nat
  BY DEF Multiplied
<1>1. PICK f : Product(r) = f[n] /\ f[0] = 1 /\ \A i \in 1 .. n : f[i] = f[i - 1] * r[i]
  BY <1>0, ProductSolved
<1> DEFINE F == {i \in Nat : i <= n => f[i] \in Nat}
<1>2. 0 \in F
  BY <1>1
<1>3. ASSUME NEW j \in Nat, j \in F
      PROVE  j + 1 \in F
  <2> SUFFICES ASSUME j + 1 <= n
               PROVE  f[j + 1] \in Nat
    OBVIOUS
  <2>1. j + 1 \in 1 .. n /\ (j + 1) - 1 = j /\ j <= n
    BY <1>0
  <2>2. f[j + 1] = f[j] * r[j + 1] /\ f[j] \in Nat /\ r[j + 1] \in Nat
    BY <1>0, <1>1, <1>3, <2>1
  <2> QED
    BY <2>2
<1> HIDE DEF F
<1>4. Nat \subseteq F
  BY <1>2, <1>3, NumberInduction
<1>5. \A i \in 0 .. n : f[i] \in Nat
  BY <1>0, <1>4 DEF F
<1> DEFINE S == {k \in Nat : k <= n => q[k] * f[n - k] = f[n]}
<1> HIDE DEF n
<1>6. 0 \in S
  <2>1. n - 0 = n /\ f[n] \in Nat
    BY <1>0, <1>5
  <2> QED
    BY <1>0, <2>1
<1>7. ASSUME NEW j \in Nat, j \in S
      PROVE  j + 1 \in S
  <2> SUFFICES ASSUME j + 1 <= n
               PROVE  q[j + 1] * f[n - (j + 1)] = f[n]
    OBVIOUS
  <2> DEFINE k == j + 1
             i == n - j
  <2>1. k \in 1 .. n /\ k - 1 = j /\ i \in 1 .. n /\ i - 1 = n - k /\ n - k + 1 = i /\ j <= n
        /\ j \in 0 .. n /\ i - 1 \in 0 .. n
    BY <1>0
  <2>2. q[j] * f[i] = f[n]
    BY <1>7, <2>1
  <2>3. f[i] = f[i - 1] * r[i] /\ f[i - 1] \in Nat /\ r[i] \in Nat /\ q[j] \in Nat
    BY <1>0, <1>1, <1>5, <2>1
  <2>4. q[k] = q[j] * r[i]
    <3>1. q[k] = q[k - 1] * r[n - k + 1]
      BY <2>1 DEF Multiplied, n
    <3> QED
      BY <2>1, <3>1
  <2> HIDE DEF k, i
  <2>5. (q[j] * r[i]) * f[i - 1] = q[j] * (f[i - 1] * r[i])
    BY <2>3
  <2>6. q[k] * f[i - 1] = f[n]
    BY <2>2, <2>3, <2>4, <2>5
  <2>7. i - 1 = n - k
    BY <2>1
  <2> QED
    BY <2>6, <2>7 DEF k
<1> HIDE DEF S
<1>8. n \in S
  BY <1>0, <1>6, <1>7, NumberInduction
<1>9. q[n] * f[n - n] = f[n] /\ n - n = 0 /\ q[n] \in Nat
  BY <1>0, <1>8 DEF S
<1> QED
  BY <1>1, <1>9 DEF n

-------------------------------------------------------------------------------
(* The positions of the coordinates of a mesh along some of its axes. *)

Laid(m) == m.sizes \in Seq(Nat \ {0})
Order(m) == [i \in DOMAIN m.sizes |-> i]
Sizes(m, o) == [k \in 1 .. Len(o) |-> m.sizes[o[k]]]
Along(c, o) == [k \in 1 .. Len(o) |-> c[o[k]]]
Places(m) == {c \in [1 .. Len(m.sizes) -> Nat] : \A i \in 1 .. Len(m.sizes) : c[i] < m.sizes[i]}

LEMMA ListElements ==
    ASSUME NEW R, NEW u \in Seq(R)
    PROVE  Len(u) \in Nat /\ \A k \in 1 .. Len(u) : u[k] \in R
  OBVIOUS

LEMMA SameFunction ==
    ASSUME NEW S, NEW T, NEW c \in [S -> T], NEW d \in [S -> T], \A x \in S : c[x] = d[x]
    PROVE  c = d
  OBVIOUS

LEMMA AlongPlace ==
    ASSUME NEW m, Laid(m), NEW o \in Seq(1 .. Len(m.sizes))
    PROVE  /\ Sizes(m, o) \in Seq(Nat \ {0}) /\ Len(Sizes(m, o)) = Len(o)
           /\ Sizes(m, o) \in [1 .. Len(o) -> Nat \ {0}]
           /\ \A c \in Places(m) : DigitsOf(Along(c, o), Sizes(m, o), Len(o))
<1> DEFINE n == Len(o)
           R == Len(m.sizes)
<1>1. n \in Nat /\ R \in Nat /\ \A k \in 1 .. n : o[k] \in 1 .. R
  BY DEF Laid
<1>2. \A i \in 1 .. R : m.sizes[i] \in Nat \ {0}
  BY DEF Laid
<1> HIDE DEF R, n
<1>3. \A k \in 1 .. n : m.sizes[o[k]] \in Nat \ {0}
  BY <1>1, <1>2
<1>4. Sizes(m, o) = [k \in 1 .. n |-> m.sizes[o[k]]]
  BY DEF Sizes, n
<1>5. Sizes(m, o) \in Seq(Nat \ {0}) /\ Len(Sizes(m, o)) = n /\ Sizes(m, o) \in [1 .. n -> Nat \ {0}]
  BY <1>1, <1>3, <1>4
<1>6. ASSUME NEW c \in Places(m)
      PROVE  DigitsOf(Along(c, o), Sizes(m, o), n)
  <2>1. Along(c, o) = [k \in 1 .. n |-> c[o[k]]]
    BY DEF Along, n
  <2>2. \A i \in 1 .. R : c[i] \in Nat /\ c[i] < m.sizes[i]
    BY DEF Places, R
  <2> QED
    BY <1>1, <1>4, <2>1, <2>2 DEF DigitsOf
<1> QED
  BY <1>5, <1>6 DEF n

LEMMA PositionSolved ==
    ASSUME NEW m, Laid(m), NEW o \in Seq(1 .. Len(m.sizes))
    PROVE  \E q : /\ Multiplied(q, Sizes(m, o), Len(o))
                  /\ \A c \in Places(m) : \E p : Written(p, Along(c, o), q, Len(o)) /\ Position(m, c, o) = p[Len(o)]
<1> DEFINE n == Len(o)
           R == Len(m.sizes)
           axis(k) == o[n - k + 1]
           SolvesM(f) == f = [k \in 0 .. n |-> IF k = 0 THEN 1 ELSE f[k - 1] * m.sizes[axis(k)]]
           multiplier == CHOOSE f : SolvesM(f)
           step == [k \in 1 .. n |-> [v \in Nat |-> v * m.sizes[axis(k)]]]
<1>1. n \in Nat /\ R \in Nat /\ \A k \in 1 .. n : axis(k) \in 1 .. R /\ n - k + 1 \in 1 .. n
  <2>1. n \in Nat /\ R \in Nat /\ \A k \in 1 .. n : o[k] \in 1 .. R
    BY ListElements DEF Laid
  <2> HIDE DEF n, R
  <2>2. \A k \in 1 .. n : n - k + 1 \in 1 .. n
    BY <2>1
  <2> QED
    BY <2>1, <2>2, Zenon
<1>2. \A i \in 1 .. R : m.sizes[i] \in Nat \ {0}
  BY ListElements DEF Laid
<1>3. ASSUME NEW c
      PROVE  Position(m, c, o) =
                LET position[k \in 0 .. n] == IF k = 0 THEN 0 ELSE position[k - 1] + c[axis(k)] * multiplier[k - 1]
                IN position[n]
  BY DEF Position
<1> HIDE DEF n, R
<1>4. IsAccumulation(n, Nat, 1, step)
  <2>1. \A k \in 1 .. n : m.sizes[axis(k)] \in Nat
    BY <1>1, <1>2
  <2> HIDE DEF axis
  <2> QED
    BY <1>1, <2>1 DEF IsAccumulation
<1>5. PICK p : IsAccumulated(p, n, Nat, 1, step)
  <2> HIDE DEF step
  <2> QED
    BY <1>4, AccumulationExists
<1>6. p \in [0 .. n -> Nat] /\ p[0] = 1
  BY <1>5 DEF IsAccumulated
<1>7. ASSUME NEW k \in 1 .. n
      PROVE  p[k] = p[k - 1] * m.sizes[axis(k)]
  <2>1. p[k] = step[k][p[k - 1]] /\ k - 1 \in 0 .. n
    <3> HIDE DEF step
    <3> QED
      BY <1>1, <1>5 DEF IsAccumulated
  <2>2. p[k - 1] \in Nat
    BY <1>6, <2>1
  <2> HIDE DEF axis
  <2> QED
    BY <2>1, <2>2
<1> HIDE DEF step
<1>8. SolvesM(p)
  <2> HIDE DEF axis
  <2>1. \A k \in 0 .. n : k = 0 \/ (k # 0 /\ k \in 1 .. n)
    BY <1>1
  <2>2. \A k \in 0 .. n : p[k] = IF k = 0 THEN 1 ELSE p[k - 1] * m.sizes[axis(k)]
    BY <1>6, <1>7, <2>1
  <2>3. p = [k \in 0 .. n |-> p[k]]
    BY <1>6
  <2> QED
    BY <2>2, <2>3
<1>9. SolvesM(multiplier)
  <2> HIDE DEF SolvesM
  <2> QED
    BY <1>8
<1> HIDE DEF multiplier
<1>10. multiplier[0] = 1 /\ \A k \in 1 .. n : multiplier[k] = multiplier[k - 1] * m.sizes[axis(k)]
  <2> HIDE DEF axis
  <2>1. 0 \in 0 .. n /\ \A k \in 1 .. n : k \in 0 .. n /\ k # 0
    BY <1>1
  <2>2. \A k \in 0 .. n : multiplier[k] = IF k = 0 THEN 1 ELSE multiplier[k - 1] * m.sizes[axis(k)]
    BY <1>9
  <2> QED
    BY <2>1, <2>2
<1>11. multiplier \in [0 .. n -> Nat]
  <2>1. \A k \in 0 .. n : multiplier[k] = p[k]
    <3> DEFINE S == {k \in Nat : k <= n => multiplier[k] = p[k]}
    <3>1. 0 \in S
      BY <1>6, <1>10
    <3>2. ASSUME NEW j \in Nat, j \in S
          PROVE  j + 1 \in S
      <4> SUFFICES ASSUME j + 1 <= n
                   PROVE  multiplier[j + 1] = p[j + 1]
        OBVIOUS
      <4>1. j + 1 \in 1 .. n /\ (j + 1) - 1 = j /\ j <= n
        BY <1>1
      <4> HIDE DEF axis
      <4>2. multiplier[j] = p[j]
        BY <3>2, <4>1
      <4> QED
        BY <1>7, <1>10, <4>1, <4>2
    <3> HIDE DEF S
    <3>3. Nat \subseteq S
      BY <3>1, <3>2, NumberInduction
    <3> QED
      BY <1>1, <3>3 DEF S
  <2>2. DOMAIN multiplier = 0 .. n /\ multiplier = [k \in 0 .. n |-> multiplier[k]]
    BY <1>9
  <2> QED
    BY <1>6, <2>1, <2>2
<1>12. Multiplied(multiplier, Sizes(m, o), n)
  <2>1. Sizes(m, o) \in [1 .. n -> Nat \ {0}] /\ Sizes(m, o) = [k \in 1 .. n |-> m.sizes[o[k]]]
    BY AlongPlace DEF n, Sizes
  <2>2. \A k \in 1 .. n : Sizes(m, o)[n - k + 1] = m.sizes[axis(k)]
    BY <1>1, <2>1
  <2> HIDE DEF axis
  <2> QED
    BY <1>1, <1>10, <1>11, <2>1, <2>2 DEF Multiplied
<1>13. ASSUME NEW c \in Places(m)
       PROVE  \E p2 : Written(p2, Along(c, o), multiplier, n) /\ Position(m, c, o) = p2[n]
  <2> DEFINE SolvesP(f) == f = [k \in 0 .. n |-> IF k = 0 THEN 0 ELSE f[k - 1] + c[axis(k)] * multiplier[k - 1]]
             position == CHOOSE f : SolvesP(f)
             more == [k \in 1 .. n |-> [v \in Nat |-> v + c[axis(k)] * multiplier[k - 1]]]
  <2>1. \A i \in 1 .. R : c[i] \in Nat
    BY DEF Places, R
  <2>2. \A k \in 1 .. n : c[axis(k)] * multiplier[k - 1] \in Nat
    <3> SUFFICES ASSUME NEW k \in 1 .. n
                 PROVE  c[axis(k)] * multiplier[k - 1] \in Nat
      OBVIOUS
    <3>1. c[axis(k)] \in Nat
      BY <1>1, <2>1
    <3>2. multiplier[k - 1] \in Nat
      BY <1>1, <1>11
    <3> QED
      BY <3>1, <3>2
  <2>3. Position(m, c, o) = position[n]
    BY <1>3
  <2> HIDE DEF axis
  <2>4. IsAccumulation(n, Nat, 0, more)
    BY <1>1, <2>2 DEF IsAccumulation
  <2>5. PICK f : IsAccumulated(f, n, Nat, 0, more)
    <3> HIDE DEF more
    <3> QED
      BY <2>4, AccumulationExists
  <2>6. f \in [0 .. n -> Nat] /\ f[0] = 0
    BY <2>5 DEF IsAccumulated
  <2>7. ASSUME NEW k \in 1 .. n
        PROVE  f[k] = f[k - 1] + c[axis(k)] * multiplier[k - 1]
    <3>1. f[k] = more[k][f[k - 1]] /\ k - 1 \in 0 .. n
      <4> HIDE DEF more
      <4> QED
        BY <1>1, <2>5 DEF IsAccumulated
    <3>2. f[k - 1] \in Nat
      BY <2>6, <3>1
    <3> QED
      BY <3>1, <3>2
  <2> HIDE DEF more
  <2>8. SolvesP(f)
    BY <1>1, <2>6, <2>7
  <2>9. SolvesP(position)
    <3> HIDE DEF SolvesP
    <3> QED
      BY <2>8
  <2> HIDE DEF position
  <2>10. position[0] = 0 /\ \A k \in 1 .. n : position[k] = position[k - 1] + c[axis(k)] * multiplier[k - 1]
    BY <1>1, <2>9
  <2>11. \A k \in 1 .. n : Along(c, o)[n - k + 1] = c[axis(k)]
    <3>1. Along(c, o) = [k \in 1 .. n |-> c[o[k]]]
      BY DEF Along, n
    <3> USE DEF axis
    <3> QED
      BY <1>1, <3>1
  <2>12. Written(position, Along(c, o), multiplier, n)
    BY <2>10, <2>11 DEF Written
  <2> QED
    BY <2>3, <2>12
<1> QED
  BY <1>12, <1>13 DEF n

\* The indices of a device are what is taken off its number.
LEMMA IndicesTaken ==
    ASSUME NEW m, Laid(m), NEW v \in Nat
    PROVE  \E rest : TakenFrom(rest, Indices(m, v), v, m.sizes, Len(m.sizes))
<1> DEFINE n == Len(m.sizes)
           Solves(f) == f = [k \in 0 .. n |-> IF k = 0 THEN v ELSE f[k - 1] \div m.sizes[n - k + 1]]
           remaining == CHOOSE f : Solves(f)
           step == [k \in 1 .. n |-> [x \in Nat |-> x \div m.sizes[n - k + 1]]]
<1>1. n \in Nat /\ \A i \in 1 .. n : m.sizes[i] \in Nat \ {0}
  BY DEF Laid
<1>2. Indices(m, v) = [i \in 1 .. n |-> remaining[n - i] % m.sizes[i]]
  BY DEF Indices
<1> HIDE DEF n
<1>3. IsAccumulation(n, Nat, v, step)
  <2>1. ASSUME NEW k \in 1 .. n, NEW x \in Nat
        PROVE  x \div m.sizes[n - k + 1] \in Nat
    <3>1. m.sizes[n - k + 1] \in Nat \ {0}
      BY <1>1
    <3> QED
      BY <3>1, Divided
  <2> QED
    BY <1>1, <2>1 DEF IsAccumulation
<1>4. PICK f : IsAccumulated(f, n, Nat, v, step)
  <2> HIDE DEF step
  <2> QED
    BY <1>3, AccumulationExists
<1>5. f \in [0 .. n -> Nat] /\ f[0] = v
  BY <1>4 DEF IsAccumulated
<1>6. ASSUME NEW k \in 1 .. n
      PROVE  f[k] = f[k - 1] \div m.sizes[n - k + 1]
  <2>1. f[k] = step[k][f[k - 1]] /\ k - 1 \in 0 .. n
    <3> HIDE DEF step
    <3> QED
      BY <1>1, <1>4 DEF IsAccumulated
  <2>2. f[k - 1] \in Nat
    BY <1>5, <2>1
  <2> QED
    BY <2>1, <2>2
<1> HIDE DEF step
<1>7. Solves(f)
  BY <1>1, <1>5, <1>6
<1>8. Solves(remaining)
  <2> HIDE DEF Solves
  <2> QED
    BY <1>7
<1> HIDE DEF remaining
<1>9. remaining[0] = v /\ \A k \in 1 .. n : remaining[k] = remaining[k - 1] \div m.sizes[n - k + 1]
  BY <1>1, <1>8
<1>10. \A k \in 0 .. n : remaining[k] \in Nat
  <2> DEFINE S == {k \in Nat : k <= n => remaining[k] = f[k]}
  <2>1. 0 \in S
    BY <1>5, <1>9
  <2>2. ASSUME NEW j \in Nat, j \in S
        PROVE  j + 1 \in S
    <3> SUFFICES ASSUME j + 1 <= n
                 PROVE  remaining[j + 1] = f[j + 1]
      OBVIOUS
    <3>1. j + 1 \in 1 .. n /\ (j + 1) - 1 = j /\ j <= n
      BY <1>1
    <3>2. remaining[j] = f[j]
      BY <2>2, <3>1
    <3> QED
      BY <1>6, <1>9, <3>1, <3>2
  <2> HIDE DEF S
  <2>3. Nat \subseteq S
    BY <2>1, <2>2, NumberInduction
  <2> QED
    BY <1>1, <1>5, <2>3 DEF S
<1>11. Indices(m, v) \in [1 .. n -> Nat]
  <2>1. ASSUME NEW i \in 1 .. n
        PROVE  remaining[n - i] % m.sizes[i] \in Nat
    <3>1. remaining[n - i] \in Nat
      BY <1>1, <1>10
    <3> QED
      BY <1>1, <3>1, Divided
  <2> QED
    BY <1>2, <2>1
<1>12. TakenFrom(remaining, Indices(m, v), v, m.sizes, n)
  BY <1>2, <1>9, <1>11 DEF TakenFrom
<1> QED
  BY <1>12 DEF n

LEMMA PositionOrder ==
    ASSUME NEW m, Laid(m), NEW o \in Seq(1 .. Len(m.sizes))
    PROVE  \A c, d \in Places(m) :
              /\ Position(m, c, o) \in 0 .. Product(Sizes(m, o)) - 1
              /\ Position(m, c, o) < Position(m, d, o) <=> Precedes(c, d, o)
              /\ Position(m, c, o) = Position(m, d, o) <=> \A k \in 1 .. Len(o) : c[o[k]] = d[o[k]]
<1> DEFINE n == Len(o)
           r == Sizes(m, o)
<1>0. n \in Nat /\ DOMAIN o = 1 .. n /\ r \in Seq(Nat \ {0}) /\ Len(r) = n
  BY AlongPlace
<1>1. PICK q : /\ Multiplied(q, r, n)
               /\ \A c \in Places(m) : \E p : Written(p, Along(c, o), q, n) /\ Position(m, c, o) = p[n]
  BY PositionSolved
<1>2. Product(r) = q[n] /\ q[n] \in Nat
  <2>1. Product(r) = q[Len(r)]
    <3> HIDE DEF r, n
    <3> QED
      BY <1>0, <1>1, ProductTaken
  <2> QED
    BY <1>0, <1>1, <2>1 DEF Multiplied
<1> SUFFICES ASSUME NEW c \in Places(m), NEW d \in Places(m)
             PROVE  /\ Position(m, c, o) \in 0 .. Product(r) - 1
                    /\ Position(m, c, o) < Position(m, d, o) <=> Precedes(c, d, o)
                    /\ Position(m, c, o) = Position(m, d, o) <=> \A k \in 1 .. n : c[o[k]] = d[o[k]]
  OBVIOUS
<1>3. DigitsOf(Along(c, o), r, n) /\ DigitsOf(Along(d, o), r, n)
  BY AlongPlace
<1>4. PICK p : Written(p, Along(c, o), q, n) /\ Position(m, c, o) = p[n]
  BY <1>1
<1>5. PICK s : Written(s, Along(d, o), q, n) /\ Position(m, d, o) = s[n]
  BY <1>1
<1>6. Along(c, o) = [k \in 1 .. n |-> c[o[k]]] /\ Along(d, o) = [k \in 1 .. n |-> d[o[k]]]
  BY DEF Along
<1> HIDE DEF n, r
<1>7. p[n] \in Nat /\ p[n] < q[n]
  BY <1>0, <1>1, <1>3, <1>4, WrittenBounded
<1>8. /\ p[n] < s[n] <=> Below(Along(c, o), Along(d, o), 1, n)
      /\ p[n] = s[n] <=> Alike(Along(c, o), Along(d, o), 1, n)
  BY <1>1, <1>3, <1>4, <1>5, WrittenOrder
<1>9. Below(Along(c, o), Along(d, o), 1, n) <=> Precedes(c, d, o)
  <2> DEFINE X == Along(c, o)
             Y == Along(d, o)
  <2>1. \A k \in 1 .. n : \A j \in 1 .. k - 1 : j \in 1 .. n
    BY <1>0
  <2>2. \A k \in 1 .. n : X[k] = c[o[k]] /\ Y[k] = d[o[k]]
    BY <1>6
  <2> HIDE DEF X, Y
  <2>3. ASSUME Below(X, Y, 1, n)
        PROVE  Precedes(c, d, o)
    <3>1. PICK k \in 1 .. n : X[k] < Y[k] /\ \A j \in 1 .. k - 1 : X[j] = Y[j]
      BY <2>3, Zenon DEF Below
    <3>2. c[o[k]] < d[o[k]]
      BY <2>2, <3>1
    <3>3. \A j \in 1 .. k - 1 : c[o[j]] = d[o[j]]
      BY <2>1, <2>2, <3>1
    <3> QED
      BY <1>0, <3>2, <3>3, Zenon DEF Precedes
  <2>4. ASSUME Precedes(c, d, o)
        PROVE  Below(X, Y, 1, n)
    <3>1. PICK k \in 1 .. n : c[o[k]] < d[o[k]] /\ \A j \in 1 .. k - 1 : c[o[j]] = d[o[j]]
      BY <1>0, <2>4, Zenon DEF Precedes
    <3>2. X[k] < Y[k]
      BY <2>2, <3>1
    <3>3. \A j \in 1 .. k - 1 : X[j] = Y[j]
      BY <2>1, <2>2, <3>1
    <3> QED
      BY <3>2, <3>3, Zenon DEF Below
  <2> QED
    BY <2>3, <2>4 DEF X, Y
<1>10. Alike(Along(c, o), Along(d, o), 1, n) <=> \A k \in 1 .. n : c[o[k]] = d[o[k]]
  BY <1>6 DEF Alike
<1>11. Position(m, c, o) \in 0 .. Product(r) - 1
  BY <1>2, <1>4, <1>7
<1> QED
  BY <1>4, <1>5, <1>8, <1>9, <1>10, <1>11

\* A number below the product is the position of those coordinates that have its digits.
LEMMA DigitsExist ==
    ASSUME NEW m, Laid(m), NEW o \in Seq(1 .. Len(m.sizes)), NEW v \in 0 .. Product(Sizes(m, o)) - 1
    PROVE  LET d == Indices([sizes |-> Sizes(m, o)], v)
           IN  /\ DigitsOf(d, Sizes(m, o), Len(o)) /\ \A k \in 1 .. Len(o) : d[k] <= v
               /\ \A c \in Places(m) : Along(c, o) = d => Position(m, c, o) = v
<1> DEFINE n == Len(o)
           r == Sizes(m, o)
           m2 == [sizes |-> r]
           d == Indices(m2, v)
<1>0. n \in Nat /\ r \in Seq(Nat \ {0}) /\ Len(r) = n /\ r \in [1 .. n -> Nat \ {0}] /\ m2.sizes = r
  BY AlongPlace
<1>1. PICK q : /\ Multiplied(q, r, n)
               /\ \A c \in Places(m) : \E p : Written(p, Along(c, o), q, n) /\ Position(m, c, o) = p[n]
  BY PositionSolved
<1>2. Product(r) = q[n] /\ q[n] \in Nat
  <2>1. Product(r) = q[Len(r)]
    <3> HIDE DEF r, n
    <3> QED
      BY <1>0, <1>1, ProductTaken
  <2> QED
    BY <1>0, <1>1, <2>1 DEF Multiplied
<1>3. v \in Nat /\ v < q[n]
  BY <1>2
<1> SUFFICES /\ DigitsOf(d, r, n) /\ \A k \in 1 .. n : d[k] <= v
             /\ \A c \in Places(m) : Along(c, o) = d => Position(m, c, o) = v
  BY Zenon
<1> HIDE DEF r, n
<1>4. PICK rest : TakenFrom(rest, d, v, r, n)
  <2> HIDE DEF m2
  <2>1. Laid(m2) /\ Len(m2.sizes) = n
    BY <1>0 DEF Laid
  <2> QED
    BY <1>0, <1>3, <2>1, IndicesTaken
<1> HIDE DEF d
<1>5. DigitsOf(d, r, n) /\ \A k \in 1 .. n : d[k] <= v
  BY <1>0, <1>3, <1>4, TakenDigits
<1>6. ASSUME NEW c \in Places(m), Along(c, o) = d
      PROVE  Position(m, c, o) = v
  <2>1. PICK p : Written(p, d, q, n) /\ Position(m, c, o) = p[n]
    BY <1>1, <1>6
  <2> QED
    BY <1>1, <1>3, <1>4, <2>1, WrittenBack
<1> QED
  BY <1>5, <1>6

LEMMA WholeOrder ==
    ASSUME NEW m, Laid(m)
    PROVE  /\ Order(m) \in Seq(1 .. Len(m.sizes)) /\ Len(Order(m)) = Len(m.sizes) /\ Sizes(m, Order(m)) = m.sizes
           /\ \A i \in 1 .. Len(m.sizes) : Order(m)[i] = i
           /\ \A c \in Places(m) : Along(c, Order(m)) = c
<1> DEFINE R == Len(m.sizes)
<1>1. R \in Nat /\ m.sizes = [i \in 1 .. R |-> m.sizes[i]]
  BY DEF Laid
<1>2. Order(m) = [i \in 1 .. R |-> i]
  <2>1. DOMAIN m.sizes = 1 .. R
    BY DEF Laid
  <2> QED
    BY <2>1, Zenon DEF Order
<1>3. \A c \in Places(m) : c = [i \in 1 .. R |-> c[i]]
  BY DEF Places
<1> HIDE DEF R
<1>4. Order(m) \in Seq(1 .. R) /\ Len(Order(m)) = R /\ \A i \in 1 .. R : Order(m)[i] = i
  BY <1>1, <1>2
<1>5. Sizes(m, Order(m)) = [i \in 1 .. R |-> m.sizes[i]]
  BY <1>4 DEF Sizes
<1>6. \A c \in Places(m) : Along(c, Order(m)) = [i \in 1 .. R |-> c[i]]
  BY <1>4 DEF Along
<1> QED
  BY <1>1, <1>3, <1>4, <1>5, <1>6 DEF R

\* The indices of a device are the place with its number.
LEMMA IndicesPlace ==
    ASSUME NEW m, Laid(m), NEW v \in 0 .. MeshDevices(m) - 1
    PROVE  /\ Indices(m, v) \in Places(m) /\ \A i \in 1 .. Len(m.sizes) : Indices(m, v)[i] <= v
           /\ Position(m, Indices(m, v), Order(m)) = v
<1> DEFINE o == Order(m)
           R == Len(m.sizes)
           m2 == [sizes |-> Sizes(m, o)]
           d == Indices(m2, v)
<1>1. o \in Seq(1 .. R) /\ Len(o) = R /\ Sizes(m, o) = m.sizes /\ \A c \in Places(m) : Along(c, o) = c
  BY WholeOrder
<1>2. MeshDevices(m) = Product(Sizes(m, o))
  BY <1>1 DEF MeshDevices
<1>3. d = Indices(m, v)
  BY <1>1 DEF Indices
<1> HIDE DEF o
<1>4. /\ DigitsOf(d, Sizes(m, o), Len(o)) /\ \A k \in 1 .. Len(o) : d[k] <= v
      /\ \A c \in Places(m) : Along(c, o) = d => Position(m, c, o) = v
  BY <1>1, <1>2, DigitsExist
<1>5. d \in Places(m)
  <2> HIDE DEF d
  <2> QED
    BY <1>1, <1>4 DEF DigitsOf, Places
<1> HIDE DEF d
<1> QED
  BY <1>1, <1>3, <1>4, <1>5 DEF o

LEMMA PlaceOfDevice ==
    ASSUME NEW m, Laid(m), NEW c \in Places(m)
    PROVE  /\ Position(m, c, Order(m)) \in 0 .. MeshDevices(m) - 1
           /\ Indices(m, Position(m, c, Order(m))) = c
<1> DEFINE o == Order(m)
           R == Len(m.sizes)
           v == Position(m, c, o)
           d == Indices(m, v)
<1>1. o \in Seq(1 .. R) /\ Len(o) = R /\ Sizes(m, o) = m.sizes /\ \A i \in 1 .. R : o[i] = i
  BY WholeOrder
<1> HIDE DEF o
<1>2. v \in 0 .. MeshDevices(m) - 1
  BY <1>1, PositionOrder DEF MeshDevices
<1> HIDE DEF v
<1>3. d \in Places(m) /\ Position(m, d, o) = v
  BY <1>2, IndicesPlace DEF o
<1> HIDE DEF d
<1>4. \A k \in 1 .. Len(o) : c[o[k]] = d[o[k]]
  BY <1>1, <1>3, PositionOrder DEF v
<1>5. \A i \in 1 .. R : c[i] = d[i]
  BY <1>1, <1>4
<1>6. c = d
  <2>1. c \in [1 .. R -> Nat] /\ d \in [1 .. R -> Nat]
    BY <1>3, Zenon DEF Places
  <2> QED
    BY <1>5, <2>1, SameFunction
<1> QED
  BY <1>2, <1>6 DEF d, v, o

LEMMA CoordinatesArePlaces ==
    ASSUME NEW m, Laid(m)
    PROVE  Coordinates(m) = Places(m)
<1> DEFINE R == Len(m.sizes)
           N == MeshDevices(m)
<1>1. R \in Nat /\ DOMAIN m.sizes = 1 .. R /\ N \in Nat
  <2>1. m.sizes \in Seq(Nat)
    BY DEF Laid
  <2> QED
    BY <2>1, ProductIsNumber DEF MeshDevices
<1>2. Coordinates(m) = {c \in [1 .. R -> 0 .. N - 1] : \A i \in 1 .. R : c[i] < m.sizes[i]}
  BY <1>1, Zenon DEF Coordinates
<1>3. ASSUME NEW c \in Places(m), NEW i \in 1 .. R
      PROVE  c[i] \in 0 .. N - 1
  <2> DEFINE v == Position(m, c, Order(m))
  <2>1. v \in 0 .. N - 1 /\ Indices(m, v) = c
    BY PlaceOfDevice
  <2> HIDE DEF v
  <2>2. c[i] <= v /\ c[i] \in Nat
    BY <2>1, IndicesPlace DEF Places
  <2> QED
    BY <1>1, <2>1, <2>2
<1> HIDE DEF N, R
<1>4. Places(m) = {c \in [1 .. R -> Nat] : \A i \in 1 .. R : c[i] < m.sizes[i]}
  BY DEF Places, R
<1>5. Coordinates(m) \subseteq Places(m)
  BY <1>1, <1>2, <1>4
<1>6. Places(m) \subseteq Coordinates(m)
  BY <1>2, <1>3, <1>4
<1> QED
  BY <1>5, <1>6

\* As many places come before a place as its number says.
LEMMA PlacesBefore ==
    ASSUME NEW m, Laid(m), NEW c \in Places(m)
    PROVE  Cardinality({d \in Places(m) : Precedes(d, c, Order(m))}) = Position(m, c, Order(m))
<1> DEFINE o == Order(m)
           N == MeshDevices(m)
           P == Position(m, c, o)
           T == {d \in Places(m) : Precedes(d, c, o)}
           f == [x \in 0 .. P - 1 |-> Indices(m, x)]
<1>0. o \in Seq(1 .. Len(m.sizes))
  BY WholeOrder
<1>1. N \in Nat
  <2>1. m.sizes \in Seq(Nat)
    BY DEF Laid
  <2> QED
    BY <2>1, ProductIsNumber DEF MeshDevices
<1>2. P \in 0 .. N - 1
  BY PlaceOfDevice
<1> HIDE DEF o, N, P
<1>3. \A d \in Places(m) : Precedes(d, c, o) <=> Position(m, d, o) < P
  BY <1>0, PositionOrder DEF P
<1>4. ASSUME NEW x \in 0 .. P - 1
      PROVE  Indices(m, x) \in T /\ Position(m, Indices(m, x), o) = x
  <2>1. x \in 0 .. N - 1 /\ x < P
    BY <1>1, <1>2
  <2>2. Indices(m, x) \in Places(m) /\ Position(m, Indices(m, x), o) = x
    BY <2>1, IndicesPlace DEF N, o
  <2> QED
    BY <1>3, <2>1, <2>2
<1>5. ASSUME NEW d \in T
      PROVE  \E x \in 0 .. P - 1 : f[x] = d
  <2>1. Position(m, d, o) \in 0 .. N - 1 /\ Indices(m, Position(m, d, o)) = d
    BY PlaceOfDevice DEF N, o
  <2>2. Position(m, d, o) \in 0 .. P - 1
    BY <1>1, <1>2, <1>3, <2>1
  <2> QED
    BY <2>1, <2>2
<1>6. f \in [0 .. P - 1 -> T] /\ \A x \in 0 .. P - 1 : f[x] = Indices(m, x)
  BY <1>4
<1> HIDE DEF f, T
<1>7. \A x, y \in 0 .. P - 1 : f[x] = f[y] => x = y
  BY <1>4, <1>6
<1>8. f \in Bijection(0 .. P - 1, T)
  BY <1>5, <1>6, <1>7 DEF Bijection, Injection, Surjection, IsInjective
<1>9. IsFiniteSet(0 .. P - 1) /\ Cardinality(0 .. P - 1) = P
  <2>1. 0 \in Int /\ P - 1 \in Int /\ P \in Nat
    BY <1>1, <1>2
  <2>2. IsFiniteSet(0 .. P - 1) /\ Cardinality(0 .. P - 1) = IF 0 > P - 1 THEN 0 ELSE P - 1 - 0 + 1
    BY <2>1, FS_Interval
  <2> QED
    BY <2>1, <2>2
<1>10. Cardinality(T) = P
  <2>1. ExistsBijection(0 .. P - 1, T)
    BY <1>8, Zenon DEF ExistsBijection
  <2> QED
    BY <1>9, <2>1, FS_Bijection
<1> QED
  BY <1>10 DEF T, P, o

\* The place of a device in the order of all coordinates is the one of its indices.
LEMMA CoordinateIs ==
    ASSUME NEW m, Laid(m), NEW v \in 0 .. MeshDevices(m) - 1
    PROVE  CoordinateOf(m)[v] = Indices(m, v)
<1> DEFINE count(c) == Cardinality({d \in Places(m) : Precedes(d, c, Order(m))})
<1>2. CoordinateOf(m) = [device \in 0 .. MeshDevices(m) - 1 |->
          CHOOSE c \in Coordinates(m) : Cardinality({d \in Coordinates(m) : Precedes(d, c, Order(m))}) = device]
  BY DEF CoordinateOf, Order
<1>3. Coordinates(m) = Places(m)
  BY CoordinatesArePlaces
<1>4. CoordinateOf(m)[v] = CHOOSE c \in Places(m) : count(c) = v
  BY <1>2, <1>3, Zenon
<1>5. \A c \in Places(m) : count(c) = Position(m, c, Order(m))
  BY PlacesBefore
<1>6. Indices(m, v) \in Places(m) /\ Position(m, Indices(m, v), Order(m)) = v
  BY IndicesPlace
<1> HIDE DEF count
<1>7. count(Indices(m, v)) = v
  BY <1>5, <1>6, Zenon
<1>8. CoordinateOf(m)[v] \in Places(m) /\ count(CoordinateOf(m)[v]) = v
  BY <1>4, <1>6, <1>7, Zenon
<1>9. Position(m, CoordinateOf(m)[v], Order(m)) = v
  BY <1>5, <1>8, Zenon
<1>10. Indices(m, v) = CoordinateOf(m)[v]
  BY <1>8, <1>9, PlaceOfDevice, Zenon
<1> QED
  BY <1>10

-------------------------------------------------------------------------------
(* The axes divided in two lists. *)

Split(m, o1, o2) ==
    /\ o1 \in Seq(1 .. Len(m.sizes)) /\ o2 \in Seq(1 .. Len(m.sizes))
    /\ \A j, k \in 1 .. Len(o1) : o1[j] = o1[k] => j = k
    /\ \A j, k \in 1 .. Len(o2) : o2[j] = o2[k] => j = k
    /\ \A i \in 1 .. Len(m.sizes) : (\E k \in 1 .. Len(o1) : o1[k] = i) <=> ~ \E k \in 1 .. Len(o2) : o2[k] = i

LEMMA OthersSplit ==
    ASSUME NEW m, Laid(m), NEW chosen \in Seq(1 .. Len(m.sizes)),
           \A j, k \in 1 .. Len(chosen) : chosen[j] = chosen[k] => j = k
    PROVE  Split(m, Others(m, chosen), chosen)
<1> DEFINE R == Len(m.sizes)
           more(i, w) == IF i \in Range(chosen) THEN w ELSE Append(w, i)
           Solves(f) == f = [i \in 0 .. R |-> IF i = 0 THEN << >> ELSE more(i, f[i - 1])]
           others == CHOOSE f : Solves(f)
           V == Seq(1 .. R)
           step == [i \in 1 .. R |-> [w \in V |-> more(i, w)]]
<1>1. R \in Nat
  BY DEF Laid
<1>2. Others(m, chosen) = others[R]
  BY DEF Others
<1> HIDE DEF R
<1>3. IsAccumulation(R, V, << >>, step)
  <2>1. << >> \in V
    OBVIOUS
  <2>2. \A i \in 1 .. R, w \in V : more(i, w) \in V
    <3>1. ASSUME NEW i \in 1 .. R, NEW w \in V
          PROVE  Append(w, i) \in V
      OBVIOUS
    <3> HIDE DEF V
    <3> QED
      BY <3>1
  <2> HIDE DEF V, more
  <2> QED
    BY <1>1, <2>1, <2>2 DEF IsAccumulation
<1>4. PICK f : IsAccumulated(f, R, V, << >>, step)
  <2> HIDE DEF step, V
  <2> QED
    BY <1>3, AccumulationExists
<1>5. f \in [0 .. R -> V] /\ f[0] = << >>
  <2> HIDE DEF V, step
  <2> QED
    BY <1>4 DEF IsAccumulated
<1>6. ASSUME NEW i \in 1 .. R
      PROVE  f[i] = more(i, f[i - 1])
  <2>1. f[i] = step[i][f[i - 1]] /\ i - 1 \in 0 .. R
    <3> HIDE DEF step, V
    <3> QED
      BY <1>1, <1>4 DEF IsAccumulated
  <2> HIDE DEF V, more
  <2>2. f[i - 1] \in V
    BY <1>5, <2>1
  <2> QED
    BY <2>1, <2>2
<1> HIDE DEF step
<1>7. Solves(f)
  <2> HIDE DEF V, more
  <2> QED
    BY <1>1, <1>5, <1>6
<1>8. Solves(others)
  <2> HIDE DEF Solves
  <2> QED
    BY <1>7
<1> HIDE DEF others
<1>9. others[0] = << >> /\ \A i \in 1 .. R : others[i] = more(i, others[i - 1])
  <2> HIDE DEF more
  <2> QED
    BY <1>1, <1>8
<1> DEFINE Picked(w, i) == /\ w \in V /\ \A k \in 1 .. Len(w) : w[k] <= i /\ w[k] \notin Range(chosen)
                           /\ \A j, k \in 1 .. Len(w) : w[j] = w[k] => j = k
                           /\ \A x \in 1 .. i : x \notin Range(chosen) => \E k \in 1 .. Len(w) : w[k] = x
           S == {i \in Nat : i <= R => Picked(others[i], i)}
<1>10. 0 \in S
  <2> DEFINE w == others[0]
  <2>1. w = << >> /\ << >> \in V /\ 1 .. Len(<< >>) = {} /\ 1 .. 0 = {}
    BY <1>9
  <2> HIDE DEF w, V
  <2>2. Picked(w, 0)
    BY <2>1
  <2> HIDE DEF Picked
  <2> QED
    BY <2>2 DEF w
<1>11. ASSUME NEW i \in Nat, i \in S
       PROVE  i + 1 \in S
  <2> SUFFICES ASSUME i + 1 <= R
               PROVE  Picked(others[i + 1], i + 1)
    OBVIOUS
  <2> DEFINE w == others[i]
             x == i + 1
  <2>1. x \in 1 .. R /\ x - 1 = i /\ Picked(w, i)
    BY <1>1, <1>11
  <2>2. others[x] = more(x, w)
    BY <1>9, <2>1
  <2> HIDE DEF w
  <2>3. w \in V /\ Len(w) \in Nat /\ \A k \in 1 .. Len(w) : w[k] \in 1 .. R
    <3>1. w \in V
      BY <2>1, Zenon
    <3> QED
      BY <3>1, ListElements, Zenon DEF V
  <2>4. CASE x \in Range(chosen)
    <3>1. others[x] = w
      BY <2>2, <2>4
    <3>2. Picked(w, x)
      <4>1. \A k \in 1 .. Len(w) : w[k] <= x
        BY <2>1, <2>3
      <4>2. \A y \in 1 .. x : y = x \/ y \in 1 .. i
        OBVIOUS
      <4> HIDE DEF V, x
      <4> QED
        BY <2>1, <2>4, <4>1, <4>2, Zenon
    <3> QED
      BY <3>1, <3>2
  <2>5. CASE x \notin Range(chosen)
    <3> DEFINE z == Append(w, x)
               n == Len(w)
    <3>1. others[x] = z
      BY <2>2, <2>5
    <3>2. z \in V /\ Len(z) = n + 1 /\ z[n + 1] = x /\ \A k \in 1 .. n : z[k] = w[k]
      BY <2>1, <2>3
    <3>3. n \in Nat /\ 1 .. n + 1 = (1 .. n) \cup {n + 1} /\ \A k \in 1 .. n : w[k] < x /\ w[k] \in Int /\ k # n + 1
      BY <2>1, <2>3
    <3> HIDE DEF z, n, V
    <3>4. \A k \in 1 .. n + 1 : z[k] <= x /\ z[k] \notin Range(chosen)
      <4>1. x <= x /\ \A k \in 1 .. n : w[k] <= x
        BY <2>1, <3>3
      <4> HIDE DEF x
      <4> QED
        BY <2>1, <2>5, <3>2, <3>3, <4>1, Zenon DEF n
    <3>5. \A j, k \in 1 .. n + 1 : z[j] = z[k] => j = k
      <4>1. \A k \in 1 .. n : w[k] # x
        BY <3>3
      <4>2. \A j, k \in 1 .. n : w[j] = w[k] => j = k
        BY <2>1, Zenon DEF n
      <4> HIDE DEF x
      <4> QED
        BY <3>2, <3>3, <4>1, <4>2
    <3>6. \A y \in 1 .. x : y \notin Range(chosen) => \E k \in 1 .. n + 1 : z[k] = y
      <4>1. \A y \in 1 .. x : y = x \/ y \in 1 .. i
        OBVIOUS
      <4>2. \A y \in 1 .. i : y \notin Range(chosen) => \E k \in 1 .. n : w[k] = y
        BY <2>1, Zenon DEF n
      <4> HIDE DEF x
      <4> QED
        BY <3>2, <3>3, <4>1, <4>2
    <3> QED
      BY <3>1, <3>2, <3>4, <3>5, <3>6
  <2> QED
    BY <2>4, <2>5
<1> HIDE DEF S
<1>12. Picked(others[R], R)
  <2>1. R \in S
    BY <1>1, <1>10, <1>11, NumberInduction
  <2> HIDE DEF Picked
  <2> QED
    BY <1>1, <2>1 DEF S
<1>13. \A i : i \in Range(chosen) <=> \E k \in 1 .. Len(chosen) : chosen[k] = i
  BY DEF Range
<1> DEFINE w == others[R]
<1>14. \A i \in 1 .. R : (\E k \in 1 .. Len(w) : w[k] = i) <=> ~ \E k \in 1 .. Len(chosen) : chosen[k] = i
  <2> HIDE DEF w
  <2> QED
    BY <1>12, <1>13, Zenon DEF w
<1> QED
  BY <1>2, <1>12, <1>14 DEF Split, R

\* There is a place for each pair of positions along the two lists ...
LEMMA PairTaken ==
    ASSUME NEW m, Laid(m), NEW o1, NEW o2, Split(m, o1, o2),
           NEW x \in 0 .. Product(Sizes(m, o1)) - 1, NEW y \in 0 .. Product(Sizes(m, o2)) - 1
    PROVE  \E v \in 0 .. MeshDevices(m) - 1 : Position(m, Indices(m, v), o1) = x /\ Position(m, Indices(m, v), o2) = y
<1> DEFINE R == Len(m.sizes)
           n1 == Len(o1)
           n2 == Len(o2)
           d1 == Indices([sizes |-> Sizes(m, o1)], x)
           d2 == Indices([sizes |-> Sizes(m, o2)], y)
           first(i) == CHOOSE k \in 1 .. n1 : o1[k] = i
           second(i) == CHOOSE k \in 1 .. n2 : o2[k] = i
           c == [i \in 1 .. R |-> IF \E k \in 1 .. n1 : o1[k] = i THEN d1[first(i)] ELSE d2[second(i)]]
<1>1. /\ o1 \in Seq(1 .. R) /\ o2 \in Seq(1 .. R)
      /\ \A j, k \in 1 .. n1 : o1[j] = o1[k] => j = k
      /\ \A j, k \in 1 .. n2 : o2[j] = o2[k] => j = k
      /\ \A i \in 1 .. R : (\E k \in 1 .. n1 : o1[k] = i) <=> ~ \E k \in 1 .. n2 : o2[k] = i
  BY Zenon DEF Split
<1>2. /\ DigitsOf(d1, Sizes(m, o1), n1)
      /\ \A p \in Places(m) : Along(p, o1) = d1 => Position(m, p, o1) = x
  BY <1>1, DigitsExist
<1>3. /\ DigitsOf(d2, Sizes(m, o2), n2)
      /\ \A p \in Places(m) : Along(p, o2) = d2 => Position(m, p, o2) = y
  BY <1>1, DigitsExist
<1>4. Sizes(m, o1) = [k \in 1 .. n1 |-> m.sizes[o1[k]]] /\ Sizes(m, o2) = [k \in 1 .. n2 |-> m.sizes[o2[k]]]
  BY DEF Sizes
<1>5. /\ \A p : Along(p, o1) = [k \in 1 .. n1 |-> p[o1[k]]]
      /\ \A p : Along(p, o2) = [k \in 1 .. n2 |-> p[o2[k]]]
  BY DEF Along
<1>6. Places(m) = {p \in [1 .. R -> Nat] : \A i \in 1 .. R : p[i] < m.sizes[i]}
  BY DEF Places
<1>7. /\ \A k \in 1 .. n1 : o1[k] \in 1 .. R
      /\ \A k \in 1 .. n2 : o2[k] \in 1 .. R
  BY <1>1, ListElements
<1> HIDE DEF R, n1, n2, d1, d2
<1>8. \A i : (\E k \in 1 .. n1 : o1[k] = i) => first(i) \in 1 .. n1 /\ o1[first(i)] = i
  BY Zenon
<1>9. \A i : (\E k \in 1 .. n2 : o2[k] = i) => second(i) \in 1 .. n2 /\ o2[second(i)] = i
  BY Zenon
<1> HIDE DEF first, second
<1>10. /\ d1 \in [1 .. n1 -> Nat] /\ \A k \in 1 .. n1 : d1[k] < m.sizes[o1[k]]
       /\ d2 \in [1 .. n2 -> Nat] /\ \A k \in 1 .. n2 : d2[k] < m.sizes[o2[k]]
  BY <1>2, <1>3, <1>4 DEF DigitsOf
<1>11. ASSUME NEW i \in 1 .. R
       PROVE  c[i] \in Nat /\ c[i] < m.sizes[i]
  <2>1. CASE \E k \in 1 .. n1 : o1[k] = i
    <3>1. c[i] = d1[first(i)] /\ first(i) \in 1 .. n1 /\ o1[first(i)] = i
      BY <1>8, <2>1
    <3> QED
      BY <1>10, <3>1
  <2>2. CASE ~ \E k \in 1 .. n1 : o1[k] = i
    <3>0. \E k \in 1 .. n2 : o2[k] = i
      BY <1>1, <2>2, Zenon
    <3>1. c[i] = d2[second(i)] /\ second(i) \in 1 .. n2 /\ o2[second(i)] = i
      BY <1>9, <2>2, <3>0
    <3> QED
      BY <1>10, <3>1
  <2> QED
    BY <2>1, <2>2
<1>12. ASSUME NEW k \in 1 .. n1
       PROVE  c[o1[k]] = d1[k]
  <2>1. first(o1[k]) = k
    BY <1>1, <1>8, Zenon
  <2> QED
    BY <1>7, <2>1
<1>13. ASSUME NEW k \in 1 .. n2
       PROVE  c[o2[k]] = d2[k]
  <2>1. second(o2[k]) = k
    BY <1>1, <1>9, Zenon
  <2>2. o2[k] \in 1 .. R
    BY <1>7
  <2>3. ~ \E j \in 1 .. n1 : o1[j] = o2[k]
    BY <1>1, <2>2, Zenon
  <2> QED
    BY <2>1, <2>2, <2>3
<1>14. DOMAIN c = 1 .. R /\ c = [i \in 1 .. R |-> c[i]]
  OBVIOUS
<1> HIDE DEF c
<1>15. c \in Places(m)
  BY <1>6, <1>11, <1>14
<1>16. Along(c, o1) = d1 /\ Along(c, o2) = d2
  <2>1. Along(c, o1) = [k \in 1 .. n1 |-> c[o1[k]]] /\ Along(c, o2) = [k \in 1 .. n2 |-> c[o2[k]]]
    BY <1>5
  <2>2. d1 = [k \in 1 .. n1 |-> d1[k]] /\ d2 = [k \in 1 .. n2 |-> d2[k]]
    BY <1>10
  <2>3. [k \in 1 .. n1 |-> c[o1[k]]] = [k \in 1 .. n1 |-> d1[k]]
    BY <1>12
  <2>4. [k \in 1 .. n2 |-> c[o2[k]]] = [k \in 1 .. n2 |-> d2[k]]
    BY <1>13
  <2> QED
    BY <2>1, <2>2, <2>3, <2>4, Zenon
<1>17. Position(m, c, o1) = x /\ Position(m, c, o2) = y
  BY <1>2, <1>3, <1>15, <1>16
<1>18. /\ Position(m, c, Order(m)) \in 0 .. MeshDevices(m) - 1
       /\ Indices(m, Position(m, c, Order(m))) = c
  BY <1>15, PlaceOfDevice
<1> QED
  BY <1>17, <1>18

\* ... and one only.
LEMMA PairOnce ==
    ASSUME NEW m, Laid(m), NEW o1, NEW o2, Split(m, o1, o2),
           NEW v \in 0 .. MeshDevices(m) - 1, NEW w \in 0 .. MeshDevices(m) - 1,
           Position(m, Indices(m, v), o1) = Position(m, Indices(m, w), o1),
           Position(m, Indices(m, v), o2) = Position(m, Indices(m, w), o2)
    PROVE  v = w
<1> DEFINE R == Len(m.sizes)
           c == Indices(m, v)
           d == Indices(m, w)
<1>1. c \in Places(m) /\ d \in Places(m) /\ Position(m, c, Order(m)) = v /\ Position(m, d, Order(m)) = w
  BY IndicesPlace
<1>2. /\ o1 \in Seq(1 .. R) /\ o2 \in Seq(1 .. R)
      /\ \A i \in 1 .. R : (\E k \in 1 .. Len(o1) : o1[k] = i) \/ \E k \in 1 .. Len(o2) : o2[k] = i
  BY Zenon DEF Split
<1> HIDE DEF c, d
<1>3. \A k \in 1 .. Len(o1) : c[o1[k]] = d[o1[k]]
  BY <1>1, <1>2, PositionOrder DEF c, d
<1>4. \A k \in 1 .. Len(o2) : c[o2[k]] = d[o2[k]]
  BY <1>1, <1>2, PositionOrder DEF c, d
<1>5. ASSUME NEW i \in 1 .. R
      PROVE  c[i] = d[i]
  <2>1. CASE \E k \in 1 .. Len(o1) : o1[k] = i
    BY <1>3, <2>1
  <2>2. CASE \E k \in 1 .. Len(o2) : o2[k] = i
    BY <1>4, <2>2
  <2> QED
    BY <1>2, <2>1, <2>2
<1>6. c = d
  <2>1. c \in [1 .. R -> Nat] /\ d \in [1 .. R -> Nat]
    BY <1>1, Zenon DEF Places
  <2> QED
    BY <1>5, <2>1, SameFunction
<1> QED
  BY <1>1, <1>6

LEMMA PositionsExist ==
    ASSUME NEW m, Laid(m), NEW o \in Seq(1 .. Len(m.sizes))
    PROVE  Product(Sizes(m, o)) \in Nat \ {0}
<1> DEFINE c == [i \in 1 .. Len(m.sizes) |-> 0]
           P == Product(Sizes(m, o))
<1>1. c \in Places(m)
  BY DEF Laid, Places
<1>2. Sizes(m, o) \in Seq(Nat)
  <2>1. Sizes(m, o) \in Seq(Nat \ {0})
    BY AlongPlace
  <2> QED
    BY <2>1
<1>3. P \in Nat
  BY <1>2, ProductIsNumber
<1> HIDE DEF c, P
<1>4. Position(m, c, o) \in 0 .. P - 1
  BY <1>1, PositionOrder DEF P
<1> QED
  BY <1>3, <1>4 DEF P

LEMMA DevicesArePairs ==
    ASSUME NEW m, Laid(m), NEW o1, NEW o2, Split(m, o1, o2)
    PROVE  MeshDevices(m) = Product(Sizes(m, o1)) * Product(Sizes(m, o2)) /\ MeshDevices(m) \in Nat
<1> DEFINE N == MeshDevices(m)
           A == Product(Sizes(m, o1))
           B == Product(Sizes(m, o2))
           place(v) == Indices(m, v)
           f == [v \in 0 .. N - 1 |-> <<Position(m, place(v), o1), Position(m, place(v), o2)>>]
           T == (0 .. A - 1) \X (0 .. B - 1)
<1>1. o1 \in Seq(1 .. Len(m.sizes)) /\ o2 \in Seq(1 .. Len(m.sizes))
  BY DEF Split
<1>2. N \in Nat /\ A \in Nat /\ B \in Nat
  <2>1. m.sizes \in Seq(Nat)
    BY DEF Laid
  <2> QED
    BY <1>1, <2>1, ProductIsNumber, PositionsExist DEF MeshDevices
<1> HIDE DEF N, A, B, place
<1>3. ASSUME NEW v \in 0 .. N - 1
      PROVE  Position(m, place(v), o1) \in 0 .. A - 1 /\ Position(m, place(v), o2) \in 0 .. B - 1
  <2>1. place(v) \in Places(m)
    BY IndicesPlace DEF place, N
  <2> QED
    BY <1>1, <2>1, PositionOrder DEF A, B
<1>4. f \in [0 .. N - 1 -> T] /\ \A v \in 0 .. N - 1 : f[v] = <<Position(m, place(v), o1), Position(m, place(v), o2)>>
  BY <1>3
<1> HIDE DEF f
<1>5. \A v, w \in 0 .. N - 1 : f[v] = f[w] => v = w
  <2> SUFFICES ASSUME NEW v \in 0 .. N - 1, NEW w \in 0 .. N - 1, f[v] = f[w]
               PROVE  v = w
    OBVIOUS
  <2>1. Position(m, place(v), o1) = Position(m, place(w), o1) /\ Position(m, place(v), o2) = Position(m, place(w), o2)
    BY <1>4
  <2> QED
    BY <2>1, PairOnce DEF place, N
<1>6. \A t \in T : \E v \in 0 .. N - 1 : f[v] = t
  <2> SUFFICES ASSUME NEW x \in 0 .. A - 1, NEW y \in 0 .. B - 1
               PROVE  \E v \in 0 .. N - 1 : f[v] = <<x, y>>
    OBVIOUS
  <2>1. PICK v \in 0 .. N - 1 : Position(m, place(v), o1) = x /\ Position(m, place(v), o2) = y
    BY PairTaken DEF A, B, N, place
  <2> QED
    BY <1>4, <2>1
<1> HIDE DEF T
<1>7. f \in Bijection(0 .. N - 1, T)
  BY <1>4, <1>5, <1>6 DEF Bijection, Injection, Surjection, IsInjective
<1>8. \A n \in Nat : IsFiniteSet(0 .. n - 1) /\ Cardinality(0 .. n - 1) = n
  <2> SUFFICES ASSUME NEW n \in Nat
               PROVE  IsFiniteSet(0 .. n - 1) /\ Cardinality(0 .. n - 1) = n
    OBVIOUS
  <2>1. IsFiniteSet(0 .. n - 1) /\ Cardinality(0 .. n - 1) = IF 0 > n - 1 THEN 0 ELSE n - 1 - 0 + 1
    BY FS_Interval
  <2> QED
    BY <2>1
<1>9. Cardinality(T) = N
  <2>1. ExistsBijection(0 .. N - 1, T)
    BY <1>7, Zenon DEF ExistsBijection
  <2> QED
    BY <1>2, <1>8, <2>1, FS_Bijection
<1>10. Cardinality(T) = A * B
  <2>1. /\ IsFiniteSet(0 .. A - 1) /\ Cardinality(0 .. A - 1) = A
        /\ IsFiniteSet(0 .. B - 1) /\ Cardinality(0 .. B - 1) = B
    BY <1>2, <1>8, Zenon
  <2>2. Cardinality((0 .. A - 1) \X (0 .. B - 1)) = Cardinality(0 .. A - 1) * Cardinality(0 .. B - 1)
    BY <2>1, FS_Product, Zenon
  <2> QED
    BY <2>1, <2>2, Zenon DEF T
<1> QED
  BY <1>2, <1>9, <1>10 DEF N, A, B

LEMMA Quotient ==
    ASSUME NEW a \in Nat, NEW b \in Nat \ {0}
    PROVE  (a * b) \div b = a
<1> DEFINE x == a * b
           z == x \div b
           w == x % b
<1>1. x \in Nat
  OBVIOUS
<1> HIDE DEF x
<1>2. z \in Nat /\ w \in Nat /\ w < b /\ x = b * z + w
  BY <1>1, Divided
<1> HIDE DEF z, w
<1>3. w + z * b = 0 + a * b
  BY <1>2 DEF x
<1>4. 0 \in Nat /\ 0 < b /\ b \in Nat
  OBVIOUS
<1>5. z = a
  BY <1>2, <1>3, <1>4, DigitFirst
<1> QED
  BY <1>5 DEF z, x

-------------------------------------------------------------------------------
(* The groups of a mesh along some of its axes. *)

Named(m) == m.axes \in Seq(STRING) /\ Len(m.axes) = Len(m.sizes)
ChosenAxes(m, axes) == [k \in DOMAIN axes |-> AxisIndex(m, axes[k])]

LEMMA AxesChosen ==
    ASSUME NEW m, Laid(m), Named(m), NEW axes \in AxisLists(m)
    PROVE  /\ ChosenAxes(m, axes) \in Seq(1 .. Len(m.sizes))
           /\ DOMAIN axes = 1 .. Len(axes) /\ Len(ChosenAxes(m, axes)) = Len(axes)
           /\ \A j, k \in 1 .. Len(axes) : ChosenAxes(m, axes)[j] = ChosenAxes(m, axes)[k] => j = k
<1> DEFINE R == Len(m.sizes)
           chosen == ChosenAxes(m, axes)
<1>1. PICK n \in 0 .. Len(m.axes) : axes \in [1 .. n -> Range(m.axes)]
  BY Zenon DEF AxisLists
<1>2. \A i, j \in DOMAIN axes : axes[i] = axes[j] => i = j
  BY Zenon DEF AxisLists, KnownAxes
<1>3. DOMAIN m.axes = 1 .. R /\ R \in Nat /\ n \in Nat
  BY DEF Named, Laid
<1>4. DOMAIN axes = 1 .. n /\ Len(axes) = n
  BY <1>1, <1>3
<1>5. ASSUME NEW k \in 1 .. n
      PROVE  chosen[k] \in 1 .. R /\ m.axes[chosen[k]] = axes[k]
  <2>1. axes[k] \in Range(m.axes)
    BY <1>1
  <2>2. \E i \in DOMAIN m.axes : m.axes[i] = axes[k]
    BY <2>1, Zenon DEF Range
  <2>3. AxisIndex(m, axes[k]) \in DOMAIN m.axes /\ m.axes[AxisIndex(m, axes[k])] = axes[k]
    BY <2>2, Zenon DEF AxisIndex
  <2>4. chosen[k] = AxisIndex(m, axes[k])
    BY <1>4 DEF ChosenAxes
  <2> QED
    BY <1>3, <2>3, <2>4, Zenon
<1>6. DOMAIN chosen = 1 .. n /\ chosen = [k \in 1 .. n |-> chosen[k]]
  BY <1>4 DEF ChosenAxes
<1> HIDE DEF chosen, R
<1>7. chosen \in Seq(1 .. R) /\ Len(chosen) = n
  BY <1>3, <1>5, <1>6
<1>8. ASSUME NEW j \in 1 .. n, NEW k \in 1 .. n, chosen[j] = chosen[k]
      PROVE  j = k
  <2>1. axes[j] = axes[k]
    BY <1>5, <1>8
  <2> QED
    BY <1>2, <1>4, <2>1
<1> QED
  BY <1>4, <1>7, <1>8 DEF chosen, R

LEMMA MaxOfOne ==
    ASSUME NEW v \in Nat
    PROVE  Max({v}) = v
<1>1. Max({v}) = CHOOSE x \in {v} : \A y \in {v} : x >= y
  BY Zenon DEF Max
<1>2. v >= v
  OBVIOUS
<1> QED
  BY <1>1, <1>2, Zenon

\* In each group, and at each place of it, the one device with these positions.
AreGroups(m, groups, others, chosen) ==
    /\ Split(m, others, chosen)
    /\ groups \in [1 .. Product(Sizes(m, others)) -> [1 .. Product(Sizes(m, chosen)) -> 0 .. MeshDevices(m) - 1]]
    /\ \A g \in 1 .. Product(Sizes(m, others)) : \A p \in 1 .. Product(Sizes(m, chosen)) :
          /\ Position(m, Indices(m, groups[g][p]), others) = g - 1
          /\ Position(m, Indices(m, groups[g][p]), chosen) = p - 1

LEMMA GroupsTold ==
    ASSUME NEW m, Laid(m), Named(m), NEW axes \in AxisLists(m),
           NEW chosen, chosen = ChosenAxes(m, axes), NEW others, others = Others(m, chosen),
           NEW groups, groups = ComputeReplicaGroups(m, axes)
    PROVE  AreGroups(m, groups, others, chosen)
<1> DEFINE N == MeshDevices(m)
           A == Product(Sizes(m, others))
           B == Product(Sizes(m, chosen))
           size == Product([k \in DOMAIN chosen |-> m.sizes[chosen[k]]])
           at(g, p) == {flat \in 0 .. N - 1 : /\ Position(m, Indices(m, flat), others) = g
                                              /\ Position(m, Indices(m, flat), chosen) = p}
           device(g, p) == IF at(g - 1, p - 1) = {} THEN 0 ELSE Max(at(g - 1, p - 1))
<1>1. chosen \in Seq(1 .. Len(m.sizes)) /\ \A j, k \in 1 .. Len(chosen) : chosen[j] = chosen[k] => j = k
  BY AxesChosen
<1>2. Split(m, others, chosen)
  BY <1>1, OthersSplit
<1>3. others \in Seq(1 .. Len(m.sizes))
  BY <1>2 DEF Split
<1>4. groups = [g \in 1 .. N \div size |-> [p \in 1 .. size |-> device(g, p)]]
  BY Zenon DEF ComputeReplicaGroups, ChosenAxes
<1>5. size = B
  <2>1. DOMAIN chosen = 1 .. Len(chosen)
    BY <1>1
  <2> QED
    BY <2>1, Zenon DEF Sizes
<1>6. N = A * B /\ N \in Nat /\ A \in Nat /\ B \in Nat \ {0}
  BY <1>1, <1>2, <1>3, DevicesArePairs, PositionsExist
<1> HIDE DEF N, A, B, size
<1>7. N \div size = A
  BY <1>5, <1>6, Quotient
<1>8. ASSUME NEW g \in 1 .. A, NEW p \in 1 .. B
      PROVE  /\ device(g, p) \in 0 .. N - 1
             /\ Position(m, Indices(m, device(g, p)), others) = g - 1
             /\ Position(m, Indices(m, device(g, p)), chosen) = p - 1
  <2>1. g - 1 \in 0 .. A - 1 /\ p - 1 \in 0 .. B - 1
    BY <1>6
  <2>2. PICK v \in 0 .. N - 1 : /\ Position(m, Indices(m, v), others) = g - 1
                                /\ Position(m, Indices(m, v), chosen) = p - 1
    BY <1>2, <2>1, PairTaken DEF N, A, B
  <2>3. \A w \in 0 .. N - 1 : /\ Position(m, Indices(m, w), others) = g - 1
                              /\ Position(m, Indices(m, w), chosen) = p - 1
                              => w = v
    BY <1>2, <2>2, PairOnce, Zenon DEF N
  <2>4. at(g - 1, p - 1) = {v}
    BY <2>2, <2>3
  <2>5. v \in Nat
    BY <1>6
  <2>6. Max({v}) = v
    BY <2>5, MaxOfOne
  <2> HIDE DEF at
  <2>7. device(g, p) = v
    BY <2>4, <2>6
  <2> HIDE DEF device
  <2> QED
    BY <2>2, <2>7, Zenon
<1> HIDE DEF device
<1>9. groups = [g \in 1 .. A |-> [p \in 1 .. B |-> device(g, p)]]
  BY <1>4, <1>5, <1>7, Zenon
<1>10. groups \in [1 .. A -> [1 .. B -> 0 .. N - 1]]
  BY <1>8, <1>9
<1>11. \A g \in 1 .. A, p \in 1 .. B : groups[g][p] = device(g, p)
  BY <1>9
<1>12. ASSUME NEW g \in 1 .. A, NEW p \in 1 .. B
       PROVE  /\ Position(m, Indices(m, groups[g][p]), others) = g - 1
              /\ Position(m, Indices(m, groups[g][p]), chosen) = p - 1
  BY <1>8, <1>11
<1> QED
  BY <1>2, <1>10, <1>12 DEF N, A, B, AreGroups

LEMMA GroupsDivide ==
    ASSUME NEW m, Laid(m), Named(m), NEW axes \in AxisLists(m)
    PROVE  GroupsRight(m, axes)
<1> DEFINE groups == ComputeReplicaGroups(m, axes)
           coordinates == CoordinateOf(m)
           chosen == ChosenAxes(m, axes)
           others == Others(m, chosen)
           N == MeshDevices(m)
           A == Product(Sizes(m, others))
           B == Product(Sizes(m, chosen))
           members == UNION {{<<g, p>> : p \in DOMAIN groups[g]} : g \in DOMAIN groups}
           at(x) == coordinates[groups[x[1]][x[2]]]
           place(x) == Indices(m, groups[x[1]][x[2]])
           together(c, d) == \A i \in DOMAIN m.sizes \ Range(chosen) : c[i] = d[i]
<1>1. GroupsRight(m, axes) <=>
        /\ {groups[x[1]][x[2]] : x \in members} = 0 .. N - 1
        /\ \A x, y \in members : /\ x[1] = y[1] <=> together(at(x), at(y))
                                 /\ x[1] = y[1] => (x[2] < y[2] <=> Precedes(at(x), at(y), chosen))
  BY DEF GroupsRight, ChosenAxes
<1> HIDE DEF groups, chosen, others
<1>2. /\ Split(m, others, chosen)
      /\ groups \in [1 .. A -> [1 .. B -> 0 .. N - 1]]
      /\ \A g \in 1 .. A, p \in 1 .. B : /\ Position(m, Indices(m, groups[g][p]), others) = g - 1
                                         /\ Position(m, Indices(m, groups[g][p]), chosen) = p - 1
  <2>1. chosen = ChosenAxes(m, axes) /\ others = Others(m, chosen) /\ groups = ComputeReplicaGroups(m, axes)
    BY DEF chosen, others, groups
  <2>2. AreGroups(m, groups, others, chosen)
    BY <2>1, GroupsTold
  <2> QED
    BY <2>2, Zenon DEF AreGroups
<1>3. /\ others \in Seq(1 .. Len(m.sizes)) /\ chosen \in Seq(1 .. Len(m.sizes))
      /\ \A i \in 1 .. Len(m.sizes) : (\E k \in 1 .. Len(others) : others[k] = i) <=> ~ \E k \in 1 .. Len(chosen) : chosen[k] = i
  BY <1>2, Zenon DEF Split
<1>4. A \in Nat /\ B \in Nat /\ N \in Nat
  BY <1>2, <1>3, PositionsExist, DevicesArePairs
<1>5. DOMAIN m.sizes = 1 .. Len(m.sizes) /\ DOMAIN chosen = 1 .. Len(chosen)
  BY <1>3 DEF Laid
<1> HIDE DEF coordinates, N, A, B
<1>6. members = (1 .. A) \X (1 .. B)
  <2>1. DOMAIN groups = 1 .. A /\ \A g \in 1 .. A : DOMAIN groups[g] = 1 .. B
    BY <1>2
  <2>2. \A t : t \in members <=> \E g \in 1 .. A : \E p \in 1 .. B : t = <<g, p>>
    <3> SUFFICES ASSUME NEW t
                 PROVE  t \in members <=> \E g \in 1 .. A : \E p \in 1 .. B : t = <<g, p>>
      OBVIOUS
    <3>1. t \in members <=> \E g \in DOMAIN groups : t \in {<<g, p>> : p \in DOMAIN groups[g]}
      OBVIOUS
    <3> HIDE DEF members
    <3>2. ASSUME t \in members
          PROVE  \E g \in 1 .. A : \E p \in 1 .. B : t = <<g, p>>
      <4>1. PICK g \in 1 .. A : t \in {<<g, p>> : p \in DOMAIN groups[g]}
        BY <2>1, <3>1, <3>2
      <4> QED
        BY <2>1, <4>1
    <3>3. ASSUME NEW g \in 1 .. A, NEW p \in 1 .. B, t = <<g, p>>
          PROVE  t \in members
      <4>1. t \in {<<g, q>> : q \in DOMAIN groups[g]}
        BY <2>1, <3>3
      <4> QED
        BY <2>1, <3>1, <4>1
    <3> QED
      BY <3>2, <3>3
  <2> HIDE DEF members
  <2> QED
    BY <2>2
<1> HIDE DEF members
<1>7. ASSUME NEW x \in members
      PROVE  /\ x[1] \in 1 .. A /\ x[2] \in 1 .. B /\ groups[x[1]][x[2]] \in 0 .. N - 1
             /\ Position(m, place(x), others) = x[1] - 1 /\ Position(m, place(x), chosen) = x[2] - 1
             /\ place(x) \in Places(m) /\ at(x) = place(x)
  <2>1. x[1] \in 1 .. A /\ x[2] \in 1 .. B
    BY <1>6
  <2>2. groups[x[1]][x[2]] \in 0 .. N - 1
    BY <1>2, <2>1
  <2>3. Position(m, place(x), others) = x[1] - 1 /\ Position(m, place(x), chosen) = x[2] - 1
    BY <1>2, <2>1, Zenon
  <2>4. place(x) \in Places(m) /\ at(x) = place(x)
    BY <2>2, IndicesPlace, CoordinateIs, Zenon DEF N, coordinates
  <2> QED
    BY <2>1, <2>2, <2>3, <2>4
<1> HIDE DEF place, at
<1>8. {groups[x[1]][x[2]] : x \in members} = 0 .. N - 1
  <2>1. ASSUME NEW v \in 0 .. N - 1
        PROVE  \E x \in members : groups[x[1]][x[2]] = v
    <3> DEFINE d == Indices(m, v)
               g == Position(m, d, others) + 1
               p == Position(m, d, chosen) + 1
    <3>1. d \in Places(m)
      BY IndicesPlace DEF N
    <3>2. Position(m, d, others) \in 0 .. A - 1 /\ Position(m, d, chosen) \in 0 .. B - 1
      <4> HIDE DEF d
      <4> QED
        BY <1>3, <3>1, PositionOrder DEF A, B
    <3>3. /\ g \in 1 .. A /\ p \in 1 .. B /\ g - 1 = Position(m, d, others) /\ p - 1 = Position(m, d, chosen)
      <4> HIDE DEF d
      <4> QED
        BY <1>4, <3>2
    <3> HIDE DEF g, p
    <3>4. groups[g][p] \in 0 .. N - 1
      BY <1>2, <3>3
    <3>5. /\ Position(m, Indices(m, groups[g][p]), others) = Position(m, d, others)
          /\ Position(m, Indices(m, groups[g][p]), chosen) = Position(m, d, chosen)
      BY <1>2, <3>3, Zenon
    <3>6. groups[g][p] = v
      BY <1>2, <3>4, <3>5, PairOnce, Zenon DEF N
    <3>7. <<g, p>> \in members /\ <<g, p>>[1] = g /\ <<g, p>>[2] = p
      BY <1>6, <3>3
    <3> QED
      BY <3>6, <3>7, Zenon
  <2>2. \A x \in members : groups[x[1]][x[2]] \in 0 .. N - 1
    BY <1>7
  <2> QED
    BY <2>1, <2>2
<1>9. ASSUME NEW x \in members, NEW y \in members
      PROVE  /\ x[1] = y[1] <=> together(at(x), at(y))
             /\ x[1] = y[1] => (x[2] < y[2] <=> Precedes(at(x), at(y), chosen))
  <2> DEFINE c == place(x)
             d == place(y)
  <2>1. /\ x[1] \in 1 .. A /\ x[2] \in 1 .. B /\ c \in Places(m) /\ at(x) = c
        /\ Position(m, c, others) = x[1] - 1 /\ Position(m, c, chosen) = x[2] - 1
    BY <1>7
  <2>2. /\ y[1] \in 1 .. A /\ y[2] \in 1 .. B /\ d \in Places(m) /\ at(y) = d
        /\ Position(m, d, others) = y[1] - 1 /\ Position(m, d, chosen) = y[2] - 1
    BY <1>7
  <2> HIDE DEF c, d
  <2>3. Position(m, c, others) = Position(m, d, others) <=> \A k \in 1 .. Len(others) : c[others[k]] = d[others[k]]
    BY <1>3, <2>1, <2>2, PositionOrder
  <2>4. Position(m, c, chosen) < Position(m, d, chosen) <=> Precedes(c, d, chosen)
    BY <1>3, <2>1, <2>2, PositionOrder
  <2>5. together(c, d) <=> \A k \in 1 .. Len(others) : c[others[k]] = d[others[k]]
    <3>1. \A i : i \in Range(chosen) <=> \E k \in 1 .. Len(chosen) : chosen[k] = i
      BY <1>5, Zenon DEF Range
    <3>2. \A k \in 1 .. Len(others) : others[k] \in 1 .. Len(m.sizes)
      BY <1>3, ListElements
    <3> QED
      BY <1>3, <1>5, <3>1, <3>2, Zenon
  <2> HIDE DEF together
  <2>6. x[1] = y[1] <=> Position(m, c, others) = Position(m, d, others)
    BY <1>4, <2>1, <2>2
  <2>7. x[2] < y[2] <=> Position(m, c, chosen) < Position(m, d, chosen)
    BY <1>4, <2>1, <2>2
  <2> QED
    BY <2>1, <2>2, <2>3, <2>4, <2>5, <2>6, <2>7, Zenon
<1> QED
  BY <1>1, <1>8, <1>9, Zenon

-------------------------------------------------------------------------------
(* The steps. *)

LEMMA ElementOf ==
    ASSUME NEW S, NEW s \in Seq(S), NEW i \in 1 .. Len(s)
    PROVE  s[i] \in S
  OBVIOUS

LEMMA Appended ==
    ASSUME NEW S, NEW s \in Seq(S), NEW x \in S
    PROVE  Append(s, x) \in Seq(S)
  OBVIOUS

USE BuilderAssumption

LEMMA NilIsMesh == NilMesh \in Meshes
<1>1. "" \in STRING \cup {""} /\ << >> \in Seq(STRING) /\ << >> \in Seq(Nat)
  OBVIOUS
<1> QED
  BY <1>1, Zenon DEF Meshes, NilMesh

LEMMA MeshMade ==
    ASSUME NEW m \in [name : STRING, sizes : Seq(Nat), axes : Seq(STRING)]
    PROVE  NewDeviceMesh(m.name, m.sizes, m.axes) \in Meshes
<1>1. [name |-> m.name, axes |-> m.axes, sizes |-> m.sizes] \in Meshes
  BY DEF Meshes
<1>2. NilMesh \in Meshes
  BY NilIsMesh
<1> QED
  BY <1>1, <1>2 DEF NewDeviceMesh, Mesh

LEMMA DevicesNumber ==
    ASSUME NEW ms \in Seq(Meshes)
    PROVE  MaxDevices(ms) \in Nat
<1>1. ASSUME NEW i \in 1 .. Len(ms)
      PROVE  MeshDevices(ms[i]) \in Nat
  <2>1. ms[i] \in Meshes
    OBVIOUS
  <2>2. ms[i].sizes \in Seq(Nat)
    BY <2>1 DEF Meshes
  <2> QED
    BY <2>2, ProductIsNumber DEF MeshDevices
<1>2. Len(ms) \in Nat
  OBVIOUS
<1> QED
  BY <1>1, <1>2, MostIsNumber

LEMMA FirstNumber ==
    ASSUME NEW T \in SUBSET Nat, T # {}
    PROVE  Min(T) \in T
<1>1. \E x \in T : \A y \in T : x <= y
  BY LeastNumber
<1>2. Min(T) = CHOOSE x \in T : \A y \in T : x <= y
  BY Zenon DEF Min
<1> QED
  BY <1>1, <1>2, Zenon

\* What was compiled does not change with the builder.
LEMMA StillCompiled ==
    ASSUME Compiled, changes \in Nat, changes' \in Nat, exec' = exec, changes <= changes',
           errors \subseteq errors'
    PROVE  Compiled'
<1>1. changes' <= 1 => changes <= 1
  OBVIOUS
<1>2. /\ "parameter" \notin errors' => "parameter" \notin errors
      /\ errors' = {} => errors = {}
  OBVIOUS
<1>3. ASSUME exec' # NoExecutable
      PROVE  /\ Consistent(exec.loaded) /\ exec.portable = exec.loaded.portable
             /\ exec.loaded.program \in Nat /\ exec.loaded.replicas \in Nat /\ exec.loaded.partitions \in Nat
             /\ exec.numDevices = exec.loaded.replicas * exec.loaded.partitions
             /\ "parameter" \notin errors' => exec.parameters = exec.loaded.program
             /\ changes' <= 1 /\ errors' = {} => /\ exec.loaded.replicas = AtLeastOne(exec.hlo[1])
                                               /\ exec.loaded.partitions = AtLeastOne(exec.hlo[2])
  BY <1>1, <1>2, <1>3, Zenon DEF Compiled
<1> QED
  BY <1>3, Zenon DEF Compiled

LEMMA BuilderInit == Init => BuilderInv
<1> SUFFICES ASSUME Init
             PROVE  BuilderInv
  OBVIOUS
<1> USE DEF Init
<1>1. BuilderTypes
  <2>1. /\ << >> \in Seq(Int) /\ << >> \in Seq(Meshes) /\ << >> \in Seq(Specs)
        /\ 0 \in Nat /\ TRUE \in BOOLEAN
    OBVIOUS
  <2>2. hlo \in [replicas : Nat, partitions : Nat, meshes : Seq(Meshes), current : BOOLEAN]
    BY <2>1
  <2> QED
    BY <2>1, <2>2, Zenon DEF BuilderTypes
<1>2. Distribution
  BY DEF Distribution, None
<1>3. Resolved
  BY DEF Resolved
<1>4. Compiled
  BY DEF Compiled
<1> QED
  BY <1>1, <1>2, <1>3, <1>4, NewChosen DEF BuilderInv

LEMMA SPMDStep ==
    ASSUME BuilderInv, NEW n \in Nat, DistributedSPMD(n)
    PROVE  BuilderInv'
<1> USE DEF BuilderInv, DistributedSPMD, program, outcome
<1>0. changes' = changes + 1 /\ changes \in Nat /\ changes' # 0 /\ (changes' <= 1 => changes = 0)
  BY DEF BuilderTypes
<1>1. BuilderTypes'
  <2>1. hlo' \in [replicas : Nat, partitions : Nat, meshes : Seq(Meshes), current : BOOLEAN]
    BY DEF BuilderTypes
  <2> QED
    BY <1>0, <2>1 DEF BuilderTypes
<1>2. Distribution'
  <2>1. /\ hlo'.replicas = n /\ hlo'.partitions = hlo.partitions /\ hlo'.meshes = hlo.meshes
        /\ hlo'.current = hlo.current
    BY DEF BuilderTypes
  <2> QED
    BY <1>0, <2>1 DEF Distribution, None
<1>3. Resolved'
  BY <1>0 DEF Resolved
<1>4. Compiled'
  BY <1>0, StillCompiled
<1> QED
  BY <1>1, <1>2, <1>3, <1>4

LEMMA AutoShardingStep ==
    ASSUME BuilderInv, NEW list \in MeshLists, DistributedAutoSharding(list)
    PROVE  BuilderInv'
<1> DEFINE made == [i \in DOMAIN list |-> NewDeviceMesh(list[i].name, list[i].sizes, list[i].axes)]
           bad == {i \in DOMAIN made : made[i] = NilMesh \/ MeshDevices(made[i]) > NumDevices}
           stop == IF bad = {} THEN Len(made) ELSE Min(bad)
           first == SubSeq(made, 1, stop - 1)
<1>0. changes' = changes + 1 /\ changes \in Nat /\ changes' # 0 /\ (changes' <= 1 => changes = 0)
  BY DEF BuilderInv, BuilderTypes, DistributedAutoSharding
<1>1. made \in Seq(Meshes) /\ Len(made) \in Nat /\ DOMAIN made = 1 .. Len(made)
  <2>1. list \in Seq([name : STRING, sizes : Seq(Nat), axes : Seq(STRING)])
    OBVIOUS
  <2>2. DOMAIN list = 1 .. Len(list) /\ Len(list) \in Nat
    BY <2>1
  <2>3. ASSUME NEW i \in 1 .. Len(list)
        PROVE  made[i] \in Meshes
    <3>1. list[i] \in [name : STRING, sizes : Seq(Nat), axes : Seq(STRING)]
      BY <2>1, ElementOf, Zenon
    <3>2. made[i] = NewDeviceMesh(list[i].name, list[i].sizes, list[i].axes)
      BY <2>2
    <3> HIDE DEF made
    <3> QED
      BY <3>1, <3>2, MeshMade
  <2>4. made = [i \in 1 .. Len(list) |-> made[i]]
    BY <2>2
  <2> HIDE DEF made
  <2> QED
    BY <2>2, <2>3, <2>4
<1>2. /\ strategy' = "AutoSharding" /\ deviceAssignment' = deviceAssignment
      /\ parameters' = parameters /\ inputs' = inputs /\ exec' = exec /\ config' = config
      /\ meshes' = [i \in DOMAIN made |-> IF i <= stop THEN made[i] ELSE NilMesh]
  BY DEF DistributedAutoSharding, program, outcome
<1>3. bad = {} => numDevices' = MaxDevices(made) /\ hlo' = ModuleFor(made) /\ errors' = errors
  BY DEF DistributedAutoSharding
<1>4. bad # {} => /\ numDevices' = MaxDevices(first) /\ errors' = errors \cup {"sharding"}
                  /\ hlo' = [hlo EXCEPT !.current = FALSE]
  BY DEF DistributedAutoSharding
<1>5. bad \subseteq 1 .. Len(made) /\ (bad # {} => stop \in 1 .. Len(made)) /\ (bad = {} => stop = Len(made))
  <2>1. bad \subseteq DOMAIN made
    OBVIOUS
  <2> HIDE DEF made, bad
  <2>2. bad \in SUBSET Nat /\ bad \subseteq 1 .. Len(made)
    BY <1>1, <2>1
  <2>3. ASSUME bad # {}
        PROVE  Min(bad) \in bad
    BY <2>2, <2>3, FirstNumber
  <2> QED
    BY <2>2, <2>3
<1> HIDE DEF made, bad, stop
<1>6. meshes' \in Seq(Meshes) /\ (bad = {} => meshes' = made)
  <2>1. NilMesh \in Meshes
    BY NilIsMesh
  <2>2. meshes' = [i \in 1 .. Len(made) |-> IF i <= stop THEN made[i] ELSE NilMesh]
    BY <1>1, <1>2
  <2>3. \A i \in 1 .. Len(made) : made[i] \in Meshes
    BY <1>1
  <2>4. meshes' \in Seq(Meshes)
    BY <1>1, <2>1, <2>2, <2>3
  <2>5. ASSUME bad = {}
        PROVE  meshes' = made
    <3>1. \A i \in 1 .. Len(made) : i <= stop
      BY <1>1, <1>5, <2>5
    <3> QED
      BY <1>1, <2>2, <3>1
  <2> QED
    BY <2>4, <2>5
<1>7. numDevices' \in Nat
  <2>1. MaxDevices(made) \in Nat
    BY <1>1, DevicesNumber
  <2>2. ASSUME bad # {}
        PROVE  MaxDevices(first) \in Nat
    <3>1. stop - 1 \in 0 .. Len(made)
      BY <1>1, <1>5, <2>2
    <3>2. first \in Seq(Meshes)
      BY <1>1, <3>1
    <3> QED
      BY <3>2, DevicesNumber
  <2> QED
    BY <1>3, <1>4, <2>1, <2>2
<1>8. BuilderTypes'
  <2>1. hlo' \in [replicas : Nat, partitions : Nat, meshes : Seq(Meshes), current : BOOLEAN]
    <3>1. CASE bad = {}
      <4>1. MaxDevices(made) \in Nat
        BY <1>1, DevicesNumber
      <4>2. hlo' = [replicas |-> 1, partitions |-> MaxDevices(made), meshes |-> made, current |-> TRUE]
        BY <1>3, <3>1 DEF ModuleFor, WithShardyMeshes
      <4> HIDE DEF first
      <4>3. 1 \in Nat /\ TRUE \in BOOLEAN
        OBVIOUS
      <4> QED
        BY <1>1, <4>1, <4>2, <4>3, Zenon
    <3>2. CASE bad # {}
      BY <1>4, <3>2 DEF BuilderInv, BuilderTypes
    <3> QED
      BY <3>1, <3>2
  <2> QED
    BY <1>0, <1>2, <1>6, <1>7, <2>1 DEF BuilderInv, BuilderTypes
<1>9. Distribution'
  <2>1. CASE bad = {}
    <3>1. hlo'.replicas = 1 /\ hlo'.partitions = numDevices' /\ hlo'.meshes = meshes'
      BY <1>3, <1>6, <2>1 DEF ModuleFor, WithShardyMeshes
    <3> QED
      BY <1>0, <1>2, <3>1 DEF Distribution, None
  <2>2. CASE bad # {}
    <3>1. hlo'.current = FALSE /\ errors' # {}
      BY <1>4, <2>2 DEF BuilderInv, BuilderTypes
    <3> QED
      BY <1>0, <1>2, <3>1 DEF Distribution, None
  <2> QED
    BY <2>1, <2>2
<1>10. Resolved'
  <2>1. ASSUME changes' <= 1, NEW i \in DOMAIN inputs'
        PROVE  inputs'[i] = NoSpec
    BY <1>0, <1>2, <2>1 DEF BuilderInv, Resolved
  <2> QED
    BY <1>0, <2>1 DEF Resolved
<1>11. errors \subseteq errors' /\ ("parameter" \notin errors' => "parameter" \notin errors)
  BY <1>3, <1>4
<1>12. Compiled'
  BY <1>0, <1>2, <1>11, StillCompiled DEF BuilderInv, BuilderTypes
<1> QED
  BY <1>2, <1>8, <1>9, <1>10, <1>11, <1>12 DEF BuilderInv

LEMMA AssignmentStep ==
    ASSUME BuilderInv, NEW devices \in Seq(Int), DeviceAssignment(devices)
    PROVE  BuilderInv'
<1> DEFINE bad == {i \in DOMAIN devices : devices[i] \notin 0 .. NumDevices - 1}
<1>1. /\ strategy' = strategy /\ numDevices' = numDevices /\ meshes' = meshes /\ hlo' = hlo
      /\ parameters' = parameters /\ inputs' = inputs /\ exec' = exec /\ config' = config
      /\ changes' = changes
  BY DEF DeviceAssignment, program, outcome
<1>2. /\ deviceAssignment' = IF bad = {} THEN devices ELSE SubSeq(devices, 1, Min(bad))
      /\ errors' = IF bad = {} THEN errors ELSE errors \cup {"assignment"}
  BY DEF DeviceAssignment
<1>3. deviceAssignment' \in Seq(Int) \ {<< >>}
  <2>0. Len(devices) \in Nat \ {0}
    BY DEF DeviceAssignment, AtLeastOne, BuilderInv, BuilderTypes
  <2>1. bad \in SUBSET Nat /\ bad \subseteq 1 .. Len(devices)
    OBVIOUS
  <2> HIDE DEF bad
  <2>2. ASSUME bad # {}
        PROVE  SubSeq(devices, 1, Min(bad)) \in Seq(Int) \ {<< >>}
    <3>1. Min(bad) \in 1 .. Len(devices)
      BY <2>1, <2>2, FirstNumber
    <3>2. SubSeq(devices, 1, Min(bad)) \in Seq(Int) /\ Len(SubSeq(devices, 1, Min(bad))) = Min(bad)
      BY <3>1
    <3> QED
      BY <3>1, <3>2
  <2>3. devices # << >>
    BY <2>0
  <2> QED
    BY <1>2, <2>2, <2>3
<1>4. errors \subseteq errors' /\ ("parameter" \notin errors' => "parameter" \notin errors)
  BY <1>2
<1>5. BuilderTypes'
  BY <1>1, <1>3 DEF BuilderInv, BuilderTypes
<1>6. Distribution'
  <2>1. errors' = {} => errors = {}
    BY <1>4
  <2> QED
    BY <1>1, <2>1 DEF BuilderInv, Distribution
<1>7. Resolved'
  BY <1>1, Zenon DEF BuilderInv, Resolved
<1>8. Compiled'
  BY <1>1, <1>4, StillCompiled DEF BuilderInv, BuilderTypes
<1> QED
  BY <1>1, <1>4, <1>5, <1>6, <1>7, <1>8 DEF BuilderInv

LEMMA ParameterStep ==
    ASSUME BuilderInv, NEW spec \in Specs, Parameter(spec)
    PROVE  BuilderInv'
<1> DEFINE accepted == spec = NoSpec \/ SpecAccepted(spec)
<1>1. /\ strategy' = strategy /\ numDevices' = numDevices /\ meshes' = meshes /\ hlo' = hlo
      /\ deviceAssignment' = deviceAssignment /\ exec' = exec /\ config' = config
      /\ changes' = changes /\ parameters' = Append(parameters, spec)
  BY DEF Parameter, setup, outcome
<1>2. /\ accepted => inputs' = Append(inputs, spec) /\ errors' = errors
      /\ ~accepted => errors' = errors \cup {"parameter"} /\ inputs' = inputs
  BY DEF Parameter
<1>3. ASSUME spec # NoSpec, SpecAccepted(spec), changes <= 1
      PROVE  /\ changes # 0
             /\ \E k \in DOMAIN hlo.meshes : hlo.meshes[k].name = spec.mesh /\ Validate(hlo.meshes[k], spec.axes)
  <2>1. PICK i \in DOMAIN meshes : /\ meshes[i].name = spec.mesh /\ hlo.current
                                   /\ Validate(meshes[i], spec.axes)
    BY <1>3 DEF SpecAccepted, MeshByName, ValidateShape
  <2>2. changes # 0
    BY <2>1 DEF BuilderInv, Distribution
  <2>3. hlo.meshes = meshes
    BY <1>3, <2>1 DEF BuilderInv, Distribution
  <2> QED
    BY <2>1, <2>2, <2>3
<1> HIDE DEF accepted
<1>4. errors \subseteq errors' /\ ("parameter" \notin errors' => "parameter" \notin errors /\ accepted)
  BY <1>2
<1>5. BuilderTypes'
  <2>1. parameters' \in Seq(Specs) /\ inputs' \in Seq(Specs)
    <3>1. parameters \in Seq(Specs) /\ inputs \in Seq(Specs)
      BY DEF BuilderInv, BuilderTypes
    <3>2. Append(parameters, spec) \in Seq(Specs) /\ Append(inputs, spec) \in Seq(Specs)
      BY <3>1, Appended
    <3> QED
      BY <1>1, <1>2, <3>1, <3>2, Zenon
  <2> QED
    BY <1>1, <2>1 DEF BuilderInv, BuilderTypes
<1>6. Distribution'
  <2>1. errors' = {} => errors = {}
    BY <1>4
  <2> QED
    BY <1>1, <2>1 DEF BuilderInv, Distribution
<1>7. Resolved'
  <2>1. CASE ~accepted
    BY <1>1, <1>2, <2>1, Zenon DEF BuilderInv, Resolved
  <2>2. CASE accepted
    <3>1. inputs' = Append(inputs, spec)
      BY <1>2, <2>2
    <3>2. ASSUME NEW i \in DOMAIN inputs'
          PROVE  \/ i \in DOMAIN inputs /\ inputs'[i] = inputs[i]
                 \/ inputs'[i] = spec
      <4>1. inputs \in Seq(Specs)
        BY DEF BuilderInv, BuilderTypes
      <4> QED
        BY <3>1, <4>1
    <3>3. changes = 0 => spec = NoSpec
      <4>1. changes = 0 => changes <= 1
        OBVIOUS
      <4> QED
        BY <1>3, <2>2, <4>1 DEF accepted
    <3>4. ASSUME changes' = 0, NEW i \in DOMAIN inputs'
          PROVE  inputs'[i] = NoSpec
      BY <1>1, <3>2, <3>3, <3>4, Zenon DEF BuilderInv, Resolved
    <3>5. ASSUME changes' <= 1, NEW i \in DOMAIN inputs', inputs'[i] # NoSpec
          PROVE  \E k \in DOMAIN hlo'.meshes :
                    hlo'.meshes[k].name = inputs'[i].mesh /\ Validate(hlo'.meshes[k], inputs'[i].axes)
      <4>1. CASE i \in DOMAIN inputs /\ inputs'[i] = inputs[i]
        BY <1>1, <3>5, <4>1, Zenon DEF BuilderInv, Resolved
      <4>2. CASE inputs'[i] = spec
        BY <1>1, <1>3, <2>2, <3>5, <4>2, Zenon DEF accepted
      <4> QED
        BY <3>2, <4>1, <4>2
    <3> QED
      BY <3>4, <3>5, Zenon DEF Resolved
  <2> QED
    BY <2>1, <2>2
<1>8. Compiled'
  BY <1>1, <1>4, StillCompiled DEF BuilderInv, BuilderTypes
<1>9. "parameter" \notin errors' => inputs' = parameters'
  BY <1>1, <1>2, <1>4 DEF BuilderInv
<1> QED
  BY <1>1, <1>5, <1>6, <1>7, <1>8, <1>9 DEF BuilderInv

LEMMA ReturnStep ==
    ASSUME BuilderInv, NEW owned \in BOOLEAN, Return(owned)
    PROVE  BuilderInv'
<1>1. /\ strategy' = strategy /\ numDevices' = numDevices /\ meshes' = meshes /\ hlo' = hlo
      /\ deviceAssignment' = deviceAssignment /\ exec' = exec /\ config' = config
      /\ changes' = changes /\ parameters' = parameters /\ inputs' = inputs
  BY DEF Return, setup, outcome
<1>2. errors \subseteq errors' /\ (errors' = {} => errors = {})
      /\ ("parameter" \notin errors' => "parameter" \notin errors)
  BY DEF Return
<1>3. BuilderTypes'
  BY <1>1 DEF BuilderInv, BuilderTypes
<1>4. Distribution'
  BY <1>1, <1>2 DEF BuilderInv, Distribution
<1>5. Resolved'
  BY <1>1, Zenon DEF BuilderInv, Resolved
<1>6. Compiled'
  BY <1>1, <1>2, StillCompiled DEF BuilderInv, BuilderTypes
<1> QED
  BY <1>1, <1>2, <1>3, <1>4, <1>5, <1>6 DEF BuilderInv

LEMMA CompileStep ==
    ASSUME BuilderInv, Compile
    PROVE  BuilderInv'
<1> DEFINE cc == Options
           loaded == LoadedExecutable(cc)
<1>1. /\ strategy' = strategy /\ numDevices' = numDevices /\ meshes' = meshes /\ hlo' = hlo
      /\ deviceAssignment' = deviceAssignment /\ config' = config
      /\ changes' = changes /\ parameters' = parameters /\ inputs' = inputs /\ errors' = errors
  BY DEF Compile, setup, program
<1>2. BuilderTypes' /\ Distribution'
  BY <1>1 DEF BuilderInv, BuilderTypes, Distribution
<1>3. Resolved'
  BY <1>1, Zenon DEF BuilderInv, Resolved
<1>4. Compiled'
  <2>1. CASE ~(Refusal(cc) = "none" /\ returned = "yes")
    <3>1. exec' = exec
      BY <2>1 DEF Compile
    <3> QED
      BY <1>1, <3>1, StillCompiled DEF BuilderInv, BuilderTypes
  <2>2. CASE Refusal(cc) = "none" /\ returned = "yes"
    <3>1. /\ exec'.loaded = loaded /\ exec'.parameters = Len(parameters)
          /\ exec'.numDevices = AssignedDevices
          /\ exec'.portable = (strategy = None /\ deviceAssignment = Nil)
          /\ exec'.hlo = <<hlo.replicas, hlo.partitions>>
      <4>1. exec' = [loaded |-> LoadedExecutable(Options), parameters |-> Len(parameters),
                     numDevices |-> AssignedDevices,
                     portable |-> strategy = None /\ deviceAssignment = Nil,
                     hlo |-> <<hlo.replicas, hlo.partitions>>]
        <5>1. Refusal(Options) = "none" /\ returned = "yes"
          BY <2>2
        <5> HIDE DEF cc, loaded
        <5> QED
          BY <5>1, Zenon DEF Compile
      <4> HIDE DEF cc
      <4> QED
        BY <4>1, Zenon DEF cc
    <3>2. Chosen(cc) /\ OptionsTell(cc)
      BY <2>2, OptionsTold DEF BuilderInv
    <3> HIDE DEF cc
    <3>3. /\ Consistent(loaded)
          /\ cc.replicas \in 1 .. NumDevices /\ cc.partitions \in 1 .. NumDevices
          /\ AtLeastOne(cc.replicas) = cc.replicas /\ AtLeastOne(cc.partitions) = cc.partitions
      BY <2>2, <3>2, LoadedConsistent DEF OptionsTell
    <3>4. /\ loaded.program = cc.program /\ loaded.replicas = cc.replicas
          /\ loaded.partitions = cc.partitions /\ loaded.portable = cc.portable
      BY <3>3 DEF LoadedExecutable
    <3> HIDE DEF loaded
    <3>5. loaded.program \in Nat /\ loaded.replicas \in Nat /\ loaded.partitions \in Nat
      BY <3>2, <3>3, <3>4 DEF OptionsTell, BuilderInv, BuilderTypes
    <3>6. exec'.portable = loaded.portable
      BY <3>1, <3>2, <3>4, Zenon DEF OptionsTell
    <3>7. exec'.numDevices = loaded.replicas * loaded.partitions
      BY <3>1, <3>2, <3>4 DEF OptionsTell
    <3>8. "parameter" \notin errors => exec'.parameters = loaded.program
      BY <3>1, <3>2, <3>4, Zenon DEF OptionsTell, BuilderInv
    <3>9. ASSUME changes <= 1, errors = {}
          PROVE  loaded.replicas = AtLeastOne(hlo.replicas) /\ loaded.partitions = AtLeastOne(hlo.partitions)
      <4>1. AtLeastOne(0) = 1 /\ AtLeastOne(1) = 1
        BY DEF AtLeastOne
      <4>2. CASE strategy = None
        BY <3>2, <3>4, <4>1, <4>2 DEF OptionsTell, BuilderInv, Distribution
      <4>3. CASE strategy # None
        <5>1. changes = 1
          BY <3>9, <4>3 DEF BuilderInv, BuilderTypes, Distribution
        <5>2. CASE strategy = "SPMD"
          BY <3>2, <3>3, <3>4, <4>1, <5>1, <5>2, Zenon DEF OptionsTell, BuilderInv, Distribution
        <5>3. CASE strategy = "AutoSharding"
          BY <3>2, <3>3, <3>4, <3>9, <4>1, <5>1, <5>3, Zenon DEF OptionsTell, BuilderInv, Distribution
        <5> QED
          BY <4>3, <5>2, <5>3 DEF BuilderInv, BuilderTypes
      <4> QED
        BY <4>2, <4>3
    <3>10. exec'.hlo[1] = hlo.replicas /\ exec'.hlo[2] = hlo.partitions
      BY <3>1
    <3> QED
      BY <1>1, <3>1, <3>3, <3>5, <3>6, <3>7, <3>8, <3>9, <3>10, Zenon DEF Compiled
  <2> QED
    BY <2>1, <2>2
<1> QED
  BY <1>1, <1>2, <1>3, <1>4 DEF BuilderInv

LEMMA ConfigureStep ==
    ASSUME BuilderInv, Configure
    PROVE  BuilderInv'
<1>1. /\ strategy' = strategy /\ numDevices' = numDevices /\ meshes' = meshes /\ hlo' = hlo
      /\ deviceAssignment' = deviceAssignment /\ exec' = exec
      /\ changes' = changes /\ parameters' = parameters /\ inputs' = inputs /\ errors' = errors
  BY DEF Configure, setup, program, outcome
<1>2. BuilderTypes' /\ Distribution'
  BY <1>1 DEF BuilderInv, BuilderTypes, Distribution
<1>3. Resolved'
  BY <1>1, Zenon DEF BuilderInv, Resolved
<1>4. Compiled'
  BY <1>1, StillCompiled DEF BuilderInv, BuilderTypes
<1>5. Chosen(config')
  <2>0. Chosen(config)
    BY DEF BuilderInv
  <2>1. CASE config' = WithStableHLO(config, 1)
    <3>1. 1 \in Nat
      OBVIOUS
    <3> QED
      BY <2>0, <2>1, <3>1, ProgramKept, Zenon
  <2>2. ASSUME NEW n \in 0 .. NumDevices + 1, config' = WithSPMD(config, n) \/ config' = WithShardy(config, n)
        PROVE  Chosen(config')
    <3>1. n \in Nat
      BY NumDevicesAssumption
    <3> QED
      BY <2>0, <2>2, <3>1, SPMDKept, ShardyKept, Zenon
  <2>3. ASSUME NEW devices \in Assignments \cup {<< >>, Nil}, config' = WithDeviceAssignment(config, devices)
        PROVE  Chosen(config')
    <3>1. devices \in Seq(Int) \cup {Nil}
      <4>1. << >> \in Seq(Int) /\ Assignments \subseteq Seq(Int)
        BY BuilderAssumption
      <4> QED
        BY <4>1, Zenon
    <3> QED
      BY <2>0, <2>3, <3>1, AssignmentKept, Zenon
  <2> QED
    BY <2>1, <2>2, <2>3 DEF Configure
<1> QED
  BY <1>1, <1>2, <1>3, <1>4, <1>5 DEF BuilderInv, Chosen, Sound

LEMMA BuilderStep ==
    ASSUME BuilderInv, [Next]_vars
    PROVE  BuilderInv'
<1>1. CASE UNCHANGED vars
  BY <1>1 DEF vars, BuilderInv, BuilderTypes, Distribution, Resolved, Compiled, Chosen, Sound
<1>2. ASSUME NEW n \in 0 .. NumDevices + 1, DistributedSPMD(n)
      PROVE  BuilderInv'
  <2>1. n \in Nat
    BY NumDevicesAssumption
  <2> QED
    BY <1>2, <2>1, SPMDStep
<1>3. ASSUME NEW devices \in Assignments, DeviceAssignment(devices)
      PROVE  BuilderInv'
  <2>1. devices \in Seq(Int)
    OBVIOUS
  <2> QED
    BY <1>3, <2>1, AssignmentStep
<1>4. ASSUME NEW spec \in ShardingSpecs \cup {NoSpec}, Parameter(spec)
      PROVE  BuilderInv'
  BY <1>4, ParameterStep DEF Specs
<1> QED
  BY <1>1, <1>2, <1>3, <1>4, AutoShardingStep, ReturnStep, CompileStep, ConfigureStep DEF Next

\* However a program is built, compiled and configured, the fields of the builder, what
\* it told the module and what the executable has satisfy the invariant (builder.go).
THEOREM BuilderInvariant == Spec => []BuilderInv
<1>1. BuilderInv /\ [Next]_vars => BuilderInv'
  BY BuilderStep
<1> QED
  BY <1>1, BuilderInit, PTL DEF Spec

-------------------------------------------------------------------------------
(* The properties. *)

\* The inputs that an executable of the builder asks for are those that the client can
\* divide: Execute of the backend and the client's execution count alike.
THEOREM InputsFit == Spec => []CheckedInputsFit
<1>1. BuilderInv => CheckedInputsFit
  <2> SUFFICES ASSUME BuilderInv, exec # NoExecutable, "parameter" \notin errors
               PROVE  /\ exec.portable = exec.loaded.portable
                      /\ \A count \in 0 .. MaxCalls * NumDevices :
                            ExecuteAccepts(exec, count) =>
                                count = exec.loaded.replicas * exec.loaded.partitions * exec.loaded.program
    BY DEF CheckedInputsFit
  <2>1. /\ exec.portable = exec.loaded.portable
        /\ exec.loaded.program \in Nat /\ exec.loaded.replicas \in Nat /\ exec.loaded.partitions \in Nat
        /\ exec.numDevices = exec.loaded.replicas * exec.loaded.partitions
        /\ exec.parameters = exec.loaded.program
    BY DEF BuilderInv, Compiled
  <2>2. exec.parameters * exec.numDevices = exec.loaded.replicas * exec.loaded.partitions * exec.loaded.program
    BY <2>1, Z3
  <2> QED
    BY <2>1, <2>2 DEF ExecuteAccepts
<1> QED
  BY <1>1, BuilderInvariant, PTL

\* Whatever the order of the options, of the builder or of a program that uses the
\* client itself, what Done lets pass is consistent, or asks for no partitions and has no
\* device; what the builder compiles is consistent (compile.go).
THEOREM OptionsAgree == Spec => []OptionsConsistent
<1>1. BuilderInv => OptionsConsistent
  BY LoadedConsistent DEF BuilderInv, Compiled, OptionsConsistent
<1> QED
  BY <1>1, BuilderInvariant, PTL

\* The attributes of the module say what the options say.
THEOREM ModuleSaysTheSame == Spec => []ModuleAgrees
<1>1. BuilderInv => ModuleAgrees
  BY DEF BuilderInv, Compiled, ModuleAgrees
<1> QED
  BY <1>1, BuilderInvariant, PTL

\* The shardings of the inputs are of the meshes that the module has.
THEOREM ShardingsOfModule == Spec => []ShardingsResolve
<1>1. BuilderInv => ShardingsResolve
  <2> SUFFICES ASSUME BuilderInv, changes <= 1, NEW spec \in Range(inputs) \ {NoSpec}
               PROVE  \E m \in Range(hlo.meshes) : m.name = spec.mesh /\ Validate(m, spec.axes)
    BY DEF ShardingsResolve
  <2>1. PICK i \in DOMAIN inputs : inputs[i] = spec
    BY Zenon DEF Range
  <2>2. PICK k \in DOMAIN hlo.meshes : /\ hlo.meshes[k].name = spec.mesh
                                       /\ Validate(hlo.meshes[k], spec.axes)
    BY <2>1, Zenon DEF BuilderInv, Resolved
  <2>3. hlo.meshes[k] \in Range(hlo.meshes)
    BY Zenon DEF Range
  <2> QED
    BY <2>2, <2>3, Zenon
<1> QED
  BY <1>1, BuilderInvariant, PTL

-------------------------------------------------------------------------------
(* The meshes are those that a program has asked for. *)

AskedFor == Range(meshes) \ {NilMesh} \subseteq MeshesAskedFor

LEMMA AskedForInit == Init => AskedFor
  BY DEF Init, AskedFor, Range

LEMMA AskedForStep ==
    ASSUME AskedFor, [Next]_vars
    PROVE  AskedFor'
<1>1. ASSUME meshes' = meshes
      PROVE  AskedFor'
  BY <1>1 DEF AskedFor
<1>2. ASSUME NEW list \in MeshLists, DistributedAutoSharding(list)
      PROVE  AskedFor'
  <2> DEFINE made == [i \in DOMAIN list |-> NewDeviceMesh(list[i].name, list[i].sizes, list[i].axes)]
             bad == {i \in DOMAIN made : made[i] = NilMesh \/ MeshDevices(made[i]) > NumDevices}
             stop == IF bad = {} THEN Len(made) ELSE Min(bad)
  <2>1. meshes' = [i \in DOMAIN made |-> IF i <= stop THEN made[i] ELSE NilMesh]
    BY <1>2 DEF DistributedAutoSharding
  <2> HIDE DEF stop
  <2>2. ASSUME NEW m \in Range(meshes') \ {NilMesh}
        PROVE  m \in MeshesAskedFor
    <3>1. PICK i \in DOMAIN list : m = NewDeviceMesh(list[i].name, list[i].sizes, list[i].axes)
      <4>1. PICK i \in DOMAIN meshes' : m = meshes'[i]
        BY Zenon DEF Range
      <4>2. i \in DOMAIN list
        BY <2>1, <4>1
      <4>3. m = made[i]
        <5> HIDE DEF made
        <5> QED
          BY <2>1, <4>1
      <4> QED
        BY <4>2, <4>3
    <3>2. list[i] \in UNION {Range(l) : l \in MeshLists}
      <4>1. list[i] \in Range(list)
        BY Zenon DEF Range
      <4> QED
        BY <4>1
    <3> QED
      BY <3>1, <3>2 DEF MeshesAskedFor
  <2> QED
    BY <2>2 DEF AskedFor
<1>3. CASE UNCHANGED vars
  BY <1>1, <1>3 DEF vars
<1>4. ASSUME NEW n \in 0 .. NumDevices + 1, DistributedSPMD(n)
      PROVE  meshes' = meshes
  BY <1>4 DEF DistributedSPMD
<1>5. ASSUME NEW devices \in Assignments, DeviceAssignment(devices)
      PROVE  meshes' = meshes
  BY <1>5 DEF DeviceAssignment
<1>6. ASSUME NEW spec \in ShardingSpecs \cup {NoSpec}, Parameter(spec)
      PROVE  meshes' = meshes
  BY <1>6 DEF Parameter, setup
<1>7. ASSUME NEW owned \in BOOLEAN, Return(owned)
      PROVE  meshes' = meshes
  BY <1>7 DEF Return, setup
<1>8. Compile \/ Configure => meshes' = meshes
  BY DEF Compile, Configure, setup
<1> QED
  BY <1>1, <1>2, <1>3, <1>4, <1>5, <1>6, <1>7, <1>8 DEF Next

\* NewDeviceMesh takes an axis of no devices, by which ComputeReplicaGroups would divide.
AxesHaveDevices == \A list \in MeshLists : \A i \in DOMAIN list : list[i].sizes \in Seq(Nat \ {0})

LEMMA MeshesDivided ==
    ASSUME AxesHaveDevices
    PROVE  MeshesAskedFor \subseteq DividedMeshes
<1> SUFFICES ASSUME NEW m \in MeshesAskedFor
             PROVE  \A axes \in AxisLists(m) : GroupsRight(m, axes)
  BY DEF DividedMeshes
<1>1. PICK x \in UNION {Range(list) : list \in MeshLists} : m = NewDeviceMesh(x.name, x.sizes, x.axes)
  BY DEF MeshesAskedFor
<1>2. PICK list \in MeshLists : x \in Range(list)
  OBVIOUS
<1>3. PICK i \in DOMAIN list : x = list[i]
  BY <1>2, Zenon DEF Range
<1>4. x.sizes \in Seq(Nat \ {0}) /\ x.axes \in Seq(STRING)
  <2>1. list \in Seq([name : STRING, sizes : Seq(Nat), axes : Seq(STRING)])
    BY BuilderAssumption
  <2>2. x \in [name : STRING, sizes : Seq(Nat), axes : Seq(STRING)]
    <3>1. i \in 1 .. Len(list)
      BY <2>1
    <3> QED
      BY <1>3, <2>1, <3>1, ListElements
  <2> QED
    BY <1>3, <2>2 DEF AxesHaveDevices
<1>5. m.sizes = x.sizes /\ m.axes = x.axes /\ Len(x.axes) = Len(x.sizes)
  <2>1. m # NilMesh
    BY DEF MeshesAskedFor
  <2> QED
    BY <1>1, <2>1 DEF NewDeviceMesh, Mesh
<1>6. Laid(m) /\ Named(m)
  BY <1>4, <1>5 DEF Laid, Named
<1> QED
  BY <1>6, GroupsDivide

\* Whatever meshes a program asks for, with devices along every axis, and along which axes of
\* them: the replica groups have every device once, together with those that differ from
\* it in these axes only, in the order of the axes (ComputeReplicaGroups).
THEOREM GroupsOfMeshes ==
    ASSUME AxesHaveDevices
    PROVE  Spec => []GroupsPartition
<1>1. AskedFor /\ [Next]_vars => AskedFor'
  BY AskedForStep
<1>2. AskedFor => GroupsPartition
  BY MeshesDivided DEF AskedFor, GroupsPartition
<1> QED
  BY <1>1, <1>2, AskedForInit, PTL DEF Spec
===============================================================================
