-------------------------- MODULE XlaFunctionsProofs --------------------------
(***************************************************************************)
(* The text that is written is well formed, for any number of functions,       *)
(* closures and statements: names are unique where they can be seen, operands    *)
(* are visible where they are used, and statements agree with the functions       *)
(* that they take or call.                                                       *)
(*                                                                             *)
(* A call of the backend is several changes of the program in one step.  What is  *)
(* proved is therefore about one program fs and another, fs2, and the ancestors A  *)
(* of the functions of each.                                                    *)
(***************************************************************************)
EXTENDS Functions, XlaFunctions, FiniteSetTheorems, TLAPS
LOCAL INSTANCE FiniteSetsExt

-------------------------------------------------------------------------------
(* Numbers and recursive functions.  The statements are about sets, since a    *)
(* theorem about operators cannot be instantiated by the provers.               *)

\* Otherwise the numbers below the whole set, which are finitely many, would be
\* as many as their successors, of which zero is none.
LEMMA LeastNumber ==
    ASSUME NEW T \in SUBSET Nat, T # {}
    PROVE  \E x \in T : \A y \in T : x <= y
<1> DEFINE L == {n \in Nat : \A y \in T : n <= y}
<1> SUFFICES ASSUME L \cap T = {}
             PROVE  FALSE
  OBVIOUS
<1>1. PICK t \in T : t \in Nat
  OBVIOUS
<1>2. L \in SUBSET (0 .. t)
  BY <1>1
<1>3. IsFiniteSet(L)
  <2>1. IsFiniteSet(0 .. t)
    BY <1>1, FS_Interval
  <2> QED
    BY <1>2, <2>1, FS_Subset
<1>4. 0 \in L
  OBVIOUS
<1>5. ASSUME NEW n \in L
      PROVE  n + 1 \in L \ {0}
  <2>1. n \in Nat /\ n \notin T
    OBVIOUS
  <2>2. \A y \in T : n + 1 <= y
    BY <2>1
  <2> QED
    BY <2>1, <2>2
<1> HIDE DEF L
<1>6. Cardinality(L) \in Nat /\ IsFiniteSet(L \ {0}) /\ Cardinality(L \ {0}) = Cardinality(L) - 1
  BY <1>3, <1>4, FS_CardinalityType, FS_RemoveElement
<1> DEFINE next == [n \in L |-> n + 1]
<1>7. next \in [L -> L \ {0}] /\ \A n \in L : next[n] = n + 1
  BY <1>5
<1> HIDE DEF next
<1>8. Cardinality(L \ {0}) < Cardinality(L)
  BY <1>6
<1>9. \E x, y \in L : x # y /\ next[x] = next[y]
  BY <1>3, <1>6, <1>7, <1>8, FS_PigeonHole
<1> QED
  BY <1>7, <1>9 DEF L

\* A set that has zero, and with a number the next one, has all numbers.
LEMMA NumberInduction ==
    ASSUME NEW S, 0 \in S, \A n \in Nat : n \in S => n + 1 \in S
    PROVE  Nat \subseteq S
<1> SUFFICES ASSUME Nat \ S # {}
             PROVE  FALSE
  OBVIOUS
<1>1. PICK n \in Nat \ S : \A y \in Nat \ S : n <= y
  BY LeastNumber
<1>2. n # 0 /\ n - 1 \in Nat /\ n - 1 \in S
  BY <1>1
<1> QED
  BY <1>1, <1>2

\* A definition by recursion over some numbers D, up to N: the value at Base is
\* first, and elsewhere step applied to the value at a smaller number, up.
IsRecursion(N, D, Base, V, up, first, step) ==
    /\ N \in Nat /\ D \subseteq 0 .. N /\ Base \subseteq D
    /\ up \in [D \ Base -> D] /\ \A d \in D \ Base : up[d] < d
    /\ first \in [Base -> V] /\ step \in [D \ Base -> [V -> V]]
IsSolution(r, D, Base, V, up, first, step) ==
    /\ r \in [D -> V]
    /\ \A d \in D : r[d] = IF d \in Base THEN first[d] ELSE step[d][r[up[d]]]

LEMMA RecursionExists ==
    ASSUME NEW N, NEW D, NEW V, NEW Base, NEW up, NEW first, NEW step,
           IsRecursion(N, D, Base, V, up, first, step)
    PROVE  \E r : IsSolution(r, D, Base, V, up, first, step)
<1> USE DEF IsRecursion, IsSolution
<1> DEFINE Solves(r, n) ==
               \A d \in D : d < n => r[d] = IF d \in Base THEN first[d] ELSE step[d][r[up[d]]]
           Below(n) == {d \in D : d < n}
           S == {n \in Nat : \E r \in [Below(n) -> V] : Solves(r, n)}
<1>0. \A d \in D : d \in Nat /\ 0 <= d /\ d <= N
  OBVIOUS
<1>1. 0 \in S
  <2>1. \A d \in D : ~(d < 0)
    BY <1>0
  <2>2. [d \in Below(0) |-> first[d]] \in [Below(0) -> V]
    BY <2>1
  <2>3. Solves([d \in Below(0) |-> first[d]], 0)
    OBVIOUS
  <2> QED
    BY <2>2, <2>3
<1>2. ASSUME NEW n \in Nat, n \in S
      PROVE  n + 1 \in S
  <2>1. PICK r \in [Below(n) -> V] : Solves(r, n)
    BY <1>2
  <2> DEFINE last == IF n \in Base THEN first[n] ELSE step[n][r[up[n]]]
             q == [d \in Below(n + 1) |-> IF d = n THEN last ELSE r[d]]
  <2>2. \A d \in Below(n + 1) : d = n \/ d \in Below(n)
    OBVIOUS
  <2>3. ASSUME n \in D
        PROVE  last \in V
    <3>1. CASE n \in Base
      BY <3>1
    <3>2. CASE n \notin Base
      <4>1. up[n] \in Below(n)
        BY <2>3, <3>2
      <4> QED
        BY <2>3, <3>2, <4>1
    <3> QED
      BY <3>1, <3>2
  <2>4. q \in [Below(n + 1) -> V]
    BY <2>2, <2>3
  <2>5. ASSUME NEW d \in D, d < n + 1
        PROVE  q[d] = IF d \in Base THEN first[d] ELSE step[d][q[up[d]]]
    <3>1. d \in Below(n + 1)
      BY <2>5
    <3>2. ASSUME d \notin Base
          PROVE  q[up[d]] = r[up[d]]
      <4>1. up[d] \in D /\ up[d] < d /\ up[d] \in Nat /\ d \in Nat
        BY <1>0, <3>2
      <4>2. up[d] < n /\ up[d] < n + 1 /\ up[d] # n
        BY <4>1, <2>5
      <4> QED
        BY <4>1, <4>2
    <3>3. CASE d = n
      BY <3>1, <3>2, <3>3
    <3>4. CASE d # n
      <4>1. d < n /\ q[d] = r[d]
        BY <3>1, <3>4
      <4> QED
        BY <2>1, <3>2, <4>1
    <3> QED
      BY <3>3, <3>4
  <2> HIDE DEF q
  <2> QED
    BY <2>4, <2>5
<1> HIDE DEF S
<1>3. N + 1 \in S
  BY <1>1, <1>2, NumberInduction
<1>5. PICK r \in [Below(N + 1) -> V] : Solves(r, N + 1)
  BY <1>3 DEF S
<1>6. \A d \in D : d < N + 1
  BY <1>0
<1>7. Below(N + 1) = D
  BY <1>6, Zenon
<1> QED
  BY <1>5, <1>6, <1>7

-------------------------------------------------------------------------------
(* Programs. *)

Given == GivenNames \cup {"lhs", "rhs"}
Names == ({"arg", "tmp"} \X Nat) \cup ({"given"} \X Given)
Statements == [op : {"op", "FuncReturn", "Reduce", "While", "If", "Call"},
               inputs : Seq(Names), outputs : Seq({"tmp"} \X Nat), closures : Seq(Nat), callee : Nat]
FnRecords == [name : {"main", "other", "closure"}, parent : Nat, inputs : Seq(Names),
              statements : Seq(Statements), outputs : Nat, returned : BOOLEAN,
              nextArgID : Nat, nextTmpID : Nat]

\* A function is made after the one it is a closure of.
Forest(fs) == fs \in Seq(FnRecords) /\ \A f \in DOMAIN fs : fs[f].parent < f

AreAncestors(A, fs) ==
    /\ A \in [DOMAIN fs -> SUBSET Nat]
    /\ \A f \in DOMAIN fs : A[f] = IF fs[f].parent = 0 THEN {f} ELSE {f} \cup A[fs[f].parent]
Tree(fs, A) == Forest(fs) /\ AreAncestors(A, fs)

Root(A, f) == Min(A[f])

-------------------------------------------------------------------------------
(* The names of a program. *)

Places(fn) ==
    {<<0, i>> : i \in DOMAIN fn.inputs}
        \cup UNION {{<<k, i>> : i \in DOMAIN fn.statements[k].outputs} : k \in DOMAIN fn.statements}
NameOf(fn, d) == IF d[1] = 0 THEN fn.inputs[d[2]] ELSE fn.statements[d[1]].outputs[d[2]]

\* A name that was counted is below the counter at the root.
CountedName(x, root) ==
    \/ x[1] = "given"
    \/ \E n \in Nat : x = <<"arg", n>> /\ n < root.nextArgID
    \/ \E n \in Nat : x = <<"tmp", n>> /\ n < root.nextTmpID
Counted(fs, A) ==
    \A f \in DOMAIN fs : \A d \in Places(fs[f]) : CountedName(NameOf(fs[f], d), fs[Root(A, f)])
Unique(fs, A) ==
    \A f, g \in DOMAIN fs : Root(A, f) = Root(A, g) =>
        \A d \in Places(fs[f]), e \in Places(fs[g]) :
            NameOf(fs[f], d) = NameOf(fs[g], e) => <<f, d>> = <<g, e>> \/ (f # g /\ NameOf(fs[f], d)[1] = "given")
NamesInv(fs, A) == Counted(fs, A) /\ Unique(fs, A)

-------------------------------------------------------------------------------
(* The statements of a program. *)

\* What a statement takes is complete, and has the signature it had.
Fits(fs, f, s) ==
    /\ \A i \in DOMAIN s.closures :
          s.closures[i] \in DOMAIN fs /\ fs[s.closures[i]].parent = f /\ fs[s.closures[i]].returned
    /\ s.op = "Call" => /\ s.callee \in DOMAIN fs /\ fs[s.callee].returned
                        /\ Len(s.inputs) = Len(fs[s.callee].inputs)
                        /\ Len(s.outputs) = fs[s.callee].outputs
    /\ s.op = "Reduce" => 1 \in DOMAIN s.closures /\ Len(fs[s.closures[1]].inputs) = 2
    /\ s.op = "If" => \A i \in {1, 2} : i \in DOMAIN s.closures /\ fs[s.closures[i]].outputs = Len(s.outputs)
    /\ s.op = "While" => \A i \in {1, 2} : i \in DOMAIN s.closures /\ Len(fs[s.closures[i]].inputs) = 1
FitsInv(fs) == \A f \in DOMAIN fs : \A k \in DOMAIN fs[f].statements : Fits(fs, f, fs[f].statements[k])

-------------------------------------------------------------------------------
(* What the operands of a program can see. *)

DefinedIn(fn) == Range(fn.inputs) \cup UNION {Range(s.outputs) : s \in Range(fn.statements)}
BeforeIn(fn, k) == Range(fn.inputs) \cup UNION {Range(fn.statements[i].outputs) : i \in 1 .. k - 1}
SitesIn(fs, c) == {k \in DOMAIN fs[fs[c].parent].statements : c \in Range(fs[fs[c].parent].statements[k].closures)}
ScopeIn(fs, c) ==
    {x \in DefinedIn(fs[fs[c].parent]) : \A k \in SitesIn(fs, c) : x \in BeforeIn(fs[fs[c].parent], k)}
Inner(fs, A, f) == {c \in A[f] : fs[c].parent # 0}
AroundIn(fs, A, f) == UNION {ScopeIn(fs, c) : c \in Inner(fs, A, f)}

\* A function that is not written yet, but will be if the closures it is in are passed
\* on.  A closure cannot be passed on any more when the function around it has returned.
MayBeWritten(fs, A, f) ==
    \A c \in Inner(fs, A, f) : SitesIn(fs, c) # {} \/ ~fs[fs[c].parent].returned
SeenInv(fs, A) ==
    \A f \in DOMAIN fs : MayBeWritten(fs, A, f) =>
        \A k \in DOMAIN fs[f].statements :
            Range(fs[f].statements[k].inputs) \subseteq AroundIn(fs, A, f) \cup BeforeIn(fs[f], k)

-------------------------------------------------------------------------------
(* The invariant. *)

\* Names do not depend on when the program ends its functions; statements do.
ProgramInv(fs, A) == Tree(fs, A) /\ NamesInv(fs, A) /\ (Disciplined => FitsInv(fs) /\ SeenInv(fs, A))
Kept(fs, c) ==
    c # 0 => c \in DOMAIN fs /\ fs[c].returned /\ (Disciplined => Len(fs[c].inputs) = 2)
FunctionsInv == (\E A : ProgramInv(functions, A)) /\ cacheReductions \in Nat /\ Kept(functions, cacheReductions)

-------------------------------------------------------------------------------
(* Functions and the functions around them. *)

LEMMA ElementOf ==
    ASSUME NEW S, NEW s \in Seq(S), NEW i \in 1 .. Len(s)
    PROVE  s[i] \in S
  OBVIOUS

\* What holds of a function when it holds of the one around it holds of all.
LEMMA TreeInduction ==
    ASSUME NEW fs, Forest(fs), NEW S,
           \A f \in DOMAIN fs : fs[f].parent = 0 \/ fs[f].parent \in S => f \in S
    PROVE  DOMAIN fs \subseteq S
<1> SUFFICES ASSUME DOMAIN fs \ S # {}
             PROVE  FALSE
  OBVIOUS
<1>0. fs \in Seq(FnRecords) /\ DOMAIN fs = 1 .. Len(fs) /\ Len(fs) \in Nat
  BY DEF Forest
<1>1. DOMAIN fs \ S \in SUBSET Nat
  BY <1>0
<1>2. PICK f \in DOMAIN fs \ S : \A g \in DOMAIN fs \ S : f <= g
  BY <1>1, LeastNumber
<1>3. fs[f].parent \in Nat /\ fs[f].parent < f
  <2>1. fs[f] \in FnRecords
    BY <1>0, ElementOf
  <2> QED
    BY <2>1 DEF Forest, FnRecords
<1>4. fs[f].parent = 0 \/ fs[f].parent \in DOMAIN fs
  BY <1>0, <1>2, <1>3
<1>5. fs[f].parent # 0 => fs[f].parent \in S
  BY <1>0, <1>2, <1>3, <1>4
<1> QED
  BY <1>2, <1>5

LEMMA ParentIn ==
    ASSUME NEW fs, Forest(fs), NEW f \in DOMAIN fs
    PROVE  /\ f \in Nat /\ f # 0 /\ fs[f] \in FnRecords /\ fs[f].parent \in Nat /\ fs[f].parent < f
           /\ fs[f].parent # 0 => fs[f].parent \in DOMAIN fs
<1>1. fs \in Seq(FnRecords) /\ DOMAIN fs = 1 .. Len(fs) /\ Len(fs) \in Nat
  BY DEF Forest
<1>2. fs[f] \in FnRecords
  BY <1>1
<1>3. fs[f].parent \in Nat /\ fs[f].parent < f
  BY <1>2 DEF Forest, FnRecords
<1> QED
  BY <1>1, <1>2, <1>3

\* The recursion of the ancestors has a solution, and only one.
LEMMA AncestorsExist ==
    ASSUME NEW fs, Forest(fs)
    PROVE  \E A : AreAncestors(A, fs)
<1> DEFINE D == DOMAIN fs
           Base == {f \in D : fs[f].parent = 0}
           up == [f \in D \ Base |-> fs[f].parent]
           first == [f \in Base |-> {f}]
           step == [f \in D \ Base |-> [s \in SUBSET Nat |-> {f} \cup s]]
<1>1. Len(fs) \in Nat /\ D \subseteq 0 .. Len(fs)
  BY DEF Forest
<1>2. \A f \in D : f \in Nat
  BY ParentIn
<1>3. up \in [D \ Base -> D] /\ \A f \in D \ Base : up[f] < f
  BY ParentIn
<1>4. first \in [Base -> SUBSET Nat]
  BY <1>2
<1>5. step \in [D \ Base -> [SUBSET Nat -> SUBSET Nat]]
  BY <1>2
<1>6. IsRecursion(Len(fs), D, Base, SUBSET Nat, up, first, step)
  <2>1. Base \subseteq D
    OBVIOUS
  <2> HIDE DEF D, Base, up, first, step
  <2> QED
    BY <1>1, <1>3, <1>4, <1>5, <2>1 DEF IsRecursion
<1>7. PICK A : IsSolution(A, D, Base, SUBSET Nat, up, first, step)
  <2> HIDE DEF D, Base, up, first, step
  <2> QED
    BY <1>6, RecursionExists
<1>8. A \in [D -> SUBSET Nat]
  BY <1>7 DEF IsSolution
<1>9. ASSUME NEW f \in D
      PROVE  A[f] = IF fs[f].parent = 0 THEN {f} ELSE {f} \cup A[fs[f].parent]
  <2>1. CASE f \in Base
    <3>1. A[f] = first[f]
      BY <1>7, <2>1, Zenon DEF IsSolution
    <3> QED
      BY <2>1, <3>1
  <2>2. CASE f \in D \ Base
    <3>1. A[f] = step[f][A[up[f]]]
      BY <1>7, <2>2, Zenon DEF IsSolution
    <3>2. up[f] = fs[f].parent /\ A[up[f]] \in SUBSET Nat
      BY <1>3, <1>8, <2>2
    <3>3. step[f][A[up[f]]] = {f} \cup A[up[f]]
      BY <2>2, <3>2
    <3> QED
      BY <2>2, <3>1, <3>2, <3>3
  <2> QED
    BY <2>1, <2>2
<1> QED
  BY <1>8, <1>9, Zenon DEF AreAncestors

LEMMA AncestorsSolve ==
    ASSUME Forest(functions)
    PROVE  Tree(functions, ancestors)
<1> DEFINE Solves(A) == A = [f \in IDs |-> IF functions[f].parent = 0 THEN {f} ELSE {f} \cup A[functions[f].parent]]
<1>1. PICK A : AreAncestors(A, functions)
  BY AncestorsExist
<1>2. A = [f \in IDs |-> A[f]]
  BY <1>1, Zenon DEF AreAncestors, IDs
<1>3. Solves(A)
  BY <1>1, <1>2, Zenon DEF AreAncestors, IDs
<1>4. ancestors = CHOOSE B : Solves(B)
  BY DEF ancestors
<1>5. Solves(ancestors)
  BY <1>3, <1>4, Zenon
<1> HIDE DEF Solves
<1>6. IDs \subseteq {f \in IDs : ancestors[f] \in SUBSET Nat}
  <2> DEFINE S == {f \in IDs : ancestors[f] \in SUBSET Nat}
  <2>1. ASSUME NEW f \in DOMAIN functions, functions[f].parent = 0 \/ functions[f].parent \in S
        PROVE  f \in S
    <3>1. ancestors[f] = IF functions[f].parent = 0 THEN {f} ELSE {f} \cup ancestors[functions[f].parent]
      BY <1>5 DEF Solves, IDs
    <3>2. f \in Nat
      BY ParentIn
    <3>3. CASE functions[f].parent = 0
      BY <3>1, <3>2, <3>3 DEF IDs
    <3>4. CASE functions[f].parent \in S /\ functions[f].parent # 0
      BY <3>1, <3>2, <3>4 DEF IDs
    <3> QED
      BY <2>1, <3>3, <3>4
  <2> HIDE DEF S
  <2> QED
    BY <2>1, TreeInduction DEF IDs, S
<1>7. ancestors \in [IDs -> SUBSET Nat]
  <2>1. \A f \in IDs : ancestors[f] \in SUBSET Nat
    BY <1>6
  <2>2. ancestors = [f \in IDs |-> ancestors[f]]
    BY <1>5 DEF Solves
  <2> QED
    BY <2>1, <2>2
<1>8. \A f \in IDs : ancestors[f] = IF functions[f].parent = 0 THEN {f} ELSE {f} \cup ancestors[functions[f].parent]
  BY <1>5 DEF Solves
<1> QED
  BY <1>7, <1>8 DEF Tree, AreAncestors, IDs

LEMMA AncestorsSame ==
    ASSUME NEW fs, NEW A, Tree(fs, A), NEW fs2, NEW A2, Tree(fs2, A2), DOMAIN fs \subseteq DOMAIN fs2,
           \A f \in DOMAIN fs : fs2[f].parent = fs[f].parent
    PROVE  \A f \in DOMAIN fs : A2[f] = A[f]
<1> DEFINE S == {f \in DOMAIN fs : A2[f] = A[f]}
<1>1. ASSUME NEW f \in DOMAIN fs, fs[f].parent = 0 \/ fs[f].parent \in S
      PROVE  f \in S
  <2>1. /\ A[f] = IF fs[f].parent = 0 THEN {f} ELSE {f} \cup A[fs[f].parent]
        /\ A2[f] = IF fs[f].parent = 0 THEN {f} ELSE {f} \cup A2[fs[f].parent]
    BY Zenon DEF Tree, AreAncestors
  <2> QED
    BY <1>1, <2>1
<1> HIDE DEF S
<1>2. DOMAIN fs \subseteq S
  BY <1>1, TreeInduction DEF Tree
<1> QED
  BY <1>2 DEF S

\* A function is its own ancestor, and comes after the others.
LEMMA AncestorsBelow ==
    ASSUME NEW fs, NEW A, Tree(fs, A)
    PROVE  \A f \in DOMAIN fs : /\ f \in A[f] /\ A[f] \subseteq DOMAIN fs /\ A[f] \in SUBSET Nat
                                /\ \A g \in A[f] : g <= f
<1> DEFINE S == {f \in DOMAIN fs : A[f] \subseteq DOMAIN fs /\ \A g \in A[f] : g <= f}
<1>1. ASSUME NEW f \in DOMAIN fs, fs[f].parent = 0 \/ fs[f].parent \in S
      PROVE  f \in S
  <2>1. A[f] = IF fs[f].parent = 0 THEN {f} ELSE {f} \cup A[fs[f].parent]
    BY Zenon DEF Tree, AreAncestors
  <2>2. f \in Nat /\ fs[f].parent \in Nat /\ fs[f].parent < f /\ A \in [DOMAIN fs -> SUBSET Nat]
    BY ParentIn DEF Tree, AreAncestors
  <2>3. CASE fs[f].parent = 0
    BY <2>1, <2>2, <2>3
  <2>4. CASE fs[f].parent # 0
    <3>1. \A g \in A[fs[f].parent] : g \in Nat /\ g <= fs[f].parent /\ g \in DOMAIN fs
      BY <1>1, <2>2, <2>4
    <3>2. \A g \in A[fs[f].parent] : g <= f
      BY <2>2, <3>1
    <3> QED
      BY <2>1, <2>2, <2>4, <3>1, <3>2
  <2> QED
    BY <2>3, <2>4
<1> HIDE DEF S
<1>2. DOMAIN fs \subseteq S
  BY <1>1, TreeInduction DEF Tree
<1>3. \A f \in DOMAIN fs : f \in A[f]
  <2> TAKE f \in DOMAIN fs
  <2>1. A[f] = IF fs[f].parent = 0 THEN {f} ELSE {f} \cup A[fs[f].parent]
    BY Zenon DEF Tree, AreAncestors
  <2> QED
    BY <2>1
<1> QED
  BY <1>2, <1>3 DEF S, Tree, AreAncestors

LEMMA AncestorsTransitive ==
    ASSUME NEW fs, NEW A, Tree(fs, A), NEW f \in DOMAIN fs, NEW g \in A[f]
    PROVE  A[g] \subseteq A[f]
<1> DEFINE S == {h \in DOMAIN fs : \A e \in A[h] : A[e] \subseteq A[h]}
<1>1. ASSUME NEW h \in DOMAIN fs, fs[h].parent = 0 \/ fs[h].parent \in S
      PROVE  h \in S
  <2>1. A[h] = IF fs[h].parent = 0 THEN {h} ELSE {h} \cup A[fs[h].parent]
    BY Zenon DEF Tree, AreAncestors
  <2> QED
    BY <1>1, <2>1
<1> HIDE DEF S
<1>2. DOMAIN fs \subseteq S
  BY <1>1, TreeInduction DEF Tree
<1> QED
  BY <1>2 DEF S

LEMMA RootOf ==
    ASSUME NEW fs, NEW A, Tree(fs, A), NEW f \in DOMAIN fs
    PROVE  /\ Root(A, f) \in A[f] /\ Root(A, f) \in DOMAIN fs
           /\ \A g \in A[f] : Root(A, f) <= g
<1>1. A[f] \in SUBSET Nat /\ A[f] # {} /\ A[f] \subseteq DOMAIN fs
  BY AncestorsBelow
<1>2. \E x \in A[f] : \A y \in A[f] : x <= y
  BY <1>1, LeastNumber
<1>3. Root(A, f) = CHOOSE x \in A[f] : \A y \in A[f] : x <= y
  BY Zenon DEF Root, Min
<1> QED
  BY <1>1, <1>2, <1>3, Zenon

\* All ancestors of a function have its root.
LEMMA RootShared ==
    ASSUME NEW fs, NEW A, Tree(fs, A), NEW f \in DOMAIN fs, NEW g \in A[f]
    PROVE  Root(A, g) = Root(A, f)
<1> DEFINE S == {h \in DOMAIN fs : Root(A, h) \in DOMAIN fs /\ \A e \in A[h] : Root(A, h) \in A[e]}
<1>0. \A h \in DOMAIN fs : /\ h \in A[h] /\ A[h] \subseteq DOMAIN fs /\ h \in Nat
                           /\ \A e \in A[h] : e <= h
  BY AncestorsBelow, ParentIn DEF Tree
<1>1. ASSUME NEW h \in DOMAIN fs, fs[h].parent = 0 \/ fs[h].parent \in S
      PROVE  h \in S
  <2>1. A[h] = IF fs[h].parent = 0 THEN {h} ELSE {h} \cup A[fs[h].parent]
    BY Zenon DEF Tree, AreAncestors
  <2>2. Root(A, h) \in A[h] /\ Root(A, h) \in DOMAIN fs /\ \A e \in A[h] : Root(A, h) <= e
    BY RootOf
  <2>3. CASE fs[h].parent = 0
    BY <2>1, <2>2, <2>3
  <2>4. CASE fs[h].parent # 0
    <3> DEFINE p == fs[h].parent
               r == Root(A, p)
    <3>1. p \in DOMAIN fs /\ p < h /\ p \in Nat /\ h \in Nat
      BY <2>4, ParentIn DEF Tree
    <3>2. r \in A[p] /\ r \in DOMAIN fs /\ \A e \in A[p] : r <= e
      BY <3>1, RootOf
    <3>3. A[p] \subseteq A[h] /\ A[h] = {h} \cup A[p] /\ p \in A[p]
      BY <1>0, <2>1, <2>4, <3>1
    <3>4. Root(A, h) = r
      <4>1. r \in Nat /\ Root(A, h) \in Nat /\ r <= p
        BY <1>0, <2>2, <3>1, <3>2, <3>3
      <4>2. Root(A, h) <= r
        BY <2>2, <3>2, <3>3
      <4>3. Root(A, h) # h
        BY <3>1, <4>1, <4>2
      <4>4. r <= Root(A, h)
        BY <2>2, <3>2, <3>3, <4>3
      <4> QED
        BY <4>1, <4>2, <4>4
    <3>5. \A e \in A[h] : r \in A[e]
      BY <1>1, <2>4, <3>2, <3>3 
    <3> QED
      BY <2>2, <3>4, <3>5
  <2> QED
    BY <2>3, <2>4
<1>2. DOMAIN fs \subseteq S
  <2> HIDE DEF S
  <2> QED
    BY <1>1, TreeInduction DEF Tree
<1>3. Root(A, f) \in A[g] /\ A[g] \subseteq A[f] /\ g \in DOMAIN fs
  BY <1>0, <1>2, AncestorsTransitive
<1>4. Root(A, f) \in Nat /\ Root(A, g) \in Nat /\ Root(A, g) \in A[g] /\ Root(A, g) <= Root(A, f)
      /\ Root(A, f) <= Root(A, g)
  BY <1>0, <1>3, RootOf
<1> QED
  BY <1>4

-------------------------------------------------------------------------------
(* Names stay unique when one function has new ones. *)

\* A new name was given, or is counted from the counter at the root, which goes on.
FreshName(x, fs, fs2, r) ==
    \/ x[1] = "given"
    \/ /\ r \in DOMAIN fs
       /\ \/ \E n \in Nat : x = <<"arg", n>> /\ fs[r].nextArgID <= n /\ n < fs2[r].nextArgID
          \/ \E n \in Nat : x = <<"tmp", n>> /\ fs[r].nextTmpID <= n /\ n < fs2[r].nextTmpID

OldPlaces(fs, f) == IF f \in DOMAIN fs THEN Places(fs[f]) ELSE {}
SamePlaces(fn, fn2) ==
    Places(fn) \subseteq Places(fn2) /\ \A d \in Places(fn) : NameOf(fn2, d) = NameOf(fn, d)

\* The new names are all in f, and differ from each other.
OthersSame(fs, fs2, f) ==
    /\ f \in DOMAIN fs2 /\ DOMAIN fs \subseteq DOMAIN fs2 /\ DOMAIN fs2 \subseteq DOMAIN fs \cup {f}
    /\ \A h \in DOMAIN fs : /\ fs2[h].parent = fs[h].parent
                            /\ fs[h].nextArgID <= fs2[h].nextArgID /\ fs[h].nextTmpID <= fs2[h].nextTmpID
                            /\ SamePlaces(fs[h], fs2[h])
                            /\ h # f => Places(fs2[h]) \subseteq Places(fs[h])
FreshNames(fs, fs2, A2, f) ==
    /\ OthersSame(fs, fs2, f)
    /\ \A d \in Places(fs2[f]) \ OldPlaces(fs, f) :
          /\ FreshName(NameOf(fs2[f], d), fs, fs2, Root(A2, f))
          /\ \A e \in Places(fs2[f]) \ {d} :
                NameOf(fs2[f], d)[1] = "given" \/ e \notin OldPlaces(fs, f) => NameOf(fs2[f], d) # NameOf(fs2[f], e)

LEMMA FreshThenCounted ==
    ASSUME NEW fs, NEW fs2, NEW r, NEW x, FreshName(x, fs, fs2, r)
    PROVE  CountedName(x, fs2[r])
  BY DEF FreshName, CountedName

LEMMA FreshNotCounted ==
    ASSUME NEW fs, Forest(fs), NEW fs2, NEW r, NEW x, FreshName(x, fs, fs2, r), CountedName(x, fs[r])
    PROVE  x[1] = "given"
<1> SUFFICES ASSUME x[1] # "given", r \in DOMAIN fs
             PROVE  FALSE
  BY DEF FreshName
<1>1. fs[r].nextArgID \in Nat /\ fs[r].nextTmpID \in Nat
  BY ParentIn DEF FnRecords
<1>2. CASE \E n \in Nat : x = <<"arg", n>> /\ fs[r].nextArgID <= n
  BY <1>1, <1>2 DEF CountedName
<1>3. CASE \E n \in Nat : x = <<"tmp", n>> /\ fs[r].nextTmpID <= n
  BY <1>1, <1>3 DEF CountedName
<1> QED
  BY <1>2, <1>3 DEF FreshName

LEMMA NamesGrown ==
    ASSUME NEW fs, NEW A, Tree(fs, A), NamesInv(fs, A), NEW fs2, NEW A2, Tree(fs2, A2),
           NEW f, FreshNames(fs, fs2, A2, f)
    PROVE  NamesInv(fs2, A2)
<1> DEFINE New == Places(fs2[f]) \ OldPlaces(fs, f)
<1>1. OthersSame(fs, fs2, f)
  BY DEF FreshNames
<1>2. /\ f \in DOMAIN fs2 /\ DOMAIN fs \subseteq DOMAIN fs2 /\ DOMAIN fs2 \subseteq DOMAIN fs \cup {f}
      /\ \A h \in DOMAIN fs : /\ fs2[h].parent = fs[h].parent
                              /\ fs[h].nextArgID <= fs2[h].nextArgID /\ fs[h].nextTmpID <= fs2[h].nextTmpID
                              /\ SamePlaces(fs[h], fs2[h])
                              /\ h # f => Places(fs2[h]) \subseteq Places(fs[h])
  BY <1>1 DEF OthersSame
<1>3. \A h \in DOMAIN fs : Root(A2, h) = Root(A, h)
  <2>1. \A h \in DOMAIN fs : A2[h] = A[h]
    BY <1>2, AncestorsSame
  <2> QED
    BY <2>1 DEF Root
<1>4. \A d \in New : /\ FreshName(NameOf(fs2[f], d), fs, fs2, Root(A2, f))
                     /\ \A e \in Places(fs2[f]) \ {d} :
                           NameOf(fs2[f], d)[1] = "given" \/ e \in New => NameOf(fs2[f], d) # NameOf(fs2[f], e)
  BY DEF FreshNames
<1>5. ASSUME NEW h \in DOMAIN fs2, NEW d \in Places(fs2[h])
      PROVE  \/ h \in DOMAIN fs /\ d \in Places(fs[h]) /\ NameOf(fs2[h], d) = NameOf(fs[h], d)
             \/ h = f /\ d \in New
  <2>1. CASE h \in DOMAIN fs /\ h # f
    BY <1>2, <2>1, Zenon DEF SamePlaces
  <2>2. CASE h = f /\ f \in DOMAIN fs
    BY <1>2, <2>2, Zenon DEF SamePlaces, OldPlaces
  <2>3. CASE h = f /\ f \notin DOMAIN fs
    BY <2>3, Zenon DEF OldPlaces
  <2> QED
    BY <1>2, <2>1, <2>2, <2>3
<1>6. ASSUME NEW h \in DOMAIN fs, NEW d \in Places(fs[h])
      PROVE  CountedName(NameOf(fs[h], d), fs[Root(A, h)])
  BY Zenon DEF NamesInv, Counted
<1> HIDE DEF New
<1>7. Counted(fs2, A2)
  <2> SUFFICES ASSUME NEW h \in DOMAIN fs2, NEW d \in Places(fs2[h])
               PROVE  CountedName(NameOf(fs2[h], d), fs2[Root(A2, h)])
    BY DEF Counted
  <2>1. CASE h \in DOMAIN fs /\ d \in Places(fs[h]) /\ NameOf(fs2[h], d) = NameOf(fs[h], d)
    <3> DEFINE r == Root(A, h)
               x == NameOf(fs[h], d)
    <3>1. CountedName(x, fs[r]) /\ Root(A2, h) = r
      BY <1>3, <1>6, <2>1
    <3>2. r \in DOMAIN fs
      BY <2>1, RootOf
    <3>3. /\ fs[r].nextArgID \in Nat /\ fs[r].nextTmpID \in Nat
          /\ fs2[r].nextArgID \in Nat /\ fs2[r].nextTmpID \in Nat
          /\ fs[r].nextArgID <= fs2[r].nextArgID /\ fs[r].nextTmpID <= fs2[r].nextTmpID
      BY <1>2, <3>2, ParentIn DEF FnRecords, Tree
    <3> HIDE DEF r, x
    <3>4. CountedName(x, fs2[r])
      BY <3>1, <3>3 DEF CountedName
    <3> QED
      BY <2>1, <3>1, <3>4 DEF x
  <2>2. CASE h = f /\ d \in New
    BY <1>4, <2>2, FreshThenCounted
  <2> QED
    BY <1>5, <2>1, <2>2
<1>8. Unique(fs2, A2)
  <2> SUFFICES ASSUME NEW h \in DOMAIN fs2, NEW g \in DOMAIN fs2, Root(A2, h) = Root(A2, g),
                      NEW d \in Places(fs2[h]), NEW e \in Places(fs2[g]),
                      NameOf(fs2[h], d) = NameOf(fs2[g], e)
               PROVE  <<h, d>> = <<g, e>> \/ (h # g /\ NameOf(fs2[h], d)[1] = "given")
    BY DEF Unique
  <2> DEFINE x == NameOf(fs2[h], d)
             y == NameOf(fs2[g], e)
             OldH == h \in DOMAIN fs /\ d \in Places(fs[h]) /\ x = NameOf(fs[h], d)
             OldG == g \in DOMAIN fs /\ e \in Places(fs[g]) /\ y = NameOf(fs[g], e)
  <2>1. CASE OldH /\ OldG
    <3>1. Root(A, h) = Root(A, g)
      BY <1>3, <2>1
    <3>2. NameOf(fs[h], d) = NameOf(fs[g], e) /\ NameOf(fs2[h], d)[1] = NameOf(fs[h], d)[1]
      BY <2>1
    <3>3. <<h, d>> = <<g, e>> \/ (h # g /\ NameOf(fs[h], d)[1] = "given")
      BY <2>1, <3>1, <3>2 DEF NamesInv, Unique
    <3> QED
      BY <3>2, <3>3
  <2>2. CASE h = f /\ d \in New /\ g = f /\ e \in New
    BY <1>4, <2>2
  <2>3. CASE h = f /\ d \in New /\ OldG
    <3>1. FreshName(x, fs, fs2, Root(A2, f)) /\ CountedName(y, fs[Root(A, g)]) /\ Root(A, g) = Root(A2, f)
      BY <1>3, <1>4, <1>6, <2>3
    <3>2. x[1] = "given"
      <4> HIDE DEF x, y
      <4>1. x = y
        BY DEF x, y
      <4>2. CountedName(x, fs[Root(A2, f)])
        BY <3>1, <4>1
      <4> QED
        BY <3>1, <4>2, FreshNotCounted DEF Tree
    <3>3. g = f => e = d
      BY <1>4, <2>3, <3>2
    <3> QED
      BY <2>3, <3>2, <3>3
  <2>4. CASE g = f /\ e \in New /\ OldH
    <3>1. FreshName(y, fs, fs2, Root(A2, f)) /\ CountedName(x, fs[Root(A, h)]) /\ Root(A, h) = Root(A2, f)
      BY <1>3, <1>4, <1>6, <2>4
    <3>2. y[1] = "given"
      <4> HIDE DEF x, y
      <4>1. x = y
        BY DEF x, y
      <4>2. CountedName(y, fs[Root(A2, f)])
        BY <3>1, <4>1
      <4> QED
        BY <3>1, <4>2, FreshNotCounted DEF Tree
    <3>3. h = f => d = e
      BY <1>4, <2>4, <3>2
    <3> QED
      BY <2>4, <3>2, <3>3
  <2> QED
    BY <1>5, <2>1, <2>2, <2>3, <2>4
<1> QED
  BY <1>7, <1>8 DEF NamesInv

-------------------------------------------------------------------------------
(* Statements still fit, and their operands are still seen, when a program grows. *)

\* A program only grows, and a function that has returned keeps its signature, as long as
\* the program is disciplined.
Grown(fs, fs2) ==
    /\ DOMAIN fs \subseteq DOMAIN fs2
    /\ \A f \in DOMAIN fs :
          /\ fs2[f].parent = fs[f].parent
          /\ DOMAIN fs[f].statements \subseteq DOMAIN fs2[f].statements
          /\ \A k \in DOMAIN fs[f].statements : fs2[f].statements[k] = fs[f].statements[k]
          /\ Range(fs[f].inputs) \subseteq Range(fs2[f].inputs)
          /\ fs[f].returned => /\ fs2[f].returned /\ fs2[f].outputs = fs[f].outputs
                               /\ Disciplined => fs2[f].inputs = fs[f].inputs
NewStatements(fs, fs2, f) ==
    IF f \in DOMAIN fs THEN DOMAIN fs2[f].statements \ DOMAIN fs[f].statements ELSE DOMAIN fs2[f].statements

\* A new statement takes what fits.
NewFits(fs, fs2) ==
    \A f \in DOMAIN fs2 : \A k \in NewStatements(fs, fs2, f) :
        LET s == fs2[f].statements[k]
        IN Fits(fs, f, s) \/ (s.op \in {"op", "FuncReturn"} /\ s.closures = << >>)

LEMMA FitsStays ==
    ASSUME Disciplined, NEW fs, NEW fs2, Grown(fs, fs2), NEW f, NEW s, Fits(fs, f, s)
    PROVE  Fits(fs2, f, s)
<1>1. \A c \in DOMAIN fs : fs[c].returned =>
         /\ c \in DOMAIN fs2 /\ fs2[c].returned /\ fs2[c].inputs = fs[c].inputs
         /\ fs2[c].outputs = fs[c].outputs /\ fs2[c].parent = fs[c].parent
  BY DEF Grown
<1>2. \A i \in DOMAIN s.closures :
         s.closures[i] \in DOMAIN fs /\ fs[s.closures[i]].parent = f /\ fs[s.closures[i]].returned
  BY DEF Fits
<1>3. \A i \in DOMAIN s.closures :
         s.closures[i] \in DOMAIN fs2 /\ fs2[s.closures[i]].parent = f /\ fs2[s.closures[i]].returned
  BY <1>1, <1>2
<1>4. s.op = "Call" => /\ s.callee \in DOMAIN fs2 /\ fs2[s.callee].returned
                       /\ Len(s.inputs) = Len(fs2[s.callee].inputs)
                       /\ Len(s.outputs) = fs2[s.callee].outputs
  BY <1>1 DEF Fits
<1>5. s.op = "Reduce" => 1 \in DOMAIN s.closures /\ Len(fs2[s.closures[1]].inputs) = 2
  BY <1>1, <1>2 DEF Fits
<1>6. s.op = "If" => \A i \in {1, 2} : i \in DOMAIN s.closures /\ fs2[s.closures[i]].outputs = Len(s.outputs)
  BY <1>1, <1>2 DEF Fits
<1>7. s.op = "While" => \A i \in {1, 2} : i \in DOMAIN s.closures /\ Len(fs2[s.closures[i]].inputs) = 1
  BY <1>1, <1>2 DEF Fits
<1> QED
  BY <1>3, <1>4, <1>5, <1>6, <1>7 DEF Fits

LEMMA FitsGrown ==
    ASSUME Disciplined, NEW fs, NEW fs2, Grown(fs, fs2), FitsInv(fs), NewFits(fs, fs2)
    PROVE  FitsInv(fs2)
<1> SUFFICES ASSUME NEW f \in DOMAIN fs2, NEW k \in DOMAIN fs2[f].statements
             PROVE  Fits(fs2, f, fs2[f].statements[k])
  BY DEF FitsInv
<1> DEFINE s == fs2[f].statements[k]
<1>1. CASE f \in DOMAIN fs /\ k \in DOMAIN fs[f].statements
  <2>1. s = fs[f].statements[k] /\ Fits(fs, f, fs[f].statements[k])
    BY <1>1, Zenon DEF Grown, FitsInv
  <2> QED
    BY <1>1, <2>1, FitsStays
<1>2. CASE ~(f \in DOMAIN fs /\ k \in DOMAIN fs[f].statements)
  <2>1. k \in NewStatements(fs, fs2, f)
    BY <1>2 DEF NewStatements
  <2>2. Fits(fs, f, s) \/ (s.op \in {"op", "FuncReturn"} /\ s.closures = << >>)
    BY <2>1 DEF NewFits
  <2> SUFFICES Fits(fs2, f, s)
    OBVIOUS
  <2> HIDE DEF s
  <2>3. CASE s.op \in {"op", "FuncReturn"} /\ s.closures = << >>
    BY <2>3 DEF Fits
  <2>4. CASE Fits(fs, f, s)
    BY <2>4, FitsStays
  <2> QED
    BY <2>2, <2>3, <2>4
<1> QED
  BY <1>1, <1>2

\* Between a function and one around it there is a closure of the latter.
LEMMA ClosureBetween ==
    ASSUME NEW fs, NEW A, Tree(fs, A), NEW f \in DOMAIN fs, NEW h \in A[f], h # f
    PROVE  \E c \in Inner(fs, A, f) : fs[c].parent = h
<1> DEFINE S == {g \in DOMAIN fs : \A e \in A[g] : e # g => \E c \in A[g] : fs[c].parent = e}
<1>1. ASSUME NEW g \in DOMAIN fs, fs[g].parent = 0 \/ fs[g].parent \in S
      PROVE  g \in S
  <2>1. A[g] = IF fs[g].parent = 0 THEN {g} ELSE {g} \cup A[fs[g].parent]
    BY Zenon DEF Tree, AreAncestors
  <2>2. CASE fs[g].parent = 0
    BY <2>1, <2>2
  <2>3. CASE fs[g].parent # 0
    <3>1. A[g] = {g} \cup A[fs[g].parent] /\ fs[g].parent \in S
      BY <1>1, <2>1, <2>3
    <3>2. ASSUME NEW e \in A[g], e # g
          PROVE  \E c \in A[g] : fs[c].parent = e
      <4>1. CASE e = fs[g].parent
        BY <3>1, <4>1
      <4>2. CASE e # fs[g].parent
        BY <3>1, <3>2, <4>2
      <4> QED
        BY <4>1, <4>2
    <3> QED
      BY <3>2
  <2> QED
    BY <2>2, <2>3
<1> HIDE DEF S
<1>2. DOMAIN fs \subseteq S
  BY <1>1, TreeInduction DEF Tree
<1>3. PICK c \in A[f] : fs[c].parent = h
  BY <1>2 DEF S
<1>4. h # 0
  BY AncestorsBelow, ParentIn DEF Tree
<1> QED
  BY <1>3, <1>4 DEF Inner

\* What may be written and has not returned is in functions that have not returned.
LEMMA OpenAround ==
    ASSUME NEW fs, NEW A, Tree(fs, A), FitsInv(fs), NEW f \in DOMAIN fs,
           MayBeWritten(fs, A, f), ~fs[f].returned
    PROVE  \A c \in Inner(fs, A, f) : SitesIn(fs, c) = {}
<1> DEFINE Open(g) == MayBeWritten(fs, A, g) /\ ~fs[g].returned => \A c \in A[g] : ~fs[c].returned
           S == {g \in DOMAIN fs : Open(g)}
<1>1. ASSUME NEW c \in DOMAIN fs, fs[c].parent # 0, SitesIn(fs, c) # {}
      PROVE  fs[c].returned
  <2> DEFINE p == fs[c].parent
  <2>1. p \in DOMAIN fs
    BY <1>1, ParentIn DEF Tree
  <2>2. PICK k \in DOMAIN fs[p].statements : c \in Range(fs[p].statements[k].closures)
    BY <1>1 DEF SitesIn
  <2>3. PICK i \in DOMAIN fs[p].statements[k].closures : fs[p].statements[k].closures[i] = c
    BY <2>2, Zenon DEF Range
  <2>4. Fits(fs, p, fs[p].statements[k])
    BY <2>1 DEF FitsInv
  <2> QED
    BY <2>3, <2>4 DEF Fits
<1>2. ASSUME NEW g \in DOMAIN fs, fs[g].parent = 0 \/ fs[g].parent \in S
      PROVE  g \in S
  <2> SUFFICES ASSUME MayBeWritten(fs, A, g), ~fs[g].returned
               PROVE  \A c \in A[g] : ~fs[c].returned
    BY DEF Open
  <2>1. A[g] = IF fs[g].parent = 0 THEN {g} ELSE {g} \cup A[fs[g].parent]
    BY Zenon DEF Tree, AreAncestors
  <2>2. CASE fs[g].parent = 0
    BY <2>1, <2>2
  <2>3. CASE fs[g].parent # 0
    <3> DEFINE p == fs[g].parent
    <3>1. p \in DOMAIN fs /\ A[g] = {g} \cup A[p] /\ g \in Inner(fs, A, g)
      BY <2>1, <2>3, ParentIn DEF Tree, Inner
    <3>2. SitesIn(fs, g) = {}
      BY <1>1, <2>3
    <3>3. ~fs[p].returned
      BY <3>1, <3>2 DEF MayBeWritten
    <3>4. Inner(fs, A, p) \subseteq Inner(fs, A, g)
      BY <3>1 DEF Inner
    <3>5. MayBeWritten(fs, A, p)
      BY <3>4 DEF MayBeWritten
    <3>6. Open(p)
      BY <1>2, <2>3
    <3> QED
      BY <3>1, <3>3, <3>5, <3>6
  <2> QED
    BY <2>2, <2>3
<1>3. DOMAIN fs \subseteq S
  <2> HIDE DEF S
  <2> QED
    BY <1>2, TreeInduction DEF Tree
<1>4. \A c \in A[f] : c \in DOMAIN fs /\ ~fs[c].returned
  BY <1>3, AncestorsBelow
<1> QED
  BY <1>1, <1>4 DEF Inner

\* The operands of a new statement are of functions around it that have not returned;
\* those of a new function are its own.
NewSeen(fs, A, fs2) ==
    \A f \in DOMAIN fs2 : \A k \in NewStatements(fs, fs2, f) :
        LET s == fs2[f].statements[k]
        IN \/ s.inputs = << >> /\ s.closures = << >>
           \/ /\ f \in DOMAIN fs /\ ~fs[f].returned
              /\ Range(s.inputs) \subseteq UNION {DefinedIn(fs[h]) : h \in A[f]}
           \/ f \notin DOMAIN fs /\ s.closures = << >> /\ Range(s.inputs) \subseteq BeforeIn(fs2[f], k)

LEMMA BeforeGrows ==
    ASSUME NEW fs, NEW fs2, Forest(fs), Forest(fs2), Grown(fs, fs2), NEW p \in DOMAIN fs
    PROVE  /\ DefinedIn(fs[p]) \subseteq DefinedIn(fs2[p])
           /\ \A k \in DOMAIN fs[p].statements : BeforeIn(fs[p], k) \subseteq BeforeIn(fs2[p], k)
           /\ \A k \in NewStatements(fs, fs2, p) : DefinedIn(fs[p]) \subseteq BeforeIn(fs2[p], k)
<1>1. /\ fs[p].statements \in Seq(Statements) /\ fs2[p].statements \in Seq(Statements)
      /\ p \in DOMAIN fs2
  BY ParentIn DEF Grown, FnRecords
<1>2. /\ DOMAIN fs[p].statements = 1 .. Len(fs[p].statements) /\ Len(fs[p].statements) \in Nat
      /\ DOMAIN fs2[p].statements = 1 .. Len(fs2[p].statements) /\ Len(fs2[p].statements) \in Nat
  BY <1>1
<1>3. /\ DOMAIN fs[p].statements \subseteq DOMAIN fs2[p].statements
      /\ \A k \in DOMAIN fs[p].statements : fs2[p].statements[k] = fs[p].statements[k]
      /\ Range(fs[p].inputs) \subseteq Range(fs2[p].inputs)
  BY DEF Grown
<1>4. \A fn : DefinedIn(fn) = Range(fn.inputs) \cup UNION {Range(fn.statements[k].outputs) : k \in DOMAIN fn.statements}
  <2> TAKE fn
  <2> DEFINE st == fn.statements
  <2>1. \A x : (\E t \in {st[k] : k \in DOMAIN st} : x \in Range(t.outputs))
               <=> \E k \in DOMAIN st : x \in Range(st[k].outputs)
    <3> HIDE DEF st
    <3> QED
      OBVIOUS
  <2>2. Range(st) = {st[k] : k \in DOMAIN st}
    BY Zenon DEF Range
  <2> QED
    BY <2>1, <2>2, Zenon DEF DefinedIn
<1>5. DefinedIn(fs[p]) \subseteq DefinedIn(fs2[p])
  BY <1>3, <1>4, Zenon
<1>6. ASSUME NEW k \in DOMAIN fs[p].statements
      PROVE  BeforeIn(fs[p], k) \subseteq BeforeIn(fs2[p], k)
  <2>1. \A i \in 1 .. k - 1 : i \in DOMAIN fs[p].statements
    BY <1>2
  <2> QED
    BY <1>3, <2>1, Zenon DEF BeforeIn
<1>7. ASSUME NEW k \in NewStatements(fs, fs2, p)
      PROVE  DefinedIn(fs[p]) \subseteq BeforeIn(fs2[p], k)
  <2>1. k \in DOMAIN fs2[p].statements /\ k \notin DOMAIN fs[p].statements
    BY DEF NewStatements
  <2>2. \A i \in DOMAIN fs[p].statements : i \in 1 .. k - 1
    BY <1>2, <2>1
  <2> QED
    BY <1>3, <1>4, <2>2, Zenon DEF BeforeIn
<1> QED
  BY <1>5, <1>6, <1>7

LEMMA SeenGrown ==
    ASSUME NEW fs, NEW A, Tree(fs, A), NEW fs2, NEW A2, Tree(fs2, A2), Grown(fs, fs2),
           FitsInv(fs), SeenInv(fs, A), NewSeen(fs, A, fs2)
    PROVE  SeenInv(fs2, A2)
<1> SUFFICES ASSUME NEW f \in DOMAIN fs2, MayBeWritten(fs2, A2, f), NEW k \in DOMAIN fs2[f].statements
             PROVE  Range(fs2[f].statements[k].inputs) \subseteq AroundIn(fs2, A2, f) \cup BeforeIn(fs2[f], k)
  BY DEF SeenInv
<1> DEFINE s == fs2[f].statements[k]
<1>0. << >> = [i \in {} |-> i] /\ Range(<< >>) = {}
  BY DEF Range
<1>1. CASE f \notin DOMAIN fs
  <2>1. k \in NewStatements(fs, fs2, f)
    BY <1>1 DEF NewStatements
  <2>2. Range(s.inputs) \subseteq BeforeIn(fs2[f], k)
    BY <1>0, <1>1, <2>1 DEF NewSeen
  <2> QED
    BY <2>2
<1>2. CASE f \in DOMAIN fs
  <2>1. A2[f] = A[f]
    BY <1>2, AncestorsSame DEF Grown
  <2>2. \A c \in A[f] : c \in DOMAIN fs /\ fs2[c].parent = fs[c].parent
    BY <1>2, AncestorsBelow DEF Grown
  <2>3. Inner(fs2, A2, f) = Inner(fs, A, f)
    BY <2>1, <2>2 DEF Inner
  <2>4. ASSUME NEW c \in Inner(fs, A, f)
        PROVE  /\ c \in DOMAIN fs /\ fs[c].parent \in DOMAIN fs /\ fs2[c].parent = fs[c].parent
               /\ SitesIn(fs2, c) \subseteq DOMAIN fs2[fs[c].parent].statements
               /\ \A j \in SitesIn(fs2, c) : \/ j \in SitesIn(fs, c)
                                             \/ j \in NewStatements(fs, fs2, fs[c].parent)
    <3>1. c \in DOMAIN fs /\ fs[c].parent \in DOMAIN fs /\ fs2[c].parent = fs[c].parent
      BY <2>2, ParentIn DEF Inner, Tree
    <3> QED
      BY <3>1 DEF SitesIn, NewStatements, Grown
  <2>5. MayBeWritten(fs, A, f)
    <3> SUFFICES ASSUME NEW c \in Inner(fs, A, f), SitesIn(fs, c) = {}
                 PROVE  ~fs[fs[c].parent].returned
      BY DEF MayBeWritten
    <3> DEFINE p == fs[c].parent
    <3>1. p \in DOMAIN fs /\ (SitesIn(fs2, c) # {} \/ ~fs2[p].returned)
      BY <2>3, <2>4 DEF MayBeWritten
    <3>2. CASE ~fs2[p].returned
      BY <3>1, <3>2 DEF Grown
    <3>3. ASSUME NEW j \in SitesIn(fs2, c)
          PROVE  ~fs[p].returned
      <4>1. j \in NewStatements(fs, fs2, p) /\ c \in Range(fs2[p].statements[j].closures)
        BY <2>4 DEF SitesIn
      <4>2. fs2[p].statements[j].closures # << >>
        BY <1>0, <4>1
      <4>3. p \in DOMAIN fs2 /\ p \in DOMAIN fs
        BY <3>1 DEF Grown
      <4> HIDE DEF p
      <4> QED
        BY <4>1, <4>2, <4>3 DEF NewSeen
    <3> QED
      BY <3>1, <3>2, <3>3
  <2>6. AroundIn(fs, A, f) \subseteq AroundIn(fs2, A2, f)
    <3>1. ASSUME NEW c \in Inner(fs, A, f), NEW x \in ScopeIn(fs, c)
          PROVE  x \in ScopeIn(fs2, c)
      <4> DEFINE p == fs[c].parent
      <4>1. p \in DOMAIN fs /\ fs2[c].parent = p
        BY <2>4
      <4>2. x \in DefinedIn(fs[p]) /\ \A j \in SitesIn(fs, c) : x \in BeforeIn(fs[p], j)
        BY DEF ScopeIn
      <4>3. /\ DefinedIn(fs[p]) \subseteq DefinedIn(fs2[p])
            /\ \A j \in DOMAIN fs[p].statements : BeforeIn(fs[p], j) \subseteq BeforeIn(fs2[p], j)
            /\ \A j \in NewStatements(fs, fs2, p) : DefinedIn(fs[p]) \subseteq BeforeIn(fs2[p], j)
        BY <4>1, BeforeGrows DEF Tree
      <4>4. ASSUME NEW j \in SitesIn(fs2, c)
            PROVE  x \in BeforeIn(fs2[p], j)
        <5>1. CASE j \in SitesIn(fs, c)
          <6>1. j \in DOMAIN fs[p].statements
            BY <5>1 DEF SitesIn
          <6> QED
            BY <4>2, <4>3, <5>1, <6>1
        <5>2. CASE j \in NewStatements(fs, fs2, p)
          BY <4>2, <4>3, <5>2
        <5> QED
          BY <2>4, <5>1, <5>2
      <4> QED
        BY <4>1, <4>2, <4>3, <4>4 DEF ScopeIn
    <3> QED
      BY <2>3, <3>1, Zenon DEF AroundIn
  <2>7. CASE k \in DOMAIN fs[f].statements
    <3>1. s = fs[f].statements[k]
      BY <1>2, <2>7 DEF Grown
    <3>2. Range(fs[f].statements[k].inputs) \subseteq AroundIn(fs, A, f) \cup BeforeIn(fs[f], k)
      BY <1>2, <2>5, <2>7 DEF SeenInv
    <3>3. BeforeIn(fs[f], k) \subseteq BeforeIn(fs2[f], k)
      BY <1>2, <2>7, BeforeGrows DEF Tree
    <3> QED
      BY <2>6, <3>1, <3>2, <3>3
  <2>8. CASE k \notin DOMAIN fs[f].statements
    <3>1. k \in NewStatements(fs, fs2, f)
      BY <1>2, <2>8 DEF NewStatements
    <3>2. CASE s.inputs = << >>
      BY <1>0, <3>2
    <3>3. CASE ~fs[f].returned /\ Range(s.inputs) \subseteq UNION {DefinedIn(fs[h]) : h \in A[f]}
      <4>1. \A c \in Inner(fs, A, f) : SitesIn(fs, c) = {}
        BY <1>2, <2>5, <3>3, OpenAround
      <4>2. ASSUME NEW h \in A[f], NEW x \in DefinedIn(fs[h])
            PROVE  x \in AroundIn(fs2, A2, f) \cup BeforeIn(fs2[f], k)
        <5>1. CASE h = f
          BY <1>2, <3>1, <5>1, BeforeGrows DEF Tree
        <5>2. CASE h # f
          <6>1. PICK c \in Inner(fs, A, f) : fs[c].parent = h
            BY <1>2, <5>2, ClosureBetween
          <6>2. x \in ScopeIn(fs, c)
            BY <4>1, <6>1 DEF ScopeIn
          <6>3. x \in AroundIn(fs, A, f)
            BY <6>2, Zenon DEF AroundIn
          <6> QED
            BY <2>6, <6>3
        <5> QED
          BY <5>1, <5>2
      <4> QED
        BY <3>3, <4>2
    <3> QED
      BY <1>2, <3>1, <3>2, <3>3 DEF NewSeen
  <2> QED
    BY <2>7, <2>8
<1> QED
  BY <1>1, <1>2

-------------------------------------------------------------------------------
(* The changes that a call makes. *)

\* A statement is appended to f, and its outputs are counted at r.
StatementAdded(fs, fs2, f, r, s, n) ==
    /\ fs2 \in Seq(FnRecords) /\ DOMAIN fs2 = DOMAIN fs
    /\ \A h \in DOMAIN fs :
          /\ fs2[h].parent = fs[h].parent /\ fs2[h].inputs = fs[h].inputs
          /\ fs2[h].nextArgID = fs[h].nextArgID
          /\ fs2[h].statements = IF h = f THEN Append(fs[h].statements, s) ELSE fs[h].statements
          /\ fs2[h].nextTmpID = IF h = r THEN fs[h].nextTmpID + n ELSE fs[h].nextTmpID
          /\ fs[h].returned => fs2[h].returned /\ fs2[h].outputs = fs[h].outputs

LEMMA UpdateFunction ==
    ASSUME NEW fs \in Seq(FnRecords), NEW f \in DOMAIN fs, NEW fn \in FnRecords
    PROVE  /\ [fs EXCEPT ![f] = fn] \in Seq(FnRecords)
           /\ DOMAIN [fs EXCEPT ![f] = fn] = DOMAIN fs
           /\ \A h \in DOMAIN fs : [fs EXCEPT ![f] = fn][h] = IF h = f THEN fn ELSE fs[h]
  OBVIOUS

LEMMA SetStatements ==
    ASSUME NEW fn \in FnRecords, NEW s \in Statements
    PROVE  [fn EXCEPT !.statements = Append(@, s)] \in FnRecords
<1>1. Append(fn.statements, s) \in Seq(Statements)
  <2>1. fn.statements \in Seq(Statements)
    BY DEF FnRecords
  <2> QED
    BY <2>1
<1> QED
  BY <1>1 DEF FnRecords

LEMMA SetTmpID ==
    ASSUME NEW fn \in FnRecords, NEW n \in Nat
    PROVE  [fn EXCEPT !.nextTmpID = @ + n] \in FnRecords
<1>1. fn.nextTmpID + n \in Nat
  BY DEF FnRecords
<1> QED
  BY <1>1 DEF FnRecords

LEMMA StatementAddedBy ==
    ASSUME NEW fs \in Seq(FnRecords), NEW f \in DOMAIN fs, NEW r \in DOMAIN fs,
           NEW s \in Statements, NEW n \in Nat
    PROVE  StatementAdded(fs, [fs EXCEPT ![f].statements = Append(@, s), ![r].nextTmpID = @ + n], f, r, s, n)
<1> DEFINE fn == [fs[f] EXCEPT !.statements = Append(@, s)]
           fs1 == [fs EXCEPT ![f] = fn]
           root == [fs1[r] EXCEPT !.nextTmpID = @ + n]
           fs2 == [fs1 EXCEPT ![r] = root]
<1>1. [fs EXCEPT ![f].statements = Append(@, s), ![r].nextTmpID = @ + n] = fs2
  OBVIOUS
<1>2. \A h \in DOMAIN fs : fs[h] \in FnRecords
  OBVIOUS
<1>3. fn \in FnRecords
  BY <1>2, SetStatements
<1>4. fs1 \in Seq(FnRecords) /\ DOMAIN fs1 = DOMAIN fs /\ \A h \in DOMAIN fs : fs1[h] = IF h = f THEN fn ELSE fs[h]
  <2> HIDE DEF fn
  <2> QED
    BY <1>3, UpdateFunction
<1>5. root \in FnRecords
  <2>1. fs1[r] \in FnRecords
    <3> HIDE DEF fn, fs1
    <3> QED
      BY <1>2, <1>3, <1>4
  <2> HIDE DEF fs1
  <2> QED
    BY <2>1, SetTmpID
<1>6. fs2 \in Seq(FnRecords) /\ DOMAIN fs2 = DOMAIN fs /\ \A h \in DOMAIN fs : fs2[h] = IF h = r THEN root ELSE fs1[h]
  <2> HIDE DEF root, fs1
  <2> QED
    BY <1>4, <1>5, UpdateFunction
<1>7. /\ fn.parent = fs[f].parent /\ fn.inputs = fs[f].inputs /\ fn.nextArgID = fs[f].nextArgID
      /\ fn.nextTmpID = fs[f].nextTmpID /\ fn.returned = fs[f].returned /\ fn.outputs = fs[f].outputs
      /\ fn.statements = Append(fs[f].statements, s)
  BY <1>2 DEF FnRecords
<1>8. /\ root.parent = fs1[r].parent /\ root.inputs = fs1[r].inputs /\ root.nextArgID = fs1[r].nextArgID
      /\ root.nextTmpID = fs1[r].nextTmpID + n /\ root.returned = fs1[r].returned
      /\ root.outputs = fs1[r].outputs /\ root.statements = fs1[r].statements
  <2>1. fs1[r] \in FnRecords
    <3> HIDE DEF fn, fs1
    <3> QED
      BY <1>2, <1>3, <1>4
  <2> HIDE DEF fs1
  <2> QED
    BY <2>1 DEF FnRecords
<1> HIDE DEF fn, fs1, root, fs2
<1>9. ASSUME NEW h \in DOMAIN fs
      PROVE  /\ fs2[h].parent = fs[h].parent /\ fs2[h].inputs = fs[h].inputs
             /\ fs2[h].nextArgID = fs[h].nextArgID
             /\ fs2[h].statements = IF h = f THEN Append(fs[h].statements, s) ELSE fs[h].statements
             /\ fs2[h].nextTmpID = IF h = r THEN fs[h].nextTmpID + n ELSE fs[h].nextTmpID
             /\ fs[h].returned => fs2[h].returned /\ fs2[h].outputs = fs[h].outputs
  <2>1. CASE h = r
    <3>1. fs2[h] = root /\ (h = f => fs1[h] = fn) /\ (h # f => fs1[h] = fs[h])
      BY <1>4, <1>6, <2>1
    <3> QED
      BY <1>7, <1>8, <2>1, <3>1
  <2>2. CASE h # r
    <3>1. (h = f => fs2[h] = fn) /\ (h # f => fs2[h] = fs[h])
      BY <1>4, <1>6, <2>2
    <3> QED
      BY <1>7, <2>2, <3>1
  <2> QED
    BY <2>1, <2>2
<1> QED
  BY <1>1, <1>6, <1>9 DEF StatementAdded

LEMMA SameTree ==
    ASSUME NEW fs, NEW A, Tree(fs, A), NEW fs2 \in Seq(FnRecords), DOMAIN fs2 = DOMAIN fs,
           \A h \in DOMAIN fs : fs2[h].parent = fs[h].parent
    PROVE  Tree(fs2, A)
  BY DEF Tree, Forest, AreAncestors

\* The places of a function after a statement more.
LEMMA StatementPlaces ==
    ASSUME NEW fn \in FnRecords, NEW fn2 \in FnRecords, NEW s \in Statements,
           fn2.inputs = fn.inputs, fn2.statements = Append(fn.statements, s)
    PROVE  LET K == Len(fn.statements) + 1
           IN /\ K \in Nat /\ K # 0
              /\ SamePlaces(fn, fn2)
              /\ \A d \in Places(fn2) \ Places(fn) :
                    \E i \in DOMAIN s.outputs : d = <<K, i>> /\ NameOf(fn2, d) = s.outputs[i]
<1> DEFINE K == Len(fn.statements) + 1
<1>1. fn.statements \in Seq(Statements) /\ fn2.statements \in Seq(Statements)
  BY DEF FnRecords
<1>2. /\ K \in Nat /\ K # 0 /\ DOMAIN fn2.statements = 1 .. K
      /\ DOMAIN fn.statements = 1 .. K - 1 /\ fn2.statements[K] = s
      /\ \A k \in DOMAIN fn.statements : fn2.statements[k] = fn.statements[k] /\ k # 0 /\ k \in DOMAIN fn2.statements
      /\ \A k \in DOMAIN fn2.statements : k \in DOMAIN fn.statements \/ k = K
  BY <1>1
<1> HIDE DEF K
<1>3. ASSUME NEW d \in Places(fn)
      PROVE  d \in Places(fn2) /\ NameOf(fn2, d) = NameOf(fn, d)
  <2>1. CASE \E i \in DOMAIN fn.inputs : d = <<0, i>>
    BY <2>1 DEF Places, NameOf
  <2>2. CASE \E k \in DOMAIN fn.statements : \E i \in DOMAIN fn.statements[k].outputs : d = <<k, i>>
    <3>1. PICK k \in DOMAIN fn.statements : \E i \in DOMAIN fn.statements[k].outputs : d = <<k, i>>
      BY <2>2
    <3>2. fn2.statements[k] = fn.statements[k] /\ k # 0 /\ k \in DOMAIN fn2.statements /\ d[1] = k
      BY <1>2, <3>1
    <3>3. d \in Places(fn2)
      BY <3>1, <3>2 DEF Places
    <3> QED
      BY <3>2, <3>3 DEF NameOf
  <2> QED
    BY <2>1, <2>2 DEF Places
<1>4. ASSUME NEW d \in Places(fn2) \ Places(fn)
      PROVE  \E i \in DOMAIN s.outputs : d = <<K, i>> /\ NameOf(fn2, d) = s.outputs[i]
  <2>1. ~ \E i \in DOMAIN fn2.inputs : d = <<0, i>>
    BY DEF Places
  <2>2. PICK k \in DOMAIN fn2.statements : \E i \in DOMAIN fn2.statements[k].outputs : d = <<k, i>>
    BY <2>1 DEF Places
  <2>3. k \notin DOMAIN fn.statements
    BY <1>2, <2>2 DEF Places
  <2>4. k = K
    BY <1>2, <2>3
  <2>5. PICK i \in DOMAIN s.outputs : d = <<K, i>>
    BY <1>2, <2>2, <2>4
  <2>6. NameOf(fn2, d) = s.outputs[i]
    BY <1>2, <2>5 DEF NameOf
  <2> QED
    BY <2>5, <2>6
<1> QED
  BY <1>2, <1>3, <1>4 DEF SamePlaces, K

LEMMA PlacesSame ==
    ASSUME NEW fn, NEW fn2, fn2.inputs = fn.inputs, fn2.statements = fn.statements
    PROVE  Places(fn2) = Places(fn) /\ SamePlaces(fn, fn2)
<1>1. Places(fn2) = Places(fn)
  BY DEF Places
<1>2. \A d : NameOf(fn2, d) = NameOf(fn, d)
  BY DEF NameOf
<1> QED
  BY <1>1, <1>2 DEF SamePlaces

\* A statement that fits, on values of the function that it is appended to.
StatementRight(fs, A, f, s, n) ==
    /\ s \in Statements /\ n \in Nat /\ DOMAIN s.outputs = 1 .. n
    /\ \A i \in DOMAIN s.outputs : s.outputs[i] = <<"tmp", fs[Root(A, f)].nextTmpID + i - 1>>
    /\ Disciplined => Fits(fs, f, s) \/ (s.op \in {"op", "FuncReturn"} /\ s.closures = << >>)
    /\ \/ s.inputs = << >> /\ s.closures = << >>
       \/ ~fs[f].returned /\ Range(s.inputs) \subseteq UNION {DefinedIn(fs[h]) : h \in A[f]}

LEMMA StatementStep ==
    ASSUME NEW fs, NEW A, ProgramInv(fs, A), NEW f \in DOMAIN fs, NEW s, NEW n,
           StatementRight(fs, A, f, s, n),
           NEW fs2, StatementAdded(fs, fs2, f, Root(A, f), s, n)
    PROVE  ProgramInv(fs2, A) /\ Grown(fs, fs2)
<1> DEFINE r == Root(A, f)
           K == Len(fs[f].statements) + 1
<1>0. /\ Tree(fs, A) /\ Forest(fs) /\ NamesInv(fs, A) /\ (Disciplined => FitsInv(fs) /\ SeenInv(fs, A))
      /\ fs \in Seq(FnRecords)
  BY DEF ProgramInv, Tree, Forest
<1>1. s \in Statements /\ n \in Nat /\ r \in DOMAIN fs
  BY <1>0, RootOf DEF StatementRight
<1>2. /\ fs2 \in Seq(FnRecords) /\ DOMAIN fs2 = DOMAIN fs
      /\ \A h \in DOMAIN fs :
            /\ fs2[h].parent = fs[h].parent /\ fs2[h].inputs = fs[h].inputs
            /\ fs2[h].nextArgID = fs[h].nextArgID
            /\ fs2[h].statements = IF h = f THEN Append(fs[h].statements, s) ELSE fs[h].statements
            /\ fs2[h].nextTmpID = IF h = r THEN fs[h].nextTmpID + n ELSE fs[h].nextTmpID
            /\ fs[h].returned => fs2[h].returned /\ fs2[h].outputs = fs[h].outputs
  BY DEF StatementAdded
<1>3. Tree(fs2, A)
  BY <1>0, <1>2, SameTree
<1>4. ASSUME NEW h \in DOMAIN fs
      PROVE  /\ fs[h] \in FnRecords /\ fs2[h] \in FnRecords
             /\ fs[h].nextArgID \in Nat /\ fs[h].nextTmpID \in Nat
             /\ fs[h].statements \in Seq(Statements) /\ fs2[h].statements \in Seq(Statements)
  <2>1. fs[h] \in FnRecords /\ fs2[h] \in FnRecords
    BY <1>0, <1>2, <1>3, ParentIn DEF Tree
  <2> QED
    BY <2>1 DEF FnRecords
<1>5. /\ K \in Nat /\ K # 0 /\ SamePlaces(fs[f], fs2[f])
      /\ \A d \in Places(fs2[f]) \ Places(fs[f]) :
            \E i \in DOMAIN s.outputs : d = <<K, i>> /\ NameOf(fs2[f], d) = s.outputs[i]
  <2>1. fs2[f].inputs = fs[f].inputs /\ fs2[f].statements = Append(fs[f].statements, s)
    BY <1>2
  <2> QED
    BY <1>1, <1>4, <2>1, StatementPlaces
<1>6. ASSUME NEW h \in DOMAIN fs, h # f
      PROVE  Places(fs2[h]) = Places(fs[h]) /\ SamePlaces(fs[h], fs2[h])
  BY <1>2, <1>6, PlacesSame
<1> HIDE DEF K
<1>7. NamesInv(fs2, A)
  <2>1. OthersSame(fs, fs2, f)
    <3>1. \A h \in DOMAIN fs : fs[h].nextArgID <= fs2[h].nextArgID /\ fs[h].nextTmpID <= fs2[h].nextTmpID
      BY <1>1, <1>2, <1>4
    <3> QED
      BY <1>2, <1>5, <1>6, <3>1 DEF OthersSame
  <2>2. ASSUME NEW d \in Places(fs2[f]) \ OldPlaces(fs, f)
        PROVE  /\ FreshName(NameOf(fs2[f], d), fs, fs2, r)
               /\ NameOf(fs2[f], d)[1] # "given"
               /\ \A e \in Places(fs2[f]) \ {d} :
                     e \notin OldPlaces(fs, f) => NameOf(fs2[f], d) # NameOf(fs2[f], e)
    <3>1. OldPlaces(fs, f) = Places(fs[f])
      BY DEF OldPlaces
    <3>2. PICK i \in DOMAIN s.outputs : d = <<K, i>> /\ NameOf(fs2[f], d) = s.outputs[i]
      BY <1>5, <3>1
    <3>3. /\ i \in 1 .. n /\ fs[r].nextTmpID \in Nat /\ fs2[r].nextTmpID = fs[r].nextTmpID + n
          /\ NameOf(fs2[f], d) = <<"tmp", fs[r].nextTmpID + i - 1>>
      BY <1>1, <1>2, <1>4, <3>2 DEF StatementRight
    <3>4. FreshName(NameOf(fs2[f], d), fs, fs2, r)
      <4> DEFINE m == fs[r].nextTmpID + i - 1
      <4>1. m \in Nat /\ fs[r].nextTmpID <= m /\ m < fs2[r].nextTmpID
        BY <1>1, <3>3
      <4> HIDE DEF m
      <4>2. NameOf(fs2[f], d) = <<"tmp", m>>
        BY <3>3 DEF m
      <4> QED
        BY <1>1, <4>1, <4>2 DEF FreshName
    <3>5. ASSUME NEW e \in Places(fs2[f]) \ {d}, e \notin OldPlaces(fs, f)
          PROVE  NameOf(fs2[f], d) # NameOf(fs2[f], e)
      <4>1. PICK j \in DOMAIN s.outputs : e = <<K, j>> /\ NameOf(fs2[f], e) = s.outputs[j]
        BY <1>5, <3>1, <3>5
      <4>2. j \in 1 .. n /\ NameOf(fs2[f], e) = <<"tmp", fs[r].nextTmpID + j - 1>> /\ i # j
        BY <3>2, <3>5, <4>1 DEF StatementRight
      <4>3. fs[r].nextTmpID + i - 1 # fs[r].nextTmpID + j - 1
        BY <3>3, <4>2
      <4> QED
        BY <3>3, <4>2, <4>3
    <3> QED
      BY <3>3, <3>4, <3>5
  <2>3. FreshNames(fs, fs2, A, f)
    BY <2>1, <2>2 DEF FreshNames
  <2> QED
    BY <1>0, <1>3, <2>3, NamesGrown
<1>8. ASSUME NEW h \in DOMAIN fs
      PROVE  /\ DOMAIN fs[h].statements \subseteq DOMAIN fs2[h].statements
             /\ \A k \in DOMAIN fs[h].statements : fs2[h].statements[k] = fs[h].statements[k]
             /\ h # f => NewStatements(fs, fs2, h) = {}
             /\ \A k \in NewStatements(fs, fs2, f) : fs2[f].statements[k] = s
  <2>1. h # f => fs2[h].statements = fs[h].statements
    BY <1>2
  <2>2. fs2[f].statements = Append(fs[f].statements, s) /\ fs[f].statements \in Seq(Statements)
    BY <1>2, <1>4
  <2>3. /\ DOMAIN fs[f].statements \subseteq DOMAIN fs2[f].statements
        /\ \A k \in DOMAIN fs[f].statements : fs2[f].statements[k] = fs[f].statements[k]
        /\ \A k \in DOMAIN fs2[f].statements \ DOMAIN fs[f].statements : fs2[f].statements[k] = s
    BY <1>1, <2>2
  <2> QED
    BY <2>1, <2>3 DEF NewStatements
<1>9. Grown(fs, fs2)
  BY <1>2, <1>8 DEF Grown
<1>10. ASSUME Disciplined
       PROVE  FitsInv(fs2)
  <2>1. NewFits(fs, fs2)
    BY <1>2, <1>8, <1>10 DEF NewFits, StatementRight
  <2> QED
    BY <1>0, <1>9, <1>10, <2>1, FitsGrown
<1>11. ASSUME Disciplined
       PROVE  SeenInv(fs2, A)
  <2>1. NewSeen(fs, A, fs2)
    <3> SUFFICES ASSUME NEW h \in DOMAIN fs2, NEW k \in NewStatements(fs, fs2, h)
                 PROVE  \/ fs2[h].statements[k].inputs = << >> /\ fs2[h].statements[k].closures = << >>
                        \/ /\ h \in DOMAIN fs /\ ~fs[h].returned
                           /\ Range(fs2[h].statements[k].inputs) \subseteq UNION {DefinedIn(fs[g]) : g \in A[h]}
      BY DEF NewSeen
    <3>1. h = f /\ fs2[h].statements[k] = s
      BY <1>2, <1>8
    <3> QED
      BY <3>1 DEF StatementRight
  <2> QED
    BY <1>0, <1>3, <1>9, <1>11, <2>1, SeenGrown
<1> QED
  BY <1>3, <1>7, <1>9, <1>10, <1>11 DEF ProgramInv

-------------------------------------------------------------------------------
(* Inputs. *)

\* A step without a statement more leaves the statements as they were.
LEMMA QuietStep ==
    ASSUME NEW fs, NEW A, ProgramInv(fs, A), NEW fs2, Tree(fs2, A), Grown(fs, fs2), DOMAIN fs2 = DOMAIN fs,
           \A h \in DOMAIN fs : fs2[h].statements = fs[h].statements
    PROVE  Disciplined => FitsInv(fs2) /\ SeenInv(fs2, A)
<1> SUFFICES ASSUME Disciplined
             PROVE  FitsInv(fs2) /\ SeenInv(fs2, A)
  OBVIOUS
<1>1. Tree(fs, A) /\ FitsInv(fs) /\ SeenInv(fs, A)
  BY DEF ProgramInv
<1>2. \A h \in DOMAIN fs2 : NewStatements(fs, fs2, h) = {}
  BY DEF NewStatements
<1>3. FitsInv(fs2)
  <2>1. NewFits(fs, fs2)
    BY <1>2 DEF NewFits
  <2> QED
    BY <1>1, <2>1, FitsGrown
<1>4. SeenInv(fs2, A)
  <2>1. NewSeen(fs, A, fs2)
    BY <1>2 DEF NewSeen
  <2> QED
    BY <1>1, <2>1, SeenGrown
<1> QED
  BY <1>3, <1>4

\* An input is appended to f, and counted at r.
InputAdded(fs, fs2, f, r, name) ==
    /\ fs2 \in Seq(FnRecords) /\ DOMAIN fs2 = DOMAIN fs
    /\ \A h \in DOMAIN fs :
          /\ fs2[h].parent = fs[h].parent /\ fs2[h].statements = fs[h].statements
          /\ fs2[h].returned = fs[h].returned /\ fs2[h].outputs = fs[h].outputs
          /\ fs2[h].nextTmpID = fs[h].nextTmpID
          /\ fs2[h].inputs = IF h = f THEN Append(fs[h].inputs, name) ELSE fs[h].inputs
          /\ fs2[h].nextArgID = IF h = r THEN fs[h].nextArgID + 1 ELSE fs[h].nextArgID

LEMMA SetInputs ==
    ASSUME NEW fn \in FnRecords, NEW name \in Names
    PROVE  [fn EXCEPT !.inputs = Append(@, name)] \in FnRecords
<1>1. Append(fn.inputs, name) \in Seq(Names)
  <2>1. fn.inputs \in Seq(Names)
    BY DEF FnRecords
  <2> QED
    BY <2>1
<1> QED
  BY <1>1 DEF FnRecords

LEMMA SetArgID ==
    ASSUME NEW fn \in FnRecords, NEW n \in Nat
    PROVE  [fn EXCEPT !.nextArgID = @ + n] \in FnRecords
<1>1. fn.nextArgID + n \in Nat
  BY DEF FnRecords
<1> QED
  BY <1>1 DEF FnRecords

LEMMA InputAddedBy ==
    ASSUME NEW fs \in Seq(FnRecords), NEW f \in DOMAIN fs, NEW r \in DOMAIN fs, NEW name \in Names
    PROVE  InputAdded(fs, [fs EXCEPT ![f].inputs = Append(@, name), ![r].nextArgID = @ + 1], f, r, name)
<1> DEFINE fn == [fs[f] EXCEPT !.inputs = Append(@, name)]
           fs1 == [fs EXCEPT ![f] = fn]
           root == [fs1[r] EXCEPT !.nextArgID = @ + 1]
           fs2 == [fs1 EXCEPT ![r] = root]
<1>1. [fs EXCEPT ![f].inputs = Append(@, name), ![r].nextArgID = @ + 1] = fs2
  OBVIOUS
<1>2. \A h \in DOMAIN fs : fs[h] \in FnRecords
  OBVIOUS
<1>3. fn \in FnRecords
  BY <1>2, SetInputs
<1>4. fs1 \in Seq(FnRecords) /\ DOMAIN fs1 = DOMAIN fs /\ \A h \in DOMAIN fs : fs1[h] = IF h = f THEN fn ELSE fs[h]
  <2> HIDE DEF fn
  <2> QED
    BY <1>3, UpdateFunction
<1>5. fs1[r] \in FnRecords
  <2> HIDE DEF fn, fs1
  <2> QED
    BY <1>2, <1>3, <1>4
<1>6. root \in FnRecords
  <2> HIDE DEF fs1
  <2> QED
    BY <1>5, SetArgID
<1>7. fs2 \in Seq(FnRecords) /\ DOMAIN fs2 = DOMAIN fs /\ \A h \in DOMAIN fs : fs2[h] = IF h = r THEN root ELSE fs1[h]
  <2> HIDE DEF root, fs1
  <2> QED
    BY <1>4, <1>6, UpdateFunction
<1>8. /\ fn.parent = fs[f].parent /\ fn.statements = fs[f].statements /\ fn.nextArgID = fs[f].nextArgID
      /\ fn.nextTmpID = fs[f].nextTmpID /\ fn.returned = fs[f].returned /\ fn.outputs = fs[f].outputs
      /\ fn.inputs = Append(fs[f].inputs, name)
  BY <1>2 DEF FnRecords
<1>9. /\ root.parent = fs1[r].parent /\ root.inputs = fs1[r].inputs /\ root.nextTmpID = fs1[r].nextTmpID
      /\ root.nextArgID = fs1[r].nextArgID + 1 /\ root.returned = fs1[r].returned
      /\ root.outputs = fs1[r].outputs /\ root.statements = fs1[r].statements
  <2> HIDE DEF fs1
  <2> QED
    BY <1>5 DEF FnRecords
<1> HIDE DEF fn, fs1, root, fs2
<1>10. ASSUME NEW h \in DOMAIN fs
       PROVE  /\ fs2[h].parent = fs[h].parent /\ fs2[h].statements = fs[h].statements
              /\ fs2[h].nextTmpID = fs[h].nextTmpID
              /\ fs2[h].inputs = IF h = f THEN Append(fs[h].inputs, name) ELSE fs[h].inputs
              /\ fs2[h].nextArgID = IF h = r THEN fs[h].nextArgID + 1 ELSE fs[h].nextArgID
              /\ fs2[h].returned = fs[h].returned /\ fs2[h].outputs = fs[h].outputs
  <2>1. CASE h = r
    <3>1. fs2[h] = root /\ (h = f => fs1[h] = fn) /\ (h # f => fs1[h] = fs[h])
      BY <1>4, <1>7, <2>1
    <3> QED
      BY <1>8, <1>9, <2>1, <3>1
  <2>2. CASE h # r
    <3>1. (h = f => fs2[h] = fn) /\ (h # f => fs2[h] = fs[h])
      BY <1>4, <1>7, <2>2
    <3> QED
      BY <1>8, <2>2, <3>1
  <2> QED
    BY <2>1, <2>2
<1> QED
  BY <1>1, <1>7, <1>10 DEF InputAdded

\* The places of a function after an input more.
LEMMA InputPlaces ==
    ASSUME NEW fn \in FnRecords, NEW fn2 \in FnRecords, NEW name \in Names,
           fn2.inputs = Append(fn.inputs, name), fn2.statements = fn.statements
    PROVE  /\ SamePlaces(fn, fn2)
           /\ \A d \in Places(fn2) \ Places(fn) : d = <<0, Len(fn.inputs) + 1>> /\ NameOf(fn2, d) = name
           /\ \A e \in Places(fn) : NameOf(fn, e) \in Range(fn.inputs) \/ NameOf(fn, e)[1] = "tmp"
<1> DEFINE K == Len(fn.inputs) + 1
<1>1. fn.inputs \in Seq(Names) /\ fn.statements \in Seq(Statements)
  BY DEF FnRecords
<1>2. /\ DOMAIN fn2.inputs = 1 .. K /\ DOMAIN fn.inputs = 1 .. K - 1 /\ fn2.inputs[K] = name /\ K \in Nat
      /\ \A i \in DOMAIN fn.inputs : fn2.inputs[i] = fn.inputs[i] /\ i \in DOMAIN fn2.inputs
      /\ \A i \in DOMAIN fn2.inputs : i \in DOMAIN fn.inputs \/ i = K
  BY <1>1
<1>3. \A k \in DOMAIN fn.statements : k # 0 /\ fn.statements[k] \in Statements
  BY <1>1
<1> HIDE DEF K
<1>4. ASSUME NEW d \in Places(fn)
      PROVE  d \in Places(fn2) /\ NameOf(fn2, d) = NameOf(fn, d)
  <2>1. CASE \E i \in DOMAIN fn.inputs : d = <<0, i>>
    BY <1>2, <2>1 DEF Places, NameOf
  <2>2. CASE \E k \in DOMAIN fn.statements : \E i \in DOMAIN fn.statements[k].outputs : d = <<k, i>>
    <3>1. d[1] # 0
      BY <1>3, <2>2
    <3>2. d \in Places(fn2)
      BY <2>2 DEF Places
    <3> QED
      BY <3>1, <3>2 DEF NameOf
  <2> QED
    BY <2>1, <2>2 DEF Places
<1>5. ASSUME NEW d \in Places(fn2) \ Places(fn)
      PROVE  d = <<0, K>> /\ NameOf(fn2, d) = name
  <2>1. PICK i \in DOMAIN fn2.inputs : d = <<0, i>>
    BY DEF Places
  <2>2. i = K
    BY <1>2, <2>1 DEF Places
  <2> QED
    BY <1>2, <2>1, <2>2 DEF NameOf
<1>6. ASSUME NEW e \in Places(fn)
      PROVE  NameOf(fn, e) \in Range(fn.inputs) \/ NameOf(fn, e)[1] = "tmp"
  <2>1. CASE \E i \in DOMAIN fn.inputs : e = <<0, i>>
    BY <2>1 DEF NameOf, Range
  <2>2. CASE \E k \in DOMAIN fn.statements : \E i \in DOMAIN fn.statements[k].outputs : e = <<k, i>>
    <3>1. PICK k \in DOMAIN fn.statements : \E i \in DOMAIN fn.statements[k].outputs : e = <<k, i>>
      BY <2>2
    <3>2. PICK i \in DOMAIN fn.statements[k].outputs : e = <<k, i>>
      BY <3>1
    <3>3. NameOf(fn, e) = fn.statements[k].outputs[i]
      BY <1>3, <3>2 DEF NameOf
    <3>4. fn.statements[k].outputs \in Seq({"tmp"} \X Nat)
      BY <1>3 DEF Statements
    <3>5. fn.statements[k].outputs[i] \in {"tmp"} \X Nat
      BY <3>4
    <3> QED
      BY <3>3, <3>5
  <2> QED
    BY <2>1, <2>2 DEF Places
<1> QED
  BY <1>4, <1>5, <1>6 DEF SamePlaces, K

LEMMA InputStep ==
    ASSUME NEW fs, NEW A, ProgramInv(fs, A), NEW f \in DOMAIN fs, Disciplined => ~fs[f].returned,
           NEW name \in Names, name \notin Range(fs[f].inputs),
           name[1] = "given" \/ name = <<"arg", fs[Root(A, f)].nextArgID>>,
           NEW fs2, InputAdded(fs, fs2, f, Root(A, f), name)
    PROVE  ProgramInv(fs2, A) /\ Grown(fs, fs2)
<1> DEFINE r == Root(A, f)
           K == Len(fs[f].inputs) + 1
<1>0. Tree(fs, A) /\ NamesInv(fs, A) /\ fs \in Seq(FnRecords)
  BY DEF ProgramInv, Tree, Forest
<1>1. r \in DOMAIN fs
  BY <1>0, RootOf
<1>2. /\ fs2 \in Seq(FnRecords) /\ DOMAIN fs2 = DOMAIN fs
      /\ \A h \in DOMAIN fs :
            /\ fs2[h].parent = fs[h].parent /\ fs2[h].statements = fs[h].statements
            /\ fs2[h].returned = fs[h].returned /\ fs2[h].outputs = fs[h].outputs
            /\ fs2[h].nextTmpID = fs[h].nextTmpID
            /\ fs2[h].inputs = IF h = f THEN Append(fs[h].inputs, name) ELSE fs[h].inputs
            /\ fs2[h].nextArgID = IF h = r THEN fs[h].nextArgID + 1 ELSE fs[h].nextArgID
  BY DEF InputAdded
<1>3. Tree(fs2, A)
  BY <1>0, <1>2, SameTree
<1>4. ASSUME NEW h \in DOMAIN fs
      PROVE  /\ fs[h] \in FnRecords /\ fs2[h] \in FnRecords /\ fs[h].inputs \in Seq(Names)
             /\ fs[h].nextArgID \in Nat /\ fs[h].nextTmpID \in Nat
  <2>1. fs[h] \in FnRecords /\ fs2[h] \in FnRecords
    BY <1>0, <1>2, <1>3, ParentIn DEF Tree
  <2> QED
    BY <2>1 DEF FnRecords
<1>5. /\ SamePlaces(fs[f], fs2[f])
      /\ \A d \in Places(fs2[f]) \ Places(fs[f]) : d = <<0, K>> /\ NameOf(fs2[f], d) = name
      /\ \A e \in Places(fs[f]) : NameOf(fs[f], e) \in Range(fs[f].inputs) \/ NameOf(fs[f], e)[1] = "tmp"
  <2>1. fs2[f].inputs = Append(fs[f].inputs, name) /\ fs2[f].statements = fs[f].statements
    BY <1>2
  <2> QED
    BY <1>4, <2>1, InputPlaces
<1>6. ASSUME NEW h \in DOMAIN fs, h # f
      PROVE  Places(fs2[h]) = Places(fs[h]) /\ SamePlaces(fs[h], fs2[h])
  BY <1>2, <1>6, PlacesSame
<1> HIDE DEF K
<1>7. NamesInv(fs2, A)
  <2>1. OthersSame(fs, fs2, f)
    <3>1. \A h \in DOMAIN fs : fs[h].nextArgID <= fs2[h].nextArgID /\ fs[h].nextTmpID <= fs2[h].nextTmpID
      BY <1>2, <1>4
    <3> QED
      BY <1>2, <1>5, <1>6, <3>1 DEF OthersSame
  <2>2. ASSUME NEW d \in Places(fs2[f]) \ OldPlaces(fs, f)
        PROVE  /\ FreshName(NameOf(fs2[f], d), fs, fs2, r)
               /\ \A e \in Places(fs2[f]) \ {d} : NameOf(fs2[f], d) # NameOf(fs2[f], e)
    <3>1. OldPlaces(fs, f) = Places(fs[f])
      BY DEF OldPlaces
    <3>2. d = <<0, K>> /\ NameOf(fs2[f], d) = name
      BY <1>5, <3>1
    <3>3. FreshName(name, fs, fs2, r)
      <4>1. CASE name[1] = "given"
        BY <4>1 DEF FreshName
      <4>2. CASE name = <<"arg", fs[r].nextArgID>>
        <5> DEFINE n == fs[r].nextArgID
        <5>1. n \in Nat /\ fs[r].nextArgID <= n /\ n < fs2[r].nextArgID /\ name = <<"arg", n>>
          BY <1>1, <1>2, <1>4, <4>2
        <5> HIDE DEF n
        <5> QED
          BY <1>1, <5>1 DEF FreshName
      <4> QED
        BY <4>1, <4>2
    <3>4. ASSUME NEW e \in Places(fs2[f]) \ {d}
          PROVE  name # NameOf(fs2[f], e)
      <4>1. e \in Places(fs[f])
        BY <1>5, <3>2, <3>4
      <4>2. NameOf(fs2[f], e) = NameOf(fs[f], e)
        BY <1>5, <4>1 DEF SamePlaces
      <4>3. NameOf(fs[f], e) \in Range(fs[f].inputs) \/ NameOf(fs[f], e)[1] = "tmp"
        BY <1>5, <4>1
      <4>4. name[1] # "tmp"
        OBVIOUS
      <4> QED
        BY <4>2, <4>3, <4>4
    <3> QED
      BY <3>2, <3>3, <3>4
  <2>3. FreshNames(fs, fs2, A, f)
    BY <2>1, <2>2 DEF FreshNames
  <2> QED
    BY <1>0, <1>3, <2>3, NamesGrown
<1>8. Grown(fs, fs2)
  <2>1. Range(fs[f].inputs) \subseteq Range(Append(fs[f].inputs, name))
    <3>1. fs[f].inputs \in Seq(Names)
      BY <1>4
    <3>2. \A i \in DOMAIN fs[f].inputs : i \in DOMAIN Append(fs[f].inputs, name)
                                        /\ Append(fs[f].inputs, name)[i] = fs[f].inputs[i]
      BY <3>1
    <3> QED
      BY <3>2, Zenon DEF Range
  <2> QED
    BY <1>2, <2>1 DEF Grown
<1>9. Disciplined => FitsInv(fs2) /\ SeenInv(fs2, A)
  BY <1>2, <1>3, <1>8, QuietStep
<1> QED
  BY <1>3, <1>7, <1>8, <1>9 DEF ProgramInv

-------------------------------------------------------------------------------
(* Returns. *)

\* A function is closed, and changes in nothing else.
FunctionClosed(fs, fs2) ==
    /\ fs2 \in Seq(FnRecords) /\ DOMAIN fs2 = DOMAIN fs
    /\ \A h \in DOMAIN fs :
          /\ fs2[h].parent = fs[h].parent /\ fs2[h].statements = fs[h].statements /\ fs2[h].inputs = fs[h].inputs
          /\ fs2[h].nextTmpID = fs[h].nextTmpID /\ fs2[h].nextArgID = fs[h].nextArgID
          /\ fs2[h].outputs = fs[h].outputs /\ (fs[h].returned => fs2[h].returned)

LEMMA CloseStep ==
    ASSUME NEW fs, NEW A, ProgramInv(fs, A), NEW f \in DOMAIN fs, NEW fs2, FunctionClosed(fs, fs2)
    PROVE  ProgramInv(fs2, A) /\ Grown(fs, fs2)
<1>0. Tree(fs, A) /\ NamesInv(fs, A)
  BY DEF ProgramInv
<1>1. /\ fs2 \in Seq(FnRecords) /\ DOMAIN fs2 = DOMAIN fs
      /\ \A h \in DOMAIN fs :
          /\ fs2[h].parent = fs[h].parent /\ fs2[h].statements = fs[h].statements /\ fs2[h].inputs = fs[h].inputs
          /\ fs2[h].nextTmpID = fs[h].nextTmpID /\ fs2[h].nextArgID = fs[h].nextArgID
          /\ fs2[h].outputs = fs[h].outputs /\ (fs[h].returned => fs2[h].returned)
  BY DEF FunctionClosed
<1>2. Tree(fs2, A)
  BY <1>0, <1>1, SameTree
<1>3. Grown(fs, fs2)
  BY <1>1 DEF Grown
<1>4. \A h \in DOMAIN fs : Places(fs2[h]) = Places(fs[h]) /\ SamePlaces(fs[h], fs2[h])
  BY <1>1, PlacesSame
<1>5. \A h \in DOMAIN fs : fs[h].nextArgID \in Nat /\ fs[h].nextTmpID \in Nat
  BY <1>0, ParentIn DEF Tree, FnRecords
<1>6. NamesInv(fs2, A)
  <2>1. FreshNames(fs, fs2, A, f)
    <3>1. \A h \in DOMAIN fs : fs[h].nextArgID <= fs2[h].nextArgID /\ fs[h].nextTmpID <= fs2[h].nextTmpID
      BY <1>1, <1>5
    <3>2. OthersSame(fs, fs2, f)
      BY <1>1, <1>4, <3>1 DEF OthersSame
    <3>3. Places(fs2[f]) \ OldPlaces(fs, f) = {}
      BY <1>4 DEF OldPlaces
    <3> QED
      BY <3>2, <3>3 DEF FreshNames
  <2> QED
    BY <1>0, <1>2, <2>1, NamesGrown
<1>7. Disciplined => FitsInv(fs2) /\ SeenInv(fs2, A)
  BY <1>1, <1>2, <1>3, QuietStep
<1> QED
  BY <1>2, <1>3, <1>6, <1>7 DEF ProgramInv

LEMMA FunctionClosedBy ==
    ASSUME NEW fs \in Seq(FnRecords), NEW f \in DOMAIN fs
    PROVE  FunctionClosed(fs, [fs EXCEPT ![f].returned = TRUE])
<1> DEFINE fn == [fs[f] EXCEPT !.returned = TRUE]
           fs2 == [fs EXCEPT ![f] = fn]
<1>1. [fs EXCEPT ![f].returned = TRUE] = fs2
  OBVIOUS
<1>2. fs[f] \in FnRecords
  OBVIOUS
<1>3. fn \in FnRecords
  BY <1>2 DEF FnRecords
<1>4. fs2 \in Seq(FnRecords) /\ DOMAIN fs2 = DOMAIN fs /\ \A h \in DOMAIN fs : fs2[h] = IF h = f THEN fn ELSE fs[h]
  <2> HIDE DEF fn
  <2> QED
    BY <1>3, UpdateFunction
<1>5. /\ fn.parent = fs[f].parent /\ fn.statements = fs[f].statements /\ fn.inputs = fs[f].inputs
      /\ fn.nextTmpID = fs[f].nextTmpID /\ fn.nextArgID = fs[f].nextArgID
      /\ fn.outputs = fs[f].outputs /\ fn.returned
  BY <1>2 DEF FnRecords
<1> HIDE DEF fn, fs2
<1>6. FunctionClosed(fs, fs2)
  BY <1>4, <1>5 DEF FunctionClosed
<1> QED
  BY <1>1, <1>6

\* A return statement is a statement more, without outputs.
LEMMA ReturnAddedBy ==
    ASSUME NEW fs \in Seq(FnRecords), NEW f \in DOMAIN fs, ~fs[f].returned, NEW r \in DOMAIN fs, NEW s \in Statements
    PROVE  StatementAdded(fs, [fs EXCEPT ![f].returned = TRUE, ![f].outputs = 1,
                                         ![f].statements = Append(@, s)], f, r, s, 0)
<1> DEFINE fn == [[[fs[f] EXCEPT !.returned = TRUE] EXCEPT !.outputs = 1] EXCEPT !.statements = Append(@, s)]
           fs2 == [fs EXCEPT ![f] = fn]
<1>1. [fs EXCEPT ![f].returned = TRUE, ![f].outputs = 1, ![f].statements = Append(@, s)] = fs2
  OBVIOUS
<1>2. fs[f] \in FnRecords
  OBVIOUS
<1>3. fn \in FnRecords
  <2> DEFINE fn1 == [fs[f] EXCEPT !.returned = TRUE]
             fn2 == [fn1 EXCEPT !.outputs = 1]
  <2>1. fn1 \in FnRecords
    BY <1>2 DEF FnRecords
  <2>2. fn2 \in FnRecords
    <3> HIDE DEF fn1
    <3> QED
      BY <2>1 DEF FnRecords
  <2> HIDE DEF fn2
  <2>3. [fn2 EXCEPT !.statements = Append(@, s)] \in FnRecords
    BY <2>2, SetStatements
  <2> QED
    BY <2>3 DEF fn2
<1>4. fs2 \in Seq(FnRecords) /\ DOMAIN fs2 = DOMAIN fs /\ \A h \in DOMAIN fs : fs2[h] = IF h = f THEN fn ELSE fs[h]
  <2> HIDE DEF fn
  <2> QED
    BY <1>3, UpdateFunction
<1>5. /\ fn.parent = fs[f].parent /\ fn.statements = Append(fs[f].statements, s) /\ fn.inputs = fs[f].inputs
      /\ fn.nextTmpID = fs[f].nextTmpID /\ fn.nextArgID = fs[f].nextArgID
  BY <1>2 DEF FnRecords
<1>6. \A h \in DOMAIN fs : fs[h].nextTmpID \in Nat
  <2>1. \A h \in DOMAIN fs : fs[h] \in FnRecords
    OBVIOUS
  <2> QED
    BY <2>1 DEF FnRecords
<1> HIDE DEF fn, fs2
<1>7. ASSUME NEW h \in DOMAIN fs
      PROVE  /\ fs2[h].parent = fs[h].parent /\ fs2[h].inputs = fs[h].inputs
             /\ fs2[h].nextArgID = fs[h].nextArgID
             /\ fs2[h].statements = IF h = f THEN Append(fs[h].statements, s) ELSE fs[h].statements
             /\ fs2[h].nextTmpID = IF h = r THEN fs[h].nextTmpID + 0 ELSE fs[h].nextTmpID
             /\ fs[h].returned => fs2[h].returned /\ fs2[h].outputs = fs[h].outputs
  <2>1. fs2[h] = IF h = f THEN fn ELSE fs[h]
    BY <1>4
  <2>2. fs[h].nextTmpID + 0 = fs[h].nextTmpID
    BY <1>6
  <2>3. CASE h = f
    BY <1>5, <2>1, <2>2, <2>3
  <2>4. CASE h # f
    BY <2>1, <2>2, <2>4
  <2> QED
    BY <2>3, <2>4
<1>8. StatementAdded(fs, fs2, f, r, s, 0)
  BY <1>4, <1>7 DEF StatementAdded
<1> QED
  BY <1>1, <1>8

-------------------------------------------------------------------------------
(* Functions. *)

\* A function is made, and the counters of the others may go on.
FunctionAdded(fs, fs2, fn) ==
    /\ fs2 \in Seq(FnRecords) /\ Len(fs2) = Len(fs) + 1 /\ fs2[Len(fs) + 1] = fn
    /\ \A h \in DOMAIN fs :
          /\ fs2[h].parent = fs[h].parent /\ fs2[h].statements = fs[h].statements /\ fs2[h].inputs = fs[h].inputs
          /\ fs2[h].outputs = fs[h].outputs /\ fs2[h].returned = fs[h].returned
          /\ fs[h].nextTmpID <= fs2[h].nextTmpID /\ fs[h].nextArgID <= fs2[h].nextArgID

\* What is new in it has new names, and refers to itself only.
NewNames(fs, fs2, A2, fn) ==
    \A d \in Places(fn) : /\ FreshName(NameOf(fn, d), fs, fs2, Root(A2, Len(fs) + 1))
                          /\ \A e \in Places(fn) \ {d} : NameOf(fn, d) # NameOf(fn, e)
OwnStatements(fn) ==
    \A k \in DOMAIN fn.statements :
        /\ fn.statements[k].op \in {"op", "FuncReturn"} /\ fn.statements[k].closures = << >>
        /\ Range(fn.statements[k].inputs) \subseteq BeforeIn(fn, k)

LEMMA FunctionStep ==
    ASSUME NEW fs, NEW A, ProgramInv(fs, A), NEW fn, NEW fs2, FunctionAdded(fs, fs2, fn),
           fn.parent < Len(fs) + 1, NEW A2, AreAncestors(A2, fs2),
           NewNames(fs, fs2, A2, fn), OwnStatements(fn)
    PROVE  ProgramInv(fs2, A2) /\ Grown(fs, fs2)
<1> DEFINE f == Len(fs) + 1
<1>0. /\ Tree(fs, A) /\ NamesInv(fs, A) /\ fs \in Seq(FnRecords) /\ Forest(fs)
      /\ Disciplined => FitsInv(fs) /\ SeenInv(fs, A)
  BY DEF ProgramInv, Tree, Forest
<1>1. /\ fs2 \in Seq(FnRecords) /\ Len(fs2) = Len(fs) + 1 /\ fs2[f] = fn
      /\ \A h \in DOMAIN fs :
          /\ fs2[h].parent = fs[h].parent /\ fs2[h].statements = fs[h].statements /\ fs2[h].inputs = fs[h].inputs
          /\ fs2[h].outputs = fs[h].outputs /\ fs2[h].returned = fs[h].returned
          /\ fs[h].nextTmpID <= fs2[h].nextTmpID /\ fs[h].nextArgID <= fs2[h].nextArgID
  BY DEF FunctionAdded
<1>2. /\ DOMAIN fs2 = DOMAIN fs \cup {f} /\ f \in DOMAIN fs2 /\ f \notin DOMAIN fs
      /\ DOMAIN fs \subseteq DOMAIN fs2
  BY <1>0, <1>1
<1> HIDE DEF f
<1>3. Tree(fs2, A2)
  <2>1. \A h \in DOMAIN fs : fs[h].parent < h
    BY <1>0 DEF Forest
  <2>2. fn.parent < f
    BY DEF f
  <2>3. \A h \in DOMAIN fs2 : fs2[h].parent < h
    BY <1>1, <1>2, <2>1, <2>2
  <2> QED
    BY <1>1, <2>3 DEF Tree, Forest
<1>4. Grown(fs, fs2)
  BY <1>1, <1>2 DEF Grown
<1>5. \A h \in DOMAIN fs : Places(fs2[h]) = Places(fs[h]) /\ SamePlaces(fs[h], fs2[h])
  BY <1>1, PlacesSame
<1>6. NamesInv(fs2, A2)
  <2>1. OthersSame(fs, fs2, f)
    BY <1>1, <1>2, <1>5 DEF OthersSame
  <2>2. FreshNames(fs, fs2, A2, f)
    <3>1. ASSUME NEW d \in Places(fs2[f]) \ OldPlaces(fs, f)
          PROVE  /\ FreshName(NameOf(fs2[f], d), fs, fs2, Root(A2, f))
                 /\ \A e \in Places(fs2[f]) \ {d} : NameOf(fs2[f], d) # NameOf(fs2[f], e)
      BY <1>1 DEF NewNames, f
    <3> QED
      BY <2>1, <3>1 DEF FreshNames
  <2> QED
    BY <1>0, <1>3, <2>2, NamesGrown
<1>7. /\ \A h \in DOMAIN fs : NewStatements(fs, fs2, h) = {}
      /\ NewStatements(fs, fs2, f) = DOMAIN fn.statements
  BY <1>1, <1>2 DEF NewStatements
<1>8. ASSUME Disciplined
      PROVE  FitsInv(fs2)
  <2>1. NewFits(fs, fs2)
    BY <1>1, <1>2, <1>7 DEF NewFits, OwnStatements
  <2> QED
    BY <1>0, <1>4, <1>8, <2>1, FitsGrown
<1>9. ASSUME Disciplined
      PROVE  SeenInv(fs2, A2)
  <2>1. NewSeen(fs, A, fs2)
    BY <1>1, <1>2, <1>7 DEF NewSeen, OwnStatements
  <2> QED
    BY <1>0, <1>3, <1>4, <1>9, <2>1, SeenGrown
<1> QED
  BY <1>3, <1>4, <1>6, <1>8, <1>9 DEF ProgramInv

\* A function without inputs or statements.
LEMMA NewFunctionStep ==
    ASSUME NEW fs, NEW A, ProgramInv(fs, A), NEW nm \in {"main", "other", "closure"},
           NEW parent \in Nat, parent = 0 \/ parent \in DOMAIN fs
    PROVE  \E A2 : ProgramInv(Append(fs, NewFn(nm, parent)), A2) /\ Grown(fs, Append(fs, NewFn(nm, parent)))
<1> DEFINE fn == NewFn(nm, parent)
           fs2 == Append(fs, fn)
<1>0. fs \in Seq(FnRecords) /\ Forest(fs)
  BY DEF ProgramInv, Tree, Forest
<1>1. /\ fn \in FnRecords
      /\ fn.parent = parent /\ fn.inputs = << >> /\ fn.statements = << >>
  <2>1. << >> \in Seq(Names) /\ << >> \in Seq(Statements)
    OBVIOUS
  <2>2. fn = [name |-> nm, parent |-> parent, inputs |-> << >>, statements |-> << >>,
              outputs |-> 0, returned |-> FALSE, nextArgID |-> 0, nextTmpID |-> 0]
    BY DEF NewFn
  <2> HIDE DEF fn
  <2> QED
    BY <2>1, <2>2 DEF FnRecords
<1> HIDE DEF fn
<1>2. /\ fs2 \in Seq(FnRecords) /\ Len(fs2) = Len(fs) + 1 /\ fs2[Len(fs) + 1] = fn
      /\ Len(fs) \in Nat /\ DOMAIN fs = 1 .. Len(fs) /\ DOMAIN fs2 = 1 .. Len(fs) + 1
      /\ \A h \in DOMAIN fs : fs2[h] = fs[h]
  BY <1>0, <1>1
<1> HIDE DEF fs2
<1>3. \A h \in DOMAIN fs : fs[h].nextArgID \in Nat /\ fs[h].nextTmpID \in Nat /\ fs[h].parent < h
  BY <1>0, ParentIn DEF FnRecords
<1>4. FunctionAdded(fs, fs2, fn)
  BY <1>2, <1>3 DEF FunctionAdded
<1>5. fn.parent < Len(fs) + 1
  BY <1>1, <1>2
<1>6. Forest(fs2)
  BY <1>2, <1>3, <1>5 DEF Forest
<1>7. PICK A2 : AreAncestors(A2, fs2)
  BY <1>6, AncestorsExist
<1>8. Places(fn) = {} /\ DOMAIN fn.statements = {}
  BY <1>1 DEF Places
<1>9. NewNames(fs, fs2, A2, fn) /\ OwnStatements(fn)
  BY <1>8 DEF NewNames, OwnStatements
<1>10. ProgramInv(fs2, A2) /\ Grown(fs, fs2)
  BY <1>4, <1>5, <1>7, <1>9, FunctionStep
<1> QED
  BY <1>10 DEF fs2, fn

\* The function that combines two values has its own names, and one from the root.
CombiningFn(f, n) ==
    LET lhs == <<"given", "lhs">>
        rhs == <<"given", "rhs">>
    IN [name |-> "closure", parent |-> f, inputs |-> <<lhs, rhs>>,
        statements |-> <<[op |-> "op", inputs |-> <<lhs, rhs>>, outputs |-> <<<<"tmp", n>>>>,
                          closures |-> << >>, callee |-> 0],
                         [op |-> "FuncReturn", inputs |-> <<<<"tmp", n>>>>, outputs |-> << >>,
                          closures |-> << >>, callee |-> 0]>>,
        outputs |-> 1, returned |-> TRUE, nextArgID |-> 0, nextTmpID |-> 0]

LEMMA SetFunction ==
    ASSUME NEW f, NEW ins, NEW sts, NEW fn, NEW fn2,
           fn = [NewFn("closure", f) EXCEPT !.inputs = ins, !.statements = sts, !.outputs = 1, !.returned = TRUE],
           fn2 = [name |-> "closure", parent |-> f, inputs |-> ins, statements |-> sts,
                  outputs |-> 1, returned |-> TRUE, nextArgID |-> 0, nextTmpID |-> 0]
    PROVE  fn = fn2
<1>1. /\ DOMAIN fn = {"name", "parent", "inputs", "statements", "outputs", "returned", "nextArgID", "nextTmpID"}
      /\ DOMAIN fn2 = DOMAIN fn
  BY DEF NewFn
<1>2. fn.name = fn2.name
  BY DEF NewFn
<1>3. fn.parent = fn2.parent
  BY DEF NewFn
<1>4. fn.inputs = fn2.inputs
  BY DEF NewFn
<1>5. fn.statements = fn2.statements
  BY DEF NewFn
<1>6. fn.outputs = fn2.outputs
  BY DEF NewFn
<1>7. fn.returned = fn2.returned
  BY DEF NewFn
<1>8. fn.nextArgID = fn2.nextArgID /\ fn.nextTmpID = fn2.nextTmpID
  BY DEF NewFn
<1>9. \A x \in DOMAIN fn : fn[x] = fn2[x]
  BY <1>1, <1>2, <1>3, <1>4, <1>5, <1>6, <1>7, <1>8, Zenon
<1>10. fn = [x \in DOMAIN fn |-> fn[x]] /\ fn2 = [x \in DOMAIN fn2 |-> fn2[x]]
  BY DEF NewFn
<1>11. [x \in DOMAIN fn |-> fn[x]] = [x \in DOMAIN fn2 |-> fn2[x]]
  BY <1>1, <1>9, Zenon
<1> QED
  BY <1>10, <1>11, Zenon

LEMMA CombiningIs ==
    ASSUME NEW f
    PROVE  Combining(f) = CombiningFn(f, functions[findRootFn(f)].nextTmpID)
<1> DEFINE n == functions[findRootFn(f)].nextTmpID
           ins == <<<<"given", "lhs">>, <<"given", "rhs">>>>
           outs == <<<<"tmp", n>>>>
           stmt == [op |-> "op", inputs |-> ins, outputs |-> outs, closures |-> << >>, callee |-> 0]
           ret == [op |-> "FuncReturn", inputs |-> outs, outputs |-> << >>, closures |-> << >>, callee |-> 0]
<1>1. [stmt EXCEPT !.op = "FuncReturn", !.inputs = outs, !.outputs = << >>] = ret
  <2> DEFINE e == << >>
             s == [stmt EXCEPT !.op = "FuncReturn", !.inputs = outs, !.outputs = e]
  <2>1. /\ stmt = [op |-> "op", inputs |-> ins, outputs |-> outs, closures |-> e, callee |-> 0]
        /\ ret = [op |-> "FuncReturn", inputs |-> outs, outputs |-> e, closures |-> e, callee |-> 0]
    BY Zenon
  <2> HIDE DEF ins, outs, e, stmt, ret
  <2>2. DOMAIN s = {"op", "inputs", "outputs", "closures", "callee"} /\ DOMAIN ret = DOMAIN s
    BY <2>1
  <2>3. s.op = ret.op
    BY <2>1
  <2>4. s.inputs = ret.inputs
    BY <2>1
  <2>5. s.outputs = ret.outputs
    BY <2>1
  <2>6. s.closures = ret.closures /\ s.callee = ret.callee
    BY <2>1
  <2>7. s = [x \in DOMAIN s |-> s[x]] /\ ret = [x \in DOMAIN ret |-> ret[x]]
    BY <2>1
  <2> HIDE DEF s
  <2>8. \A x \in DOMAIN s : s[x] = ret[x]
    BY <2>2, <2>3, <2>4, <2>5, <2>6, Zenon
  <2>9. s = ret
    BY <2>2, <2>7, <2>8, Zenon
  <2> QED
    BY <2>9 DEF s, e
<1>2. Combining(f) = [NewFn("closure", f) EXCEPT
           !.inputs = ins,
           !.statements = <<stmt, [stmt EXCEPT !.op = "FuncReturn", !.inputs = outs, !.outputs = << >>]>>,
           !.outputs = 1, !.returned = TRUE]
  BY Zenon DEF Combining
<1>3. CombiningFn(f, n) = [name |-> "closure", parent |-> f, inputs |-> ins, statements |-> <<stmt, ret>>,
                           outputs |-> 1, returned |-> TRUE, nextArgID |-> 0, nextTmpID |-> 0]
  BY Zenon DEF CombiningFn
<1> HIDE DEF stmt, ret, ins, outs
<1>4. Combining(f) = [NewFn("closure", f) EXCEPT
           !.inputs = ins, !.statements = <<stmt, ret>>, !.outputs = 1, !.returned = TRUE]
  BY <1>1, <1>2, Zenon
<1> DEFINE sts == <<stmt, ret>>
<1>5. /\ Combining(f) = [NewFn("closure", f) EXCEPT !.inputs = ins, !.statements = sts, !.outputs = 1, !.returned = TRUE]
      /\ CombiningFn(f, n) = [name |-> "closure", parent |-> f, inputs |-> ins, statements |-> sts,
                               outputs |-> 1, returned |-> TRUE, nextArgID |-> 0, nextTmpID |-> 0]
  BY <1>3, <1>4
<1> HIDE DEF sts, n
<1>6. Combining(f) = CombiningFn(f, n)
  BY <1>5, SetFunction
<1> QED
  BY <1>6 DEF n

LEMMA CombiningFnType ==
    ASSUME NEW f \in Nat, NEW n \in Nat
    PROVE  CombiningFn(f, n) \in FnRecords
<1> DEFINE lhs == <<"given", "lhs">>
           rhs == <<"given", "rhs">>
           result == <<"tmp", n>>
           s1 == [op |-> "op", inputs |-> <<lhs, rhs>>, outputs |-> <<result>>, closures |-> << >>, callee |-> 0]
           s2 == [op |-> "FuncReturn", inputs |-> <<result>>, outputs |-> << >>, closures |-> << >>, callee |-> 0]
<1>1. lhs \in Names /\ rhs \in Names /\ result \in Names /\ result \in {"tmp"} \X Nat
  BY DEF Names, Given
<1>2. CombiningFn(f, n) = [name |-> "closure", parent |-> f, inputs |-> <<lhs, rhs>>, statements |-> <<s1, s2>>,
                           outputs |-> 1, returned |-> TRUE, nextArgID |-> 0, nextTmpID |-> 0]
  BY DEF CombiningFn
<1> HIDE DEF lhs, rhs, result
<1>3. <<lhs, rhs>> \in Seq(Names) /\ <<result>> \in Seq(Names) /\ <<result>> \in Seq({"tmp"} \X Nat)
  BY <1>1
<1>4. << >> \in Seq(Nat) /\ << >> \in Seq({"tmp"} \X Nat)
  OBVIOUS
<1>5. s1 \in Statements
  BY <1>3, <1>4 DEF Statements
<1>6. s2 \in Statements
  BY <1>3, <1>4 DEF Statements
<1> HIDE DEF s1, s2
<1>7. <<s1, s2>> \in Seq(Statements)
  BY <1>5, <1>6
<1> QED
  BY <1>2, <1>3, <1>7 DEF FnRecords

LEMMA CombiningPlaces ==
    ASSUME NEW f \in Nat, NEW n \in Nat
    PROVE  LET fn == CombiningFn(f, n)
           IN /\ \A d \in Places(fn) : \/ d = <<0, 1>> /\ NameOf(fn, d) = <<"given", "lhs">>
                                       \/ d = <<0, 2>> /\ NameOf(fn, d) = <<"given", "rhs">>
                                       \/ d = <<1, 1>> /\ NameOf(fn, d) = <<"tmp", n>>
              /\ OwnStatements(fn)
<1> DEFINE fn == CombiningFn(f, n)
           lhs == <<"given", "lhs">>
           rhs == <<"given", "rhs">>
           result == <<"tmp", n>>
<1>1. /\ fn.inputs = <<lhs, rhs>> /\ Len(fn.statements) = 2 /\ DOMAIN fn.statements = {1, 2}
      /\ fn.statements[1].outputs = <<result>> /\ fn.statements[1].inputs = <<lhs, rhs>>
      /\ fn.statements[1].op = "op" /\ fn.statements[1].closures = << >>
      /\ fn.statements[2].outputs = << >> /\ fn.statements[2].inputs = <<result>>
      /\ fn.statements[2].op = "FuncReturn" /\ fn.statements[2].closures = << >>
  BY DEF CombiningFn
<1>2. lhs[1] = "given" /\ rhs[1] = "given" /\ DOMAIN <<lhs, rhs>> = {1, 2}
  OBVIOUS
<1> HIDE DEF fn, lhs, rhs, result
<1>3. ASSUME NEW d \in Places(fn)
      PROVE  \/ d = <<0, 1>> /\ NameOf(fn, d) = lhs
             \/ d = <<0, 2>> /\ NameOf(fn, d) = rhs
             \/ d = <<1, 1>> /\ NameOf(fn, d) = result
  <2>1. CASE \E i \in DOMAIN fn.inputs : d = <<0, i>>
    <3>1. PICK i \in {1, 2} : d = <<0, i>>
      BY <1>1, <1>2, <2>1
    <3> QED
      BY <1>1, <3>1 DEF NameOf
  <2>2. CASE \E k \in DOMAIN fn.statements : \E i \in DOMAIN fn.statements[k].outputs : d = <<k, i>>
    <3>1. PICK k \in {1, 2} : \E i \in DOMAIN fn.statements[k].outputs : d = <<k, i>>
      BY <1>1, <2>2
    <3>2. k = 1
      BY <1>1, <3>1
    <3>3. d = <<1, 1>>
      BY <1>1, <3>1, <3>2
    <3> QED
      BY <1>1, <3>3 DEF NameOf
  <2> QED
    BY <2>1, <2>2 DEF Places
<1>4. OwnStatements(fn)
  <2>1. Range(<<lhs, rhs>>) \subseteq BeforeIn(fn, 1)
    BY <1>1 DEF BeforeIn
  <2>2. Range(<<result>>) \subseteq BeforeIn(fn, 2)
    <3>1. 1 \in 1 .. 2 - 1
      OBVIOUS
    <3> QED
      BY <1>1, <3>1, Zenon DEF BeforeIn
  <2> QED
    BY <1>1, <2>1, <2>2 DEF OwnStatements
<1> QED
  BY <1>3, <1>4 DEF fn, lhs, rhs, result

LEMMA CombinedBy ==
    ASSUME NEW fs \in Seq(FnRecords), NEW fn \in FnRecords, NEW r \in DOMAIN fs,
           NEW gs, gs = [Append(fs, fn) EXCEPT ![r].nextTmpID = @ + 1, ![r].nextArgID = @ + 2]
    PROVE  FunctionAdded(fs, gs, fn) /\ gs[r].nextTmpID = fs[r].nextTmpID + 1
<1> DEFINE fs0 == Append(fs, fn)
           r1 == [fs0[r] EXCEPT !.nextTmpID = @ + 1]
           r2 == [r1 EXCEPT !.nextArgID = @ + 2]
           fs2 == [fs0 EXCEPT ![r] = r2]
           N == Len(fs) + 1
<1>1. gs = fs2
  OBVIOUS
<1>2. /\ fs0 \in Seq(FnRecords) /\ Len(fs0) = N /\ fs0[N] = fn /\ N \in Nat
      /\ \A h \in DOMAIN fs : fs0[h] = fs[h] /\ h # N /\ h \in DOMAIN fs0 /\ fs[h] \in FnRecords
      /\ N \in DOMAIN fs0
  OBVIOUS
<1> HIDE DEF fs0, N
<1>3. r1 \in FnRecords
  BY <1>2, SetTmpID
<1>4. r2 \in FnRecords
  <2> HIDE DEF r1
  <2> QED
    BY <1>3, SetArgID
<1>5. fs2 \in Seq(FnRecords) /\ DOMAIN fs2 = DOMAIN fs0 /\ \A h \in DOMAIN fs0 : fs2[h] = IF h = r THEN r2 ELSE fs0[h]
  <2> HIDE DEF r2
  <2> QED
    BY <1>2, <1>4, UpdateFunction
<1>6. /\ r1.parent = fs[r].parent /\ r1.statements = fs[r].statements /\ r1.inputs = fs[r].inputs
      /\ r1.outputs = fs[r].outputs /\ r1.returned = fs[r].returned
      /\ r1.nextTmpID = fs[r].nextTmpID + 1 /\ r1.nextArgID = fs[r].nextArgID
  BY <1>2 DEF FnRecords
<1>7. /\ r2.parent = r1.parent /\ r2.statements = r1.statements /\ r2.inputs = r1.inputs
      /\ r2.outputs = r1.outputs /\ r2.returned = r1.returned
      /\ r2.nextTmpID = r1.nextTmpID /\ r2.nextArgID = r1.nextArgID + 2
  <2> HIDE DEF r1
  <2> QED
    BY <1>3 DEF FnRecords
<1> HIDE DEF r1, r2, fs2
<1>8. Len(fs2) = N /\ fs2[N] = fn
  BY <1>2, <1>5
<1>9. \A h \in DOMAIN fs : fs[h].nextTmpID \in Nat /\ fs[h].nextArgID \in Nat
  BY <1>2 DEF FnRecords
<1>10. \A h \in DOMAIN fs :
          /\ fs2[h].parent = fs[h].parent /\ fs2[h].statements = fs[h].statements /\ fs2[h].inputs = fs[h].inputs
          /\ fs2[h].outputs = fs[h].outputs /\ fs2[h].returned = fs[h].returned
          /\ fs[h].nextTmpID <= fs2[h].nextTmpID /\ fs[h].nextArgID <= fs2[h].nextArgID
  <2> TAKE h \in DOMAIN fs
  <2>1. CASE h = r
    BY <1>2, <1>5, <1>6, <1>7, <1>9, <2>1
  <2>2. CASE h # r
    BY <1>2, <1>5, <1>9, <2>2
  <2> QED
    BY <2>1, <2>2
<1>11. FunctionAdded(fs, fs2, fn)
  BY <1>5, <1>8, <1>10 DEF FunctionAdded, N
<1>12. fs2[r].nextTmpID = fs[r].nextTmpID + 1
  BY <1>2, <1>5, <1>6, <1>7
<1> QED
  BY <1>1, <1>11, <1>12

LEMMA CombinedStep ==
    ASSUME NEW fs, NEW A, ProgramInv(fs, A), NEW f \in DOMAIN fs
    PROVE  LET r == Root(A, f)
               fn == CombiningFn(f, fs[r].nextTmpID)
               fs2 == [Append(fs, fn) EXCEPT ![r].nextTmpID = @ + 1, ![r].nextArgID = @ + 2]
           IN \E A2 : ProgramInv(fs2, A2) /\ Grown(fs, fs2) /\ Kept(fs2, Len(fs) + 1)
<1> DEFINE r == Root(A, f)
           n == fs[r].nextTmpID
           fn == CombiningFn(f, n)
           fs2 == [Append(fs, fn) EXCEPT ![r].nextTmpID = @ + 1, ![r].nextArgID = @ + 2]
           N == Len(fs) + 1
<1>0. Tree(fs, A) /\ fs \in Seq(FnRecords) /\ Forest(fs)
  BY DEF ProgramInv, Tree, Forest
<1>1. r \in DOMAIN fs /\ f \in Nat /\ f < N /\ n \in Nat
  <2>1. r \in DOMAIN fs
    BY <1>0, RootOf
  <2>2. n \in Nat
    BY <1>0, <2>1, ParentIn DEF FnRecords
  <2> QED
    BY <1>0, <2>1, <2>2
<1>2. fn \in FnRecords /\ fn.parent = f /\ fn.returned = TRUE /\ Len(fn.inputs) = 2
  <2>1. fn \in FnRecords
    <3> HIDE DEF n
    <3> QED
      BY <1>1, CombiningFnType
  <2> QED
    BY <2>1 DEF CombiningFn
<1>3. /\ \A d \in Places(fn) : \/ d = <<0, 1>> /\ NameOf(fn, d) = <<"given", "lhs">>
                               \/ d = <<0, 2>> /\ NameOf(fn, d) = <<"given", "rhs">>
                               \/ d = <<1, 1>> /\ NameOf(fn, d) = <<"tmp", n>>
      /\ OwnStatements(fn)
  <2> HIDE DEF n
  <2> QED
    BY <1>1, CombiningPlaces
<1> HIDE DEF fn, n
<1>4. FunctionAdded(fs, fs2, fn) /\ fs2[r].nextTmpID = n + 1
  <2> HIDE DEF r
  <2>0. fs2 = [Append(fs, fn) EXCEPT ![r].nextTmpID = @ + 1, ![r].nextArgID = @ + 2]
    OBVIOUS
  <2> HIDE DEF fs2
  <2>1. FunctionAdded(fs, fs2, fn) /\ fs2[r].nextTmpID = fs[r].nextTmpID + 1
    <3>1. fs \in Seq(FnRecords) /\ fn \in FnRecords /\ r \in DOMAIN fs
      BY <1>0, <1>1, <1>2
    <3>2. \A gs : gs = [Append(fs, fn) EXCEPT ![r].nextTmpID = @ + 1, ![r].nextArgID = @ + 2] =>
             FunctionAdded(fs, gs, fn) /\ gs[r].nextTmpID = fs[r].nextTmpID + 1
      BY <3>1, CombinedBy
    <3> QED
      BY <2>0, <3>2
  <2> HIDE DEF fs2
  <2> QED
    BY <2>1 DEF n
<1> HIDE DEF fs2
<1>5. /\ fs2 \in Seq(FnRecords) /\ Len(fs2) = Len(fs) + 1 /\ fs2[N] = fn /\ N \in DOMAIN fs2 /\ N \notin DOMAIN fs
      /\ DOMAIN fs2 = DOMAIN fs \cup {N}
      /\ \A h \in DOMAIN fs : fs2[h].parent = fs[h].parent
  BY <1>0, <1>4 DEF FunctionAdded
<1>6. Forest(fs2)
  <2>1. \A h \in DOMAIN fs : fs[h].parent < h
    BY <1>0 DEF Forest
  <2> HIDE DEF N
  <2> QED
    BY <1>1, <1>2, <1>5, <2>1 DEF Forest
<1>7. PICK A2 : AreAncestors(A2, fs2)
  BY <1>6, AncestorsExist
<1>8. Tree(fs2, A2)
  BY <1>6, <1>7 DEF Tree
<1>9. Root(A2, N) = r
  <2>1. A2[f] = A[f]
    BY <1>0, <1>5, <1>8, AncestorsSame
  <2>2. Root(A2, f) = r
    BY <2>1 DEF Root
  <2>3. A2[N] = {N} \cup A2[f]
    <3>1. fs2[N].parent = f /\ f # 0
      BY <1>0, <1>2, <1>5
    <3> HIDE DEF N
    <3> QED
      BY <1>5, <1>7, <3>1 DEF AreAncestors
  <2>4. f \in A2[f]
    BY <1>5, <1>8, AncestorsBelow
  <2>5. f \in A2[N]
    BY <2>3, <2>4
  <2> HIDE DEF N, r
  <2> QED
    BY <1>5, <1>8, <2>2, <2>5, RootShared
<1>10. NewNames(fs, fs2, A2, fn)
  <2>1. ASSUME NEW d \in Places(fn)
        PROVE  FreshName(NameOf(fn, d), fs, fs2, r)
    <3>1. CASE NameOf(fn, d) = <<"tmp", n>>
      <4>1. fs[r].nextTmpID <= n /\ n < fs2[r].nextTmpID
        BY <1>1, <1>4 DEF n
      <4> HIDE DEF r
      <4> QED
        BY <1>1, <3>1, <4>1 DEF FreshName
    <3>2. CASE NameOf(fn, d)[1] = "given"
      BY <3>2 DEF FreshName
    <3> QED
      BY <1>3, <3>1, <3>2
  <2>2. ASSUME NEW d \in Places(fn), NEW e \in Places(fn) \ {d}
        PROVE  NameOf(fn, d) # NameOf(fn, e)
    BY <1>3
  <2> QED
    BY <1>9, <2>1, <2>2 DEF NewNames
<1>11. ProgramInv(fs2, A2) /\ Grown(fs, fs2)
  BY <1>1, <1>2, <1>3, <1>4, <1>7, <1>10, FunctionStep
<1>12. Kept(fs2, N)
  BY <1>2, <1>5 DEF Kept
<1> QED
  BY <1>11, <1>12 DEF fs2, fn, n

\* The function kept stays complete.
LEMMA KeptGrown ==
    ASSUME NEW fs, NEW fs2, Grown(fs, fs2), NEW c, Kept(fs, c)
    PROVE  Kept(fs2, c)
  BY DEF Grown, Kept

-------------------------------------------------------------------------------
(* The operators of the model are those above, for the functions there are. *)

LEMMA OperatorsOfModel ==
    /\ \A f : findRootFn(f) = Root(ancestors, f)
    /\ \A f : Defined(f) = DefinedIn(functions[f])
    /\ \A f, k : Before(f, k) = BeforeIn(functions[f], k)
    /\ \A f : Definitions(f) = Places(functions[f])
    /\ \A f, d : NameAt(f, d) = NameOf(functions[f], d)
    /\ \A c : Sites(c) = SitesIn(functions, c)
    /\ \A f : closuresAround(f) = Inner(functions, ancestors, f)
<1>1. \A f : findRootFn(f) = Root(ancestors, f)
  BY DEF findRootFn, Root
<1>2. \A f : Defined(f) = DefinedIn(functions[f])
  BY DEF Defined, DefinedIn
<1>3. \A f, k : Before(f, k) = BeforeIn(functions[f], k)
  BY DEF Before, BeforeIn
<1>4. \A f : Definitions(f) = Places(functions[f])
  BY DEF Definitions, Places
<1>5. \A f, d : NameAt(f, d) = NameOf(functions[f], d)
  BY DEF NameAt, NameOf
<1>6. \A c : Sites(c) = SitesIn(functions, c)
  BY DEF Sites, SitesIn
<1>7. \A f : closuresAround(f) = Inner(functions, ancestors, f)
  BY DEF closuresAround, Inner
<1> QED
  BY <1>1, <1>2, <1>3, <1>4, <1>5, <1>6, <1>7

LEMMA AroundOfModel ==
    ASSUME NEW f
    PROVE  around(f) = AroundIn(functions, ancestors, f)
<1>1. \A c : InScope(c) = ScopeIn(functions, c)
  BY OperatorsOfModel, Zenon DEF InScope, ScopeIn
<1> QED
  BY <1>1, OperatorsOfModel, Zenon DEF around, AroundIn

\* Appended is the step of a statement.
LEMMA AppendedStep ==
    ASSUME NEW fs, NEW A, ProgramInv(fs, A), NEW f \in DOMAIN fs, findRootFn(f) = Root(A, f),
           NEW op \in {"op", "Reduce", "While", "If", "Call"}, NEW inputs \in Seq(Names), NEW n \in Nat,
           NEW closures \in Seq(Nat), NEW callee \in Nat,
           \/ op = "op" /\ closures = << >>
           \/ Disciplined => \A outputs : Len(outputs) = n =>
                 Fits(fs, f, [op |-> op, inputs |-> inputs, outputs |-> outputs, closures |-> closures, callee |-> callee]),
           \/ inputs = << >> /\ closures = << >>
           \/ ~fs[f].returned /\ Range(inputs) \subseteq UNION {DefinedIn(fs[h]) : h \in A[f]}
    PROVE  LET fs2 == Appended(fs, f, op, inputs, n, closures, callee)
           IN /\ ProgramInv(fs2, A) /\ Grown(fs, fs2) /\ DOMAIN fs2 = DOMAIN fs
              /\ n # 0 => /\ <<"tmp", fs[Root(A, f)].nextTmpID>> \in DefinedIn(fs2[f])
                          /\ <<"tmp", fs[Root(A, f)].nextTmpID>> \in Names
<1> DEFINE r == Root(A, f)
           first == fs[r].nextTmpID
           outputs == [i \in 1 .. n |-> <<"tmp", first + i - 1>>]
           s == [op |-> op, inputs |-> inputs, closures |-> closures, callee |-> callee, outputs |-> outputs]
           fs2 == Appended(fs, f, op, inputs, n, closures, callee)
<1>1. /\ Tree(fs, A) /\ fs \in Seq(FnRecords) /\ r \in DOMAIN fs /\ first \in Nat
      /\ fs[f].statements \in Seq(Statements)
  <2>1. Tree(fs, A) /\ fs \in Seq(FnRecords)
    BY DEF ProgramInv, Tree, Forest
  <2>2. r \in DOMAIN fs
    BY <2>1, RootOf
  <2> QED
    BY <2>1, <2>2, ParentIn DEF Tree, FnRecords
<1>2. fs2 = [fs EXCEPT ![f].statements = Append(@, s), ![r].nextTmpID = @ + n]
  BY DEF Appended
<1> HIDE DEF fs2, r, first
<1>3. outputs \in Seq({"tmp"} \X Nat) /\ Len(outputs) = n /\ DOMAIN outputs = 1 .. n
  <2>1. \A i \in 1 .. n : <<"tmp", first + i - 1>> \in {"tmp"} \X Nat
    BY <1>1
  <2>2. outputs \in [1 .. n -> {"tmp"} \X Nat]
    BY <2>1
  <2> HIDE DEF outputs
  <2> QED
    BY <2>2
<1>4. \A i \in DOMAIN outputs : outputs[i] = <<"tmp", first + i - 1>>
  OBVIOUS
<1> HIDE DEF outputs
<1>5. s \in Statements
  BY <1>3 DEF Statements
<1>6. StatementRight(fs, A, f, s, n)
  <2>1. Disciplined => Fits(fs, f, s) \/ (s.op \in {"op", "FuncReturn"} /\ s.closures = << >>)
    BY <1>3
  <2> QED
    BY <1>3, <1>4, <1>5, <2>1 DEF StatementRight, first, r
<1> HIDE DEF s
<1>7. StatementAdded(fs, fs2, f, r, s, n)
  BY <1>1, <1>2, <1>5, StatementAddedBy
<1>8. ProgramInv(fs2, A) /\ Grown(fs, fs2) /\ DOMAIN fs2 = DOMAIN fs
  <2>1. ProgramInv(fs2, A) /\ Grown(fs, fs2)
    BY <1>6, <1>7, StatementStep DEF r
  <2> QED
    BY <1>7, <2>1 DEF StatementAdded
<1>9. ASSUME n # 0
      PROVE  <<"tmp", first>> \in DefinedIn(fs2[f]) /\ <<"tmp", first>> \in Names
  <2>1. fs2[f].statements = Append(fs[f].statements, s)
    BY <1>7 DEF StatementAdded
  <2>2. s \in Range(fs2[f].statements)
    <3>1. Len(fs[f].statements) + 1 \in DOMAIN Append(fs[f].statements, s)
          /\ Append(fs[f].statements, s)[Len(fs[f].statements) + 1] = s
      BY <1>1, <1>5
    <3> QED
      BY <2>1, <3>1, Zenon DEF Range
  <2>3. outputs[1] = <<"tmp", first>> /\ 1 \in DOMAIN outputs
    <3>1. 1 \in 1 .. n /\ first + 1 - 1 = first
      BY <1>1, <1>9
    <3> QED
      BY <1>3, <1>4, <3>1
  <2>4. <<"tmp", first>> \in Range(s.outputs)
    <3>1. s.outputs = outputs
      BY DEF s
    <3> QED
      BY <2>3, <3>1, Zenon DEF Range
  <2>5. <<"tmp", first>> \in Names
    BY <1>1 DEF Names
  <2> QED
    BY <2>2, <2>4, <2>5, Zenon DEF DefinedIn
<1> QED
  BY <1>8, <1>9 DEF fs2, r, first

-------------------------------------------------------------------------------
(* The calls of the program.  Each grows a program into another. *)

Good == ProgramInv(functions, ancestors)
GrowsInto(fs, fs2) == Grown(fs, fs2) /\ \E A : ProgramInv(fs2, A)

LEMMA GoodFacts ==
    ASSUME Good
    PROVE  /\ functions \in Seq(FnRecords) /\ Tree(functions, ancestors) /\ Forest(functions)
           /\ IDs = DOMAIN functions /\ IDs \in SUBSET Nat
           /\ \A f \in IDs : /\ functions[f] \in FnRecords /\ functions[f].outputs \in Nat /\ f \in ancestors[f]
                             /\ ancestors[f] \subseteq IDs
                             /\ findRootFn(f) \in IDs /\ functions[findRootFn(f)].nextArgID \in Nat
<1>1. functions \in Seq(FnRecords) /\ Tree(functions, ancestors) /\ Forest(functions) /\ IDs = DOMAIN functions
  BY DEF Good, ProgramInv, Tree, Forest, IDs
<1>2. \A f \in IDs : /\ f \in Nat /\ functions[f] \in FnRecords
                     /\ f \in ancestors[f] /\ ancestors[f] \subseteq IDs
  BY <1>1, ParentIn, AncestorsBelow
<1>3. \A f \in IDs : findRootFn(f) \in IDs
  BY <1>1, OperatorsOfModel, RootOf
<1>4. \A f \in IDs : functions[f].outputs \in Nat /\ functions[f].nextArgID \in Nat
  BY <1>2 DEF FnRecords
<1> QED
  BY <1>1, <1>2, <1>3, <1>4

LEMMA DefinedNames ==
    ASSUME NEW fn \in FnRecords
    PROVE  DefinedIn(fn) \subseteq Names
<1>1. fn.inputs \in Seq(Names) /\ fn.statements \in Seq(Statements)
  BY DEF FnRecords
<1>2. Range(fn.inputs) \subseteq Names
  BY <1>1 DEF Range
<1>3. \A s \in Range(fn.statements) : s \in Statements
  BY <1>1 DEF Range
<1>4. ASSUME NEW s \in Statements
      PROVE  Range(s.outputs) \subseteq Names
  <2>1. s.outputs \in Seq({"tmp"} \X Nat)
    BY DEF Statements
  <2>2. Range(s.outputs) \subseteq {"tmp"} \X Nat
    BY <2>1 DEF Range
  <2> QED
    BY <2>2 DEF Names
<1> QED
  BY <1>2, <1>3, <1>4 DEF DefinedIn

\* The names of the values of a function are defined around it.
LEMMA ValueNames ==
    ASSUME Good, NEW f \in IDs, NEW x \in Values(f)
    PROVE  /\ x.fn = f /\ x.name \in Names
           /\ x.name \in UNION {DefinedIn(functions[h]) : h \in ancestors[f]}
<1>1. x.fn = f /\ x.name \in UNION {Defined(g) : g \in ancestors[f]}
  BY DEF Values
<1>2. PICK h \in ancestors[f] : x.name \in DefinedIn(functions[h])
  BY <1>1, OperatorsOfModel
<1>3. functions[h] \in FnRecords
  BY GoodFacts
<1> QED
  BY <1>1, <1>2, <1>3, DefinedNames

LEMMA ValueOfFunction ==
    ASSUME NEW x \in AllValues
    PROVE  x.fn \in IDs /\ x \in Values(x.fn)
<1>1. PICK f \in IDs : x \in Values(f)
  BY DEF AllValues
<1>2. x.fn = f
  BY <1>1 DEF Values
<1> QED
  BY <1>1, <1>2

\* So are the operands of a statement, which are values of functions around it.
LEMMA Operands ==
    ASSUME Good, NEW f \in IDs, NEW xs, Len(xs) \in Nat, DOMAIN xs = 1 .. Len(xs),
           \A i \in DOMAIN xs : xs[i].fn \in ancestors[f] /\ xs[i] \in Values(xs[i].fn)
    PROVE  /\ NamesOf(xs) \in Seq(Names) /\ Len(NamesOf(xs)) = Len(xs)
           /\ Range(NamesOf(xs)) \subseteq UNION {DefinedIn(functions[h]) : h \in ancestors[f]}
<1>1. ASSUME NEW i \in DOMAIN xs
      PROVE  xs[i].name \in Names /\ xs[i].name \in UNION {DefinedIn(functions[h]) : h \in ancestors[f]}
  <2> DEFINE g == xs[i].fn
  <2>1. g \in ancestors[f] /\ g \in IDs /\ xs[i] \in Values(g)
    BY GoodFacts
  <2>2. ancestors[g] \subseteq ancestors[f]
    BY <2>1, GoodFacts, AncestorsTransitive
  <2>3. xs[i].name \in Names /\ xs[i].name \in UNION {DefinedIn(functions[h]) : h \in ancestors[g]}
    BY <2>1, ValueNames
  <2> QED
    BY <2>2, <2>3
<1>2. NamesOf(xs) = [i \in 1 .. Len(xs) |-> xs[i].name]
  BY DEF NamesOf
<1>3. \A i \in 1 .. Len(xs) : xs[i].name \in Names
  BY <1>1
<1>4. NamesOf(xs) \in Seq(Names) /\ Len(NamesOf(xs)) = Len(xs)
  BY <1>2, <1>3
<1>5. Range(NamesOf(xs)) = {xs[i].name : i \in DOMAIN xs}
  BY <1>2, Zenon DEF Range
<1> QED
  BY <1>1, <1>4, <1>5

\* A statement on such operands, that fits.
LEMMA StatementCall ==
    ASSUME Good, NEW f \in IDs, NEW xs, Len(xs) \in Nat, DOMAIN xs = 1 .. Len(xs),
           \A i \in DOMAIN xs : xs[i].fn \in ancestors[f] /\ xs[i] \in Values(xs[i].fn),
           NEW op \in {"op", "Reduce", "While", "If", "Call"}, NEW n \in Nat,
           NEW closures \in Seq(Nat), NEW callee \in Nat,
           \/ op = "op" /\ closures = << >>
           \/ Disciplined => \A inputs, outputs : Len(inputs) = Len(xs) /\ Len(outputs) = n =>
                 Fits(functions, f, [op |-> op, inputs |-> inputs, outputs |-> outputs,
                                     closures |-> closures, callee |-> callee]),
           (xs = << >> /\ closures = << >>) \/ ~functions[f].returned,
           addMultiOp(f, op, xs, n, closures, callee)
    PROVE  GrowsInto(functions, functions')
<1>1. /\ NamesOf(xs) \in Seq(Names) /\ Len(NamesOf(xs)) = Len(xs)
      /\ Range(NamesOf(xs)) \subseteq UNION {DefinedIn(functions[h]) : h \in ancestors[f]}
  BY Operands
<1>2. functions' = Appended(functions, f, op, NamesOf(xs), n, closures, callee)
  BY DEF addMultiOp
<1>3. f \in DOMAIN functions /\ findRootFn(f) = Root(ancestors, f) /\ ProgramInv(functions, ancestors)
  BY OperatorsOfModel DEF IDs, Good
<1>4. xs = << >> => NamesOf(xs) = << >>
  BY <1>1
<1> DEFINE inputs == NamesOf(xs)
<1>5. \/ op = "op" /\ closures = << >>
      \/ Disciplined => \A outputs : Len(outputs) = n =>
            Fits(functions, f, [op |-> op, inputs |-> inputs, outputs |-> outputs, closures |-> closures, callee |-> callee])
  BY <1>1
<1>6. \/ inputs = << >> /\ closures = << >>
      \/ ~functions[f].returned /\ Range(inputs) \subseteq UNION {DefinedIn(functions[h]) : h \in ancestors[f]}
  BY <1>1, <1>4
<1>7. inputs \in Seq(Names) /\ functions' = Appended(functions, f, op, inputs, n, closures, callee)
  BY <1>1, <1>2
<1> HIDE DEF inputs
<1>8. /\ ProgramInv(Appended(functions, f, op, inputs, n, closures, callee), ancestors)
      /\ Grown(functions, Appended(functions, f, op, inputs, n, closures, callee))
  BY <1>3, <1>5, <1>6, <1>7, AppendedStep
<1> QED
  BY <1>7, <1>8 DEF GrowsInto

LEMMA Operations ==
    ASSUME Good, NEW f \in IDs, ConstantFromScalar(f) \/ Iota(f) \/ binaryOp(f) \/ innerMostOp(f)
    PROVE  GrowsInto(functions, functions')
<1>0. << >> \in Seq(Nat) /\ 0 \in Nat /\ 1 \in Nat /\ f \in ancestors[f]
  BY GoodFacts
<1>1. ASSUME NEW xs, Len(xs) \in Nat, DOMAIN xs = 1 .. Len(xs),
             \A i \in DOMAIN xs : xs[i].fn \in ancestors[f] /\ xs[i] \in Values(xs[i].fn),
             xs = << >> \/ ~functions[f].returned,
             addMultiOp(f, "op", xs, 1, << >>, 0)
      PROVE  GrowsInto(functions, functions')
  BY <1>0, <1>1, StatementCall
<1>2. CASE ConstantFromScalar(f) \/ Iota(f)
  <2>1. addMultiOp(f, "op", << >>, 1, << >>, 0)
    BY <1>2 DEF ConstantFromScalar, Iota
  <2>2. Len(<< >>) = 0 /\ DOMAIN << >> = 1 .. 0
    OBVIOUS
  <2> QED
    BY <1>1, <2>1, <2>2
<1>3. CASE binaryOp(f)
  <2>1. PICK x \in Values(f) : ~functions[f].returned /\ addMultiOp(f, "op", <<x, x>>, 1, << >>, 0)
    BY <1>3 DEF binaryOp
  <2>2. x.fn = f
    BY <2>1, ValueNames
  <2>3. /\ Len(<<x, x>>) \in Nat /\ DOMAIN <<x, x>> = 1 .. Len(<<x, x>>)
        /\ \A i \in DOMAIN <<x, x>> : <<x, x>>[i] = x
    OBVIOUS
  <2> QED
    BY <1>0, <1>1, <2>1, <2>2, <2>3
<1>4. CASE innerMostOp(f)
  <2>1. PICK x \in AllValues, y \in AllValues :
           f \in innerMostFunction(<<x, y>>) /\ ~functions[f].returned /\ addMultiOp(f, "op", <<x, y>>, 1, << >>, 0)
    BY <1>4 DEF innerMostOp
  <2> DEFINE xs == <<x, y>>
  <2>2. /\ Len(xs) \in Nat /\ DOMAIN xs = 1 .. Len(xs)
        /\ \A i \in DOMAIN xs : xs[i] = x \/ xs[i] = y
    OBVIOUS
  <2> HIDE DEF xs
  <2>3. \A i \in DOMAIN xs : xs[i].fn \in ancestors[f]
    BY <2>1 DEF innerMostFunction, isAncestor, xs
  <2>4. x \in Values(x.fn) /\ y \in Values(y.fn)
    BY ValueOfFunction
  <2>5. \A i \in DOMAIN xs : xs[i] \in Values(xs[i].fn)
    BY <2>2, <2>4
  <2>6. ~functions[f].returned /\ addMultiOp(f, "op", xs, 1, << >>, 0)
    BY <2>1 DEF xs
  <2> QED
    BY <1>1, <2>2, <2>3, <2>5, <2>6
<1> QED
  BY <1>2, <1>3, <1>4

\* The statements that take or call functions: these are complete.
LEMMA StatementsWithFunctions ==
    ASSUME Good, NEW f \in IDs, Reduce(f) \/ While(f) \/ If(f) \/ Call(f)
    PROVE  GrowsInto(functions, functions')
<1>0. /\ << >> \in Seq(Nat) /\ 0 \in Nat /\ 1 \in Nat /\ f \in ancestors[f] /\ IDs = DOMAIN functions
      /\ \A c \in IDs : c \in Nat /\ functions[c].outputs \in Nat
  BY GoodFacts
<1>1. ASSUME NEW x \in Values(f), ~functions[f].returned,
             NEW op \in {"Reduce", "While", "If", "Call"}, NEW n \in Nat,
             NEW closures \in Seq(Nat), NEW callee \in Nat,
             Disciplined => \A inputs, outputs : Len(inputs) = 1 /\ Len(outputs) = n =>
                 Fits(functions, f, [op |-> op, inputs |-> inputs, outputs |-> outputs,
                                     closures |-> closures, callee |-> callee]),
             addMultiOp(f, op, <<x>>, n, closures, callee)
      PROVE  GrowsInto(functions, functions')
  <2> DEFINE xs == <<x>>
  <2>1. Len(xs) = 1 /\ DOMAIN xs = 1 .. Len(xs) /\ \A i \in DOMAIN xs : xs[i] = x
    OBVIOUS
  <2>2. addMultiOp(f, op, xs, n, closures, callee)
    BY <1>1
  <2> HIDE DEF xs
  <2>3. \A i \in DOMAIN xs : xs[i].fn \in ancestors[f] /\ xs[i] \in Values(xs[i].fn)
    BY <1>0, <1>1, <2>1, ValueNames
  <2>4. Disciplined => \A inputs, outputs : Len(inputs) = Len(xs) /\ Len(outputs) = n =>
           Fits(functions, f, [op |-> op, inputs |-> inputs, outputs |-> outputs, closures |-> closures, callee |-> callee])
    BY <1>1, <2>1
  <2>5. op \in {"op", "Reduce", "While", "If", "Call"} /\ Len(xs) \in Nat
    BY <1>1, <2>1
  <2> QED
    BY <1>1, <2>1, <2>2, <2>3, <2>4, <2>5, StatementCall
<1>2. CASE Reduce(f)
  <2>1. PICK c \in IDs, x \in Values(f) :
           /\ withClosure(f, c) /\ Len(functions[c].inputs) = 2
           /\ addMultiOp(f, "Reduce", <<x>>, 1, <<c>>, 0)
    BY <1>2 DEF Reduce
  <2>2. ~functions[f].returned /\ (Disciplined => functions[c].returned) /\ functions[c].parent = f
    BY <2>1 DEF withClosure, Complete
  <2>3. <<c>> \in Seq(Nat) /\ DOMAIN <<c>> = {1} /\ <<c>>[1] = c
    BY <1>0
  <2>4. Disciplined => \A inputs, outputs : Len(inputs) = 1 /\ Len(outputs) = 1 =>
           Fits(functions, f, [op |-> "Reduce", inputs |-> inputs, outputs |-> outputs, closures |-> <<c>>, callee |-> 0])
    BY <1>0, <2>1, <2>2, <2>3 DEF Fits
  <2> QED
    BY <1>0, <1>1, <2>1, <2>2, <2>3, <2>4
<1>3. CASE While(f)
  <2>1. PICK cond \in IDs, body \in IDs, x \in Values(f) :
           /\ withClosure(f, cond) /\ withClosure(f, body)
           /\ Len(functions[cond].inputs) = 1 /\ Len(functions[body].inputs) = 1
           /\ addMultiOp(f, "While", <<x>>, 1, <<cond, body>>, 0)
    BY <1>3 DEF While
  <2>2. /\ ~functions[f].returned /\ functions[cond].parent = f /\ functions[body].parent = f
        /\ Disciplined => functions[cond].returned /\ functions[body].returned
    BY <2>1 DEF withClosure, Complete
  <2>3. /\ <<cond, body>> \in Seq(Nat) /\ DOMAIN <<cond, body>> = {1, 2}
        /\ <<cond, body>>[1] = cond /\ <<cond, body>>[2] = body
    BY <1>0
  <2>4. Disciplined => \A inputs, outputs : Len(inputs) = 1 /\ Len(outputs) = 1 =>
           Fits(functions, f, [op |-> "While", inputs |-> inputs, outputs |-> outputs, closures |-> <<cond, body>>, callee |-> 0])
    BY <1>0, <2>1, <2>2, <2>3 DEF Fits
  <2> QED
    BY <1>0, <1>1, <2>1, <2>2, <2>3, <2>4
<1>4. CASE If(f)
  <2>1. PICK onTrue \in IDs, onFalse \in IDs, pred \in Values(f) :
           /\ withClosure(f, onTrue) /\ withClosure(f, onFalse)
           /\ functions[onTrue].outputs = functions[onFalse].outputs
           /\ addMultiOp(f, "If", <<pred>>, functions[onTrue].outputs, <<onTrue, onFalse>>, 0)
    BY <1>4 DEF If
  <2>2. /\ ~functions[f].returned /\ functions[onTrue].parent = f /\ functions[onFalse].parent = f
        /\ Disciplined => functions[onTrue].returned /\ functions[onFalse].returned
    BY <2>1 DEF withClosure, Complete
  <2>3. /\ <<onTrue, onFalse>> \in Seq(Nat) /\ DOMAIN <<onTrue, onFalse>> = {1, 2}
        /\ <<onTrue, onFalse>>[1] = onTrue /\ <<onTrue, onFalse>>[2] = onFalse
    BY <1>0
  <2>4. Disciplined => \A inputs, outputs : Len(inputs) = 1 /\ Len(outputs) = functions[onTrue].outputs =>
           Fits(functions, f, [op |-> "If", inputs |-> inputs, outputs |-> outputs, closures |-> <<onTrue, onFalse>>, callee |-> 0])
    BY <1>0, <2>1, <2>2, <2>3 DEF Fits
  <2>5. functions[onTrue].outputs \in Nat
    BY <1>0
  <2> QED
    BY <1>0, <1>1, <2>1, <2>2, <2>3, <2>4, <2>5
<1>5. CASE Call(f)
  <2>1. PICK callee \in IDs, x \in Values(f) :
           /\ ~functions[f].returned /\ Complete(callee) /\ Len(functions[callee].inputs) = 1
           /\ addMultiOp(f, "Call", <<x>>, functions[callee].outputs, << >>, callee)
    BY <1>5 DEF Call
  <2>2. (Disciplined => functions[callee].returned) /\ callee \in Nat /\ functions[callee].outputs \in Nat
    BY <1>0, <2>1 DEF Complete
  <2>3. Disciplined => \A inputs, outputs : Len(inputs) = 1 /\ Len(outputs) = functions[callee].outputs =>
           Fits(functions, f, [op |-> "Call", inputs |-> inputs, outputs |-> outputs, closures |-> << >>, callee |-> callee])
    BY <1>0, <2>1, <2>2 DEF Fits
  <2> QED
    BY <1>0, <1>1, <2>1, <2>2, <2>3
<1> QED
  BY <1>2, <1>3, <1>4, <1>5

LEMMA Inputs ==
    ASSUME Good, NEW f \in IDs, Input(f) \/ NamedInput(f)
    PROVE  GrowsInto(functions, functions')
<1>1. /\ functions \in Seq(FnRecords) /\ f \in DOMAIN functions /\ findRootFn(f) = Root(ancestors, f)
      /\ ProgramInv(functions, ancestors) /\ findRootFn(f) \in DOMAIN functions
      /\ functions[findRootFn(f)].nextArgID \in Nat
  BY GoodFacts, OperatorsOfModel DEF Good
<1>2. PICK name : /\ NamedInputWithShardingAndAttributes(f, name)
                  /\ name \in Names
                  /\ name[1] = "given" \/ name = <<"arg", functions[findRootFn(f)].nextArgID>>
  <2>1. CASE Input(f)
    <3>1. <<"arg", functions[findRootFn(f)].nextArgID>> \in Names
      BY <1>1 DEF Names
    <3> QED
      BY <2>1, <3>1 DEF Input
  <2>2. CASE NamedInput(f)
    <3>1. PICK name \in GivenNames : NamedInputWithShardingAndAttributes(f, <<"given", name>>)
      BY <2>2 DEF NamedInput
    <3>2. <<"given", name>> \in Names /\ <<"given", name>>[1] = "given"
      BY DEF Names, Given
    <3> QED
      BY <3>1, <3>2
  <2> QED
    BY <2>1, <2>2
<1>3. /\ (Disciplined => ~functions[f].returned) /\ name \notin Range(functions[f].inputs)
      /\ functions' = [functions EXCEPT ![f].inputs = Append(@, name), ![findRootFn(f)].nextArgID = @ + 1]
  BY <1>2 DEF NamedInputWithShardingAndAttributes
<1>4. InputAdded(functions, functions', f, findRootFn(f), name)
  BY <1>1, <1>2, <1>3, InputAddedBy
<1>5. ProgramInv(functions', ancestors) /\ Grown(functions, functions')
  BY <1>1, <1>2, <1>3, <1>4, InputStep
<1> QED
  BY <1>5 DEF GrowsInto

LEMMA Returns ==
    ASSUME Good, NEW f \in IDs, Return(f)
    PROVE  GrowsInto(functions, functions')
<1>1. /\ functions \in Seq(FnRecords) /\ f \in DOMAIN functions /\ findRootFn(f) = Root(ancestors, f)
      /\ ProgramInv(functions, ancestors) /\ findRootFn(f) \in DOMAIN functions /\ f \in ancestors[f]
  BY GoodFacts, OperatorsOfModel DEF Good
<1> DEFINE stmt(x) == [op |-> "FuncReturn", inputs |-> <<x.name>>, outputs |-> << >>, closures |-> << >>, callee |-> 0]
<1>2. PICK x \in AllValues :
         /\ ~functions[f].returned
         /\ functions' = IF x.fn = f
                         THEN [functions EXCEPT ![f].returned = TRUE, ![f].outputs = 1,
                                                ![f].statements = Append(@, stmt(x))]
                         ELSE [functions EXCEPT ![f].returned = TRUE]
  BY DEF Return
<1>3. CASE x.fn # f
  <2>1. FunctionClosed(functions, functions')
    BY <1>1, <1>2, <1>3, FunctionClosedBy
  <2>2. ProgramInv(functions', ancestors) /\ Grown(functions, functions')
    BY <1>1, <2>1, CloseStep
  <2> QED
    BY <2>2 DEF GrowsInto
<1>4. CASE x.fn = f
  <2> DEFINE s == stmt(x)
  <2>1. x.name \in Names /\ x.name \in UNION {DefinedIn(functions[h]) : h \in ancestors[f]}
    <3>1. x \in Values(f)
      BY <1>4, ValueOfFunction
    <3> QED
      BY <3>1, ValueNames
  <2>2. s \in Statements
    <3>1. <<x.name>> \in Seq(Names) /\ << >> \in Seq({"tmp"} \X Nat) /\ << >> \in Seq(Nat)
      BY <2>1
    <3> QED
      BY <3>1 DEF Statements
  <2>3. StatementRight(functions, ancestors, f, s, 0)
    <3>1. DOMAIN s.outputs = 1 .. 0 /\ DOMAIN s.outputs = {} /\ s.op = "FuncReturn" /\ s.closures = << >>
      OBVIOUS
    <3>2. Range(s.inputs) = {x.name}
      <4>1. s.inputs = [i \in {1} |-> x.name]
        OBVIOUS
      <4> QED
        BY <4>1 DEF Range
    <3> HIDE DEF s
    <3> QED
      BY <1>2, <2>1, <2>2, <3>1, <3>2 DEF StatementRight
  <2>4. functions' = [functions EXCEPT ![f].returned = TRUE, ![f].outputs = 1, ![f].statements = Append(@, s)]
    BY <1>2, <1>4
  <2> HIDE DEF s
  <2>5. StatementAdded(functions, functions', f, Root(ancestors, f), s, 0)
    <3> DEFINE r == Root(ancestors, f)
    <3>1. r \in DOMAIN functions
      BY <1>1
    <3> HIDE DEF r
    <3>2. StatementAdded(functions, [functions EXCEPT ![f].returned = TRUE, ![f].outputs = 1,
                                                      ![f].statements = Append(@, s)], f, r, s, 0)
      BY <1>1, <1>2, <2>2, <3>1, ReturnAddedBy
    <3> QED
      BY <2>4, <3>2, Zenon DEF r
  <2>6. ProgramInv(functions', ancestors) /\ Grown(functions, functions')
    BY <1>1, <2>3, <2>5, StatementStep
  <2> QED
    BY <2>6 DEF GrowsInto
<1> QED
  BY <1>3, <1>4

LEMMA NewFunctions ==
    ASSUME Good, NewFunction \/ \E f \in IDs : Closure(f)
    PROVE  GrowsInto(functions, functions')
<1>1. ProgramInv(functions, ancestors) /\ IDs = DOMAIN functions /\ IDs \subseteq Nat /\ 0 \in Nat
  BY GoodFacts DEF Good
<1>2. CASE NewFunction
  <2>1. functions' = Append(functions, NewFn("other", 0))
    BY <1>2 DEF NewFunction
  <2> QED
    BY <1>1, <2>1, NewFunctionStep DEF GrowsInto
<1>3. CASE \E f \in IDs : Closure(f)
  <2>1. PICK f \in IDs : functions' = Append(functions, NewFn("closure", f))
    BY <1>3 DEF Closure
  <2> QED
    BY <1>1, <2>1, NewFunctionStep DEF GrowsInto
<1> QED
  BY <1>2, <1>3

-------------------------------------------------------------------------------
(* The reductions of the backend: a function, a constant and a statement. *)

\* The function kept, or made.
LEMMA ReductionFn ==
    ASSUME Good, Kept(functions, cacheReductions), NEW f \in IDs, NEW c,
           c = IF cacheReductions = 0 THEN Len(functions) + 1 ELSE cacheReductions
    PROVE  \E A : /\ ProgramInv(getReductionFn(f), A) /\ Grown(functions, getReductionFn(f))
                  /\ Kept(getReductionFn(f), c) /\ c \in Nat /\ c # 0
<1>1. ProgramInv(functions, ancestors) /\ f \in DOMAIN functions /\ findRootFn(f) = Root(ancestors, f)
      /\ Len(functions) \in Nat /\ DOMAIN functions \subseteq Nat
  BY GoodFacts, OperatorsOfModel DEF Good
<1>2. CASE cacheReductions # 0
  <2>1. getReductionFn(f) = functions
    BY <1>2 DEF getReductionFn
  <2>2. Grown(functions, functions)
    BY DEF Grown
  <2>3. c = cacheReductions
    BY <1>2
  <2>4. c \in Nat /\ c # 0
    BY <1>1, <1>2, <2>3 DEF Kept
  <2> QED
    BY <1>1, <2>1, <2>2, <2>3, <2>4
<1>3. CASE cacheReductions = 0
  <2> DEFINE r == Root(ancestors, f)
             fn == CombiningFn(f, functions[r].nextTmpID)
             fs2 == [Append(functions, fn) EXCEPT ![r].nextTmpID = @ + 1, ![r].nextArgID = @ + 2]
  <2>1. getReductionFn(f) = fs2
    BY <1>1, <1>3, CombiningIs DEF getReductionFn
  <2>2. \E A2 : ProgramInv(fs2, A2) /\ Grown(functions, fs2) /\ Kept(fs2, Len(functions) + 1)
    BY <1>1, CombinedStep
  <2>3. c = Len(functions) + 1 /\ c \in Nat /\ c # 0
    BY <1>1, <1>3
  <2> QED
    BY <2>1, <2>2, <2>3
<1> QED
  BY <1>2, <1>3

\* What was true of the functions there were is true of them in a program that has grown.
LEMMA GrownFacts ==
    ASSUME Good, NEW fs2, NEW A, ProgramInv(fs2, A), Grown(functions, fs2)
    PROVE  \A f \in IDs : /\ f \in DOMAIN fs2 /\ findRootFn(f) = Root(A, f) /\ A[f] = ancestors[f]
                          /\ fs2[f].parent = functions[f].parent
                          /\ DefinedIn(functions[f]) \subseteq DefinedIn(fs2[f])
<1>1. IDs = DOMAIN functions /\ Tree(functions, ancestors) /\ Tree(fs2, A) /\ Forest(functions) /\ Forest(fs2)
  BY GoodFacts DEF ProgramInv, Tree
<1>2. \A f \in IDs : A[f] = ancestors[f]
  BY <1>1, AncestorsSame DEF Grown
<1>3. \A f \in IDs : findRootFn(f) = Root(A, f)
  BY <1>2, OperatorsOfModel DEF Root
<1>4. \A f \in IDs : DefinedIn(functions[f]) \subseteq DefinedIn(fs2[f])
  BY <1>1, BeforeGrows
<1> QED
  BY <1>1, <1>2, <1>3, <1>4 DEF Grown

LEMMA GrownTwice ==
    ASSUME NEW fs, NEW fs1, NEW fs2, Grown(fs, fs1), Grown(fs1, fs2)
    PROVE  Grown(fs, fs2)
<1>1. DOMAIN fs \subseteq DOMAIN fs2
  BY DEF Grown
<1>2. ASSUME NEW f \in DOMAIN fs
      PROVE  /\ fs2[f].parent = fs[f].parent
             /\ DOMAIN fs[f].statements \subseteq DOMAIN fs2[f].statements
             /\ \A k \in DOMAIN fs[f].statements : fs2[f].statements[k] = fs[f].statements[k]
             /\ Range(fs[f].inputs) \subseteq Range(fs2[f].inputs)
             /\ fs[f].returned => /\ fs2[f].returned /\ fs2[f].outputs = fs[f].outputs
                                  /\ Disciplined => fs2[f].inputs = fs[f].inputs
  <2>1. f \in DOMAIN fs1
    BY DEF Grown
  <2> QED
    BY <2>1, Zenon DEF Grown
<1> QED
  BY <1>1, <1>2, Zenon DEF Grown

LEMMA Reductions ==
    ASSUME Good, Kept(functions, cacheReductions), NEW f \in IDs, reduce(f)
    PROVE  /\ GrowsInto(functions, functions')
           /\ cacheReductions' \in Nat /\ Kept(functions', cacheReductions')
<1> DEFINE c == IF cacheReductions = 0 THEN Len(functions) + 1 ELSE cacheReductions
           combined == getReductionFn(f)
           r == findRootFn(f)
           initial == <<"tmp", combined[r].nextTmpID>>
           initialized == Appended(combined, f, "op", << >>, 1, << >>, 0)
           innermost(x) == innerMostFunction(<<x, [fn |-> f, name |-> initial]>>)
           taking(x) == {h \in innermost(x) : TakesReductionFn(initialized, h, c)}
           reduced(x) == {Appended(initialized, g, "Reduce", <<x.name, initial>>, 1, <<c>>, 0) : g \in taking(x)}
<1>1. PICK x \in AllValues :
         /\ cacheReductions' = c
         /\ functions' \in IF functions[f].returned THEN {combined}
                           ELSE IF reduced(x) = {} THEN {initialized} ELSE reduced(x)
  BY Zenon DEF reduce
<1>2. PICK A : /\ ProgramInv(combined, A) /\ Grown(functions, combined)
               /\ Kept(combined, c) /\ c \in Nat /\ c # 0
  BY ReductionFn
<1> HIDE DEF c
<1>3. functions' = combined => GrowsInto(functions, functions') /\ Kept(functions', c)
  BY <1>2, Zenon DEF GrowsInto
<1> HIDE DEF combined
<1>4. f \in DOMAIN combined /\ r = Root(A, f)
  BY <1>2, GrownFacts
<1>5. /\ ProgramInv(initialized, A) /\ Grown(combined, initialized)
      /\ initial \in DefinedIn(initialized[f]) /\ initial \in Names
  <2>1. << >> \in Seq(Names) /\ << >> \in Seq(Nat) /\ 0 \in Nat /\ 1 \in Nat /\ 1 # 0 /\ "op" \in {"op", "Reduce", "While", "If", "Call"}
    OBVIOUS
  <2> QED
    BY <1>2, <1>4, <2>1, AppendedStep
<1> HIDE DEF initialized, initial
<1>6. Grown(functions, initialized) /\ Kept(initialized, c)
  BY <1>2, <1>5, GrownTwice, KeptGrown
<1>7. functions' = initialized => GrowsInto(functions, functions') /\ Kept(functions', c)
  BY <1>5, <1>6, Zenon DEF GrowsInto
<1>8. ASSUME NEW g \in taking(x), functions' = Appended(initialized, g, "Reduce", <<x.name, initial>>, 1, <<c>>, 0)
      PROVE  GrowsInto(functions, functions') /\ Kept(functions', c)
  <2> DEFINE y == [fn |-> f, name |-> initial]
             xs == <<x, y>>
  <2>1. /\ DOMAIN xs = {1, 2} /\ xs[1] = x /\ xs[2] = y /\ y.fn = f
    OBVIOUS
  <2>2. g \in innerMostFunction(xs) /\ ~initialized[g].returned /\ initialized[c].parent = g
    BY <1>8 DEF TakesReductionFn
  <2> HIDE DEF xs, y
  <2>3. (g = x.fn \/ g = f) /\ x.fn \in ancestors[g] /\ f \in ancestors[g]
    BY <2>1, <2>2 DEF innerMostFunction, isAncestor
  <2>4. x.fn \in IDs /\ x \in Values(x.fn)
    BY ValueOfFunction
  <2>5. g \in IDs
    BY <2>3, <2>4
  <2>6. /\ g \in DOMAIN initialized /\ findRootFn(g) = Root(A, g) /\ A[g] = ancestors[g]
        /\ \A h \in ancestors[g] : DefinedIn(functions[h]) \subseteq DefinedIn(initialized[h])
    BY <1>5, <1>6, <2>5, GoodFacts, GrownFacts
  <2>7. x.name \in Names /\ x.name \in UNION {DefinedIn(initialized[h]) : h \in A[g]}
    <3>1. x.name \in Names /\ x.name \in UNION {DefinedIn(functions[h]) : h \in ancestors[x.fn]}
      BY <2>4, ValueNames
    <3>2. ancestors[x.fn] \subseteq ancestors[g]
      BY <2>3, <2>5, GoodFacts, AncestorsTransitive
    <3> QED
      BY <2>6, <3>1, <3>2
  <2>8. initial \in UNION {DefinedIn(initialized[h]) : h \in A[g]}
    BY <1>5, <2>3, <2>6
  <2> DEFINE inputs == <<x.name, initial>>
             closures == <<c>>
  <2>9. inputs \in Seq(Names) /\ Range(inputs) = {x.name, initial}
    <3>1. inputs = [i \in {1, 2} |-> IF i = 1 THEN x.name ELSE initial]
      OBVIOUS
    <3> QED
      BY <1>5, <2>7, <3>1 DEF Range
  <2>10. closures \in Seq(Nat) /\ DOMAIN closures = {1} /\ closures[1] = c
    BY <1>2
  <2>11. functions' = Appended(initialized, g, "Reduce", inputs, 1, closures, 0)
    BY <1>8
  <2> HIDE DEF inputs, closures
  <2>12. Disciplined => \A outputs : Len(outputs) = 1 =>
            Fits(initialized, g, [op |-> "Reduce", inputs |-> inputs, outputs |-> outputs, closures |-> closures, callee |-> 0])
    BY <1>2, <1>6, <2>2, <2>10 DEF Fits, Kept
  <2>13. Range(inputs) \subseteq UNION {DefinedIn(initialized[h]) : h \in A[g]}
    BY <2>7, <2>8, <2>9
  <2>14. ProgramInv(functions', A) /\ Grown(initialized, functions')
    <3>1. "Reduce" \in {"op", "Reduce", "While", "If", "Call"} /\ 0 \in Nat /\ 1 \in Nat
      OBVIOUS
    <3> QED
      BY <1>5, <2>2, <2>6, <2>9, <2>10, <2>11, <2>12, <2>13, <3>1, AppendedStep
  <2>15. Grown(functions, functions') /\ Kept(functions', c)
    BY <1>6, <2>14, GrownTwice, KeptGrown
  <2> QED
    BY <2>14, <2>15 DEF GrowsInto
<1>9. functions' = combined \/ functions' = initialized \/ functions' \in reduced(x)
  BY <1>1
<1> QED
  BY <1>1, <1>2, <1>3, <1>7, <1>8, <1>9

-------------------------------------------------------------------------------
(* The invariant holds. *)

LEMMA InvGood ==
    ASSUME FunctionsInv
    PROVE  Good
<1>1. PICK A : ProgramInv(functions, A)
  BY DEF FunctionsInv
<1>2. Tree(functions, A) /\ Tree(functions, ancestors)
  BY <1>1, AncestorsSolve DEF ProgramInv, Tree
<1>3. \A f \in DOMAIN functions : A[f] = ancestors[f]
  BY <1>2, AncestorsSame
<1>4. /\ A \in [DOMAIN functions -> SUBSET Nat]
      /\ ancestors \in [DOMAIN functions -> SUBSET Nat]
  BY <1>2, Zenon DEF Tree, AreAncestors
<1>5. A = ancestors
  <2> DEFINE B == ancestors
  <2>1. B \in [DOMAIN functions -> SUBSET Nat] /\ \A f \in DOMAIN functions : A[f] = B[f]
    BY <1>3, <1>4
  <2> HIDE DEF B
  <2>2. A = B
    BY <1>4, <2>1
  <2> QED
    BY <2>2 DEF B
<1> QED
  BY <1>1, <1>5 DEF Good

LEMMA EmptyProgram == \E A : ProgramInv(<< >>, A)
<1> DEFINE A == [f \in {} |-> {}]
<1>1. DOMAIN << >> = {} /\ << >> \in Seq(FnRecords)
  OBVIOUS
<1>2. Tree(<< >>, A)
  BY <1>1 DEF Tree, Forest, AreAncestors
<1>3. NamesInv(<< >>, A) /\ FitsInv(<< >>) /\ SeenInv(<< >>, A)
  BY <1>1 DEF NamesInv, Counted, Unique, FitsInv, SeenInv
<1> QED
  BY <1>2, <1>3 DEF ProgramInv

\* The functions of the other initial state, which define a value each.
NestedFn(nm, parent, k, statements, outputs, returned, nextTmpID) ==
    [name |-> nm, parent |-> parent, inputs |-> << >>, statements |-> statements, outputs |-> outputs,
     returned |-> returned, nextArgID |-> 0, nextTmpID |-> nextTmpID]

LEMMA NestedIs ==
    /\ Len(Nested) = 3 /\ DOMAIN Nested = {1, 2, 3}
    /\ Nested[1] = NestedFn("main", 0, 0, <<Leaf(0)>>, 0, FALSE, 3)
    /\ Nested[2] = NestedFn("closure", 1, 1, <<Leaf(1)>>, 0, FALSE, 0)
    /\ Nested[3] = NestedFn("closure", 2, 2, <<Leaf(2), Returning(2)>>, 1, TRUE, 0)
<1> DEFINE a == [NewFn("main", 0) EXCEPT !.statements = <<Leaf(0)>>, !.nextTmpID = 3]
           b == [NewFn("closure", 1) EXCEPT !.statements = <<Leaf(1)>>]
           c == [NewFn("closure", 2) EXCEPT !.statements = <<Leaf(2), Returning(2)>>, !.outputs = 1, !.returned = TRUE]
<1>1. Nested = <<a, b, c>>
  BY DEF Nested
<1>2. a = NestedFn("main", 0, 0, <<Leaf(0)>>, 0, FALSE, 3)
  <2> DEFINE st == <<Leaf(0)>>
  <2>1. a = [NewFn("main", 0) EXCEPT !.statements = st, !.nextTmpID = 3]
    OBVIOUS
  <2> HIDE DEF a, st
  <2>2. a = NestedFn("main", 0, 0, st, 0, FALSE, 3)
    BY <2>1 DEF NestedFn, NewFn
  <2> QED
    BY <2>2 DEF st
<1>3. b = NestedFn("closure", 1, 1, <<Leaf(1)>>, 0, FALSE, 0)
  <2> DEFINE st == <<Leaf(1)>>
  <2>1. b = [NewFn("closure", 1) EXCEPT !.statements = st]
    OBVIOUS
  <2> HIDE DEF b, st
  <2>2. b = NestedFn("closure", 1, 1, st, 0, FALSE, 0)
    BY <2>1 DEF NestedFn, NewFn
  <2> QED
    BY <2>2 DEF st
<1>4. c = NestedFn("closure", 2, 2, <<Leaf(2), Returning(2)>>, 1, TRUE, 0)
  <2> DEFINE st == <<Leaf(2), Returning(2)>>
  <2>1. c = [NewFn("closure", 2) EXCEPT !.statements = st, !.outputs = 1, !.returned = TRUE]
    OBVIOUS
  <2> HIDE DEF c, st
  <2>2. c = NestedFn("closure", 2, 2, st, 1, TRUE, 0)
    BY <2>1 DEF NestedFn, NewFn
  <2> QED
    BY <2>2 DEF st
<1> HIDE DEF a, b, c
<1>5. Len(Nested) = 3 /\ DOMAIN Nested = {1, 2, 3} /\ Nested[1] = a /\ Nested[2] = b /\ Nested[3] = c
  BY <1>1
<1> QED
  BY <1>2, <1>3, <1>4, <1>5

LEMMA LeafFacts ==
    ASSUME NEW k \in Nat
    PROVE  /\ Leaf(k) \in Statements /\ Returning(k) \in Statements
           /\ Leaf(k).op = "op" /\ Leaf(k).closures = << >> /\ Range(Leaf(k).inputs) = {}
           /\ Leaf(k).outputs = <<<<"tmp", k>>>>
           /\ Returning(k).op = "FuncReturn" /\ Returning(k).closures = << >>
           /\ Returning(k).outputs = << >> /\ Range(Returning(k).inputs) = {<<"tmp", k>>}
<1>1. <<"tmp", k>> \in Names /\ <<"tmp", k>> \in {"tmp"} \X Nat
  BY DEF Names
<1>2. /\ <<<<"tmp", k>>>> \in Seq({"tmp"} \X Nat) /\ <<<<"tmp", k>>>> \in Seq(Names)
      /\ << >> \in Seq(Names) /\ << >> \in Seq(Nat) /\ << >> \in Seq({"tmp"} \X Nat)
  BY <1>1
<1>3. /\ Leaf(k) = [op |-> "op", inputs |-> << >>, outputs |-> <<<<"tmp", k>>>>, closures |-> << >>, callee |-> 0]
      /\ Returning(k) = [op |-> "FuncReturn", inputs |-> <<<<"tmp", k>>>>, outputs |-> << >>, closures |-> << >>, callee |-> 0]
  BY DEF Leaf, Returning
<1>4. Leaf(k) \in Statements /\ Returning(k) \in Statements
  BY <1>2, <1>3 DEF Statements
<1>5. Range(<< >>) = {} /\ Range(<<<<"tmp", k>>>>) = {<<"tmp", k>>}
  <2>1. << >> = [i \in {} |-> i]
    OBVIOUS
  <2>2. Range(<< >>) = {}
    BY <2>1 DEF Range
  <2> DEFINE x == <<"tmp", k>>
  <2>3. <<x>> = [i \in {1} |-> x]
    OBVIOUS
  <2> HIDE DEF x
  <2>4. Range(<<x>>) = {x}
    BY <2>3 DEF Range
  <2> QED
    BY <2>2, <2>4 DEF x
<1> QED
  BY <1>3, <1>4, <1>5

LEMMA NestedProgram == \E A : ProgramInv(Nested, A)
<1> DEFINE A == [f \in {1, 2, 3} |-> 1 .. f]
<1>1. /\ DOMAIN Nested = {1, 2, 3} /\ Len(Nested) = 3
      /\ Nested[1].parent = 0 /\ Nested[2].parent = 1 /\ Nested[3].parent = 2
      /\ \A f \in {1, 2, 3} : Nested[f].inputs = << >>
      /\ Nested[1].statements = <<Leaf(0)>> /\ Nested[2].statements = <<Leaf(1)>>
      /\ Nested[3].statements = <<Leaf(2), Returning(2)>> /\ Nested[1].nextTmpID = 3
  BY NestedIs DEF NestedFn
<1>2. Nested \in Seq(FnRecords)
  <2>1. << >> \in Seq(Names)
    OBVIOUS
  <2>2. /\ <<Leaf(0)>> \in Seq(Statements) /\ <<Leaf(1)>> \in Seq(Statements)
        /\ <<Leaf(2), Returning(2)>> \in Seq(Statements)
    BY LeafFacts
  <2>3. ASSUME NEW nm \in {"main", "closure"}, NEW p \in Nat, NEW k, NEW st \in Seq(Statements), NEW o \in Nat,
               NEW ret \in BOOLEAN, NEW n \in Nat
        PROVE  NestedFn(nm, p, k, st, o, ret, n) \in FnRecords
    BY <2>1 DEF NestedFn, FnRecords
  <2>4. Nested[1] \in FnRecords /\ Nested[2] \in FnRecords /\ Nested[3] \in FnRecords
    <3> DEFINE s1 == <<Leaf(0)>>
               s2 == <<Leaf(1)>>
               s3 == <<Leaf(2), Returning(2)>>
    <3>1. s1 \in Seq(Statements) /\ s2 \in Seq(Statements) /\ s3 \in Seq(Statements)
      BY <2>2
    <3>2. /\ Nested[1] = NestedFn("main", 0, 0, s1, 0, FALSE, 3)
          /\ Nested[2] = NestedFn("closure", 1, 1, s2, 0, FALSE, 0)
          /\ Nested[3] = NestedFn("closure", 2, 2, s3, 1, TRUE, 0)
      BY NestedIs
    <3> HIDE DEF s1, s2, s3
    <3> QED
      BY <2>3, <3>1, <3>2
  <2>5. Nested = <<Nested[1], Nested[2], Nested[3]>>
    BY DEF Nested
  <2> DEFINE a == Nested[1]
             b == Nested[2]
             c == Nested[3]
  <2>6. a \in FnRecords /\ b \in FnRecords /\ c \in FnRecords /\ Nested = <<a, b, c>>
    BY <2>4, <2>5
  <2> HIDE DEF a, b, c
  <2> QED
    BY <2>6
<1>3. Tree(Nested, A)
  <2>1. A \in [DOMAIN Nested -> SUBSET Nat]
    BY <1>1
  <2>2. A[1] = {1} /\ A[2] = {2} \cup A[1] /\ A[3] = {3} \cup A[2]
    OBVIOUS
  <2> HIDE DEF A
  <2>3. Forest(Nested)
    BY <1>1, <1>2 DEF Forest
  <2>4. \A f \in DOMAIN Nested : A[f] = IF Nested[f].parent = 0 THEN {f} ELSE {f} \cup A[Nested[f].parent]
    BY <1>1, <2>2
  <2> QED
    BY <2>1, <2>3, <2>4 DEF Tree, AreAncestors
<1>4. \A f \in {1, 2, 3} : Root(A, f) = 1
  <2> TAKE f \in {1, 2, 3}
  <2>1. 1 \in A[f] /\ A[f] = 1 .. f
    OBVIOUS
  <2> HIDE DEF A
  <2>2. Root(A, f) \in 1 .. f /\ Root(A, f) <= 1
    BY <1>1, <1>3, <2>1, RootOf
  <2> QED
    BY <2>2
<1> HIDE DEF A
<1>5. /\ Leaf(0).outputs = <<<<"tmp", 0>>>> /\ Leaf(1).outputs = <<<<"tmp", 1>>>> /\ Leaf(2).outputs = <<<<"tmp", 2>>>>
      /\ Returning(2).outputs = << >>
  BY LeafFacts
<1>6. ASSUME NEW f \in {1, 2, 3}, NEW d \in Places(Nested[f])
      PROVE  d = <<1, 1>> /\ NameOf(Nested[f], d) = <<"tmp", f - 1>>
  <2>1. PICK k \in DOMAIN Nested[f].statements : \E i \in DOMAIN Nested[f].statements[k].outputs : d = <<k, i>>
    BY <1>1 DEF Places
  <2>2. k = 1 /\ Nested[f].statements[1].outputs = <<<<"tmp", f - 1>>>>
    <3>1. CASE f = 1
      BY <1>1, <1>5, <2>1, <3>1
    <3>2. CASE f = 2
      BY <1>1, <1>5, <2>1, <3>2
    <3>3. CASE f = 3
      BY <1>1, <1>5, <2>1, <3>3
    <3> QED
      BY <3>1, <3>2, <3>3
  <2>3. d = <<1, 1>>
    BY <2>1, <2>2
  <2> QED
    BY <2>2, <2>3 DEF NameOf
<1>7. NamesInv(Nested, A)
  <2>1. Counted(Nested, A)
    <3> SUFFICES ASSUME NEW f \in {1, 2, 3}, NEW d \in Places(Nested[f])
                 PROVE  CountedName(NameOf(Nested[f], d), Nested[1])
      BY <1>1, <1>4 DEF Counted
    <3>1. NameOf(Nested[f], d) = <<"tmp", f - 1>> /\ f - 1 \in Nat /\ f - 1 < Nested[1].nextTmpID
      BY <1>1, <1>6
    <3> QED
      BY <3>1 DEF CountedName
  <2>2. Unique(Nested, A)
    <3> SUFFICES ASSUME NEW f \in {1, 2, 3}, NEW g \in {1, 2, 3}, NEW d \in Places(Nested[f]), NEW e \in Places(Nested[g]),
                        NameOf(Nested[f], d) = NameOf(Nested[g], e)
                 PROVE  <<f, d>> = <<g, e>>
      BY <1>1 DEF Unique
    <3>1. d = e /\ <<"tmp", f - 1>> = <<"tmp", g - 1>>
      BY <1>6
    <3> QED
      BY <3>1
  <2> QED
    BY <2>1, <2>2 DEF NamesInv
<1>8. ASSUME NEW f \in DOMAIN Nested, NEW k \in DOMAIN Nested[f].statements
      PROVE  /\ Nested[f].statements[k].op \in {"op", "FuncReturn"} /\ Nested[f].statements[k].closures = << >>
             /\ Range(Nested[f].statements[k].inputs) \subseteq BeforeIn(Nested[f], k)
  <2>1. CASE f = 1
    <3>1. k = 1 /\ Nested[f].statements[k] = Leaf(0)
      BY <1>1, <2>1
    <3> QED
      BY <3>1, LeafFacts
  <2>2. CASE f = 2
    <3>1. k = 1 /\ Nested[f].statements[k] = Leaf(1)
      BY <1>1, <2>2
    <3> QED
      BY <3>1, LeafFacts
  <2>3. CASE f = 3
    <3>1. k = 1 \/ k = 2
      BY <1>1, <2>3
    <3>2. CASE k = 1
      <4>1. Nested[f].statements[k] = Leaf(2)
        BY <1>1, <2>3, <3>2
      <4> QED
        BY <4>1, LeafFacts
    <3>3. CASE k = 2
      <4>1. Nested[3].statements[2] = Returning(2) /\ Nested[3].statements[1] = Leaf(2)
        BY <1>1
      <4>2. <<"tmp", 2>> \in Range(Leaf(2).outputs)
        <5>1. Leaf(2).outputs = [i \in {1} |-> <<"tmp", 2>>]
          BY <1>5
        <5> QED
          BY <5>1 DEF Range
      <4>3. 1 \in 1 .. 2 - 1
        OBVIOUS
      <4>4. <<"tmp", 2>> \in BeforeIn(Nested[3], 2)
        BY <4>1, <4>2, <4>3, Zenon DEF BeforeIn
      <4> QED
        BY <2>3, <3>3, <4>1, <4>4, LeafFacts
    <3> QED
      BY <3>1, <3>2, <3>3
  <2> QED
    BY <1>1, <2>1, <2>2, <2>3
<1>9. FitsInv(Nested)
  <2> SUFFICES ASSUME NEW f \in DOMAIN Nested, NEW k \in DOMAIN Nested[f].statements
               PROVE  Fits(Nested, f, Nested[f].statements[k])
    BY DEF FitsInv
  <2> DEFINE s == Nested[f].statements[k]
  <2>1. s.op \in {"op", "FuncReturn"} /\ s.closures = << >>
    BY <1>8
  <2> HIDE DEF s
  <2>2. Fits(Nested, f, s)
    BY <2>1 DEF Fits
  <2> QED
    BY <2>2 DEF s
<1>10. SeenInv(Nested, A)
  BY <1>8 DEF SeenInv
<1> QED
  BY <1>3, <1>7, <1>9, <1>10 DEF ProgramInv

LEMMA FunctionsInvInit ==
    ASSUME XlaInit
    PROVE  FunctionsInv
<1>1. CASE functions = <<NewFn("main", 0)>>
  <2>1. PICK A : ProgramInv(<< >>, A)
    BY EmptyProgram
  <2>2. \E A2 : ProgramInv(Append(<< >>, NewFn("main", 0)), A2)
    <3>1. 0 \in Nat /\ "main" \in {"main", "other", "closure"}
      OBVIOUS
    <3> QED
      BY <2>1, <3>1, NewFunctionStep
  <2>3. Append(<< >>, NewFn("main", 0)) = functions
    BY <1>1
  <2> QED
    BY <2>2, <2>3 DEF XlaInit, FunctionsInv, Kept
<1>2. CASE functions = Nested
  BY <1>2, NestedProgram DEF XlaInit, FunctionsInv, Kept
<1> QED
  BY <1>1, <1>2 DEF XlaInit, Init

LEMMA FunctionsInvStep ==
    ASSUME FunctionsInv, [XlaNext]_xlaVars
    PROVE  FunctionsInv'
<1>0. Good /\ cacheReductions \in Nat /\ Kept(functions, cacheReductions)
  BY InvGood DEF FunctionsInv
<1>1. ASSUME GrowsInto(functions, functions'), cacheReductions' = cacheReductions
      PROVE  FunctionsInv'
  <2>1. Kept(functions', cacheReductions')
    BY <1>0, <1>1, KeptGrown DEF GrowsInto
  <2> QED
    BY <1>0, <1>1, <2>1 DEF FunctionsInv, GrowsInto
<1>2. CASE Next /\ UNCHANGED cacheReductions
  <2>1. CASE NewFunction \/ \E f \in IDs : Closure(f)
    BY <1>0, <1>1, <1>2, <2>1, NewFunctions
  <2>2. ASSUME NEW f \in IDs, Input(f) \/ NamedInput(f)
        PROVE  FunctionsInv'
    BY <1>0, <1>1, <1>2, <2>2, Inputs
  <2>3. ASSUME NEW f \in IDs, Return(f)
        PROVE  FunctionsInv'
    BY <1>0, <1>1, <1>2, <2>3, Returns
  <2>4. ASSUME NEW f \in IDs, ConstantFromScalar(f) \/ Iota(f) \/ binaryOp(f) \/ innerMostOp(f)
        PROVE  FunctionsInv'
    BY <1>0, <1>1, <1>2, <2>4, Operations
  <2>5. ASSUME NEW f \in IDs, Reduce(f) \/ While(f) \/ If(f) \/ Call(f)
        PROVE  FunctionsInv'
    BY <1>0, <1>1, <1>2, <2>5, StatementsWithFunctions
  <2> QED
    BY <1>2, <2>1, <2>2, <2>3, <2>4, <2>5, Zenon DEF Next
<1>3. ASSUME NEW f \in IDs, reduce(f)
      PROVE  FunctionsInv'
  BY <1>0, <1>3, Reductions DEF FunctionsInv, GrowsInto
<1>4. CASE UNCHANGED xlaVars
  BY <1>4 DEF FunctionsInv, xlaVars, vars
<1> QED
  BY <1>2, <1>3, <1>4 DEF XlaNext

\* However a program is built, it satisfies the invariant.
THEOREM FunctionsInvariant == XlaSpec => []FunctionsInv
<1>1. XlaInit => FunctionsInv
  BY FunctionsInvInit
<1>2. FunctionsInv /\ [XlaNext]_xlaVars => FunctionsInv'
  BY FunctionsInvStep
<1> QED
  BY <1>1, <1>2, PTL DEF XlaSpec

\* The counters at the root (findRootFn, function.go:57) never give a name that another
\* value has among a function and its closures, whenever the program ends its functions,
\* and in one function a given name is of one input.  A name that was given may be that of
\* an input of a closure as well, which can see both.
THEOREM NamesAreUnique == XlaSpec => []UniqueNames
<1>1. FunctionsInv => UniqueNames
  <2> SUFFICES ASSUME FunctionsInv PROVE UniqueNames
    OBVIOUS
  <2>1. Unique(functions, ancestors)
    BY InvGood DEF Good, ProgramInv, NamesInv
  <2> SUFFICES ASSUME NEW f \in IDs, NEW g \in IDs, findRootFn(f) = findRootFn(g),
                      NEW d \in Definitions(f), NEW e \in Definitions(g), NameAt(f, d) = NameAt(g, e)
               PROVE  <<f, d>> = <<g, e>> \/ (f # g /\ NameAt(f, d)[1] = "given")
    BY DEF UniqueNames
  <2>2. /\ Root(ancestors, f) = Root(ancestors, g) /\ f \in DOMAIN functions /\ g \in DOMAIN functions
        /\ d \in Places(functions[f]) /\ e \in Places(functions[g])
        /\ NameOf(functions[f], d) = NameOf(functions[g], e)
        /\ NameAt(f, d) = NameOf(functions[f], d)
    BY OperatorsOfModel DEF IDs
  <2> QED
    BY <2>1, <2>2 DEF Unique
<1> QED
  BY <1>1, FunctionsInvariant, PTL

\* Every operand is defined before it is used, and visible there (innerMostFunction and
\* the parents of closures, in functions.go), as long as the program ends a function
\* before it passes it on: nothing in the code refuses to change it afterwards.
THEOREM OperandsAreVisible ==
    ASSUME Disciplined
    PROVE  XlaSpec => []OperandsVisible
<1>1. FunctionsInv => OperandsVisible
  <2> SUFFICES ASSUME FunctionsInv, NEW f \in IDs, NEW k \in DOMAIN functions[f].statements, written(f)
               PROVE  Range(functions[f].statements[k].inputs) \subseteq around(f) \cup Before(f, k)
    BY DEF OperandsVisible
  <2>1. SeenInv(functions, ancestors)
    BY InvGood DEF Good, ProgramInv
  <2>2. MayBeWritten(functions, ancestors, f)
    BY OperatorsOfModel DEF written, MayBeWritten
  <2> QED
    BY <2>1, <2>2, OperatorsOfModel, AroundOfModel DEF SeenInv, IDs
<1> QED
  BY <1>1, FunctionsInvariant, PTL

\* Statements agree with the functions they take and call, whatever was added to those
\* since (withClosure, Call and the reductions of the backend), under the same condition.
THEOREM StatementsAgree ==
    ASSUME Disciplined
    PROVE  XlaSpec => []SignaturesAgree
<1>1. FunctionsInv => SignaturesAgree
  <2> SUFFICES ASSUME FunctionsInv, NEW f \in IDs, NEW s \in Range(functions[f].statements)
               PROVE  /\ \A c \in Range(s.closures) : functions[c].parent = f
                      /\ s.op = "Call" => /\ Len(s.inputs) = Len(functions[s.callee].inputs)
                                          /\ Len(s.outputs) = functions[s.callee].outputs
                      /\ s.op = "Reduce" => Len(functions[s.closures[1]].inputs) = 2
                      /\ s.op = "If" => \A i \in {1, 2} : functions[s.closures[i]].outputs = Len(s.outputs)
                      /\ s.op = "While" => \A i \in {1, 2} : Len(functions[s.closures[i]].inputs) = 1
    BY DEF SignaturesAgree
  <2>1. FitsInv(functions)
    BY InvGood DEF Good, ProgramInv
  <2>2. Fits(functions, f, s)
    BY <2>1 DEF FitsInv, Range, IDs
  <2>3. \A c \in Range(s.closures) : functions[c].parent = f
    BY <2>2 DEF Fits, Range
  <2> QED
    BY <2>2, <2>3 DEF Fits
<1> QED
  BY <1>1, FunctionsInvariant, PTL
===============================================================================
