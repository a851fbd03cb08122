----------------------------- MODULE ShapeProofs -----------------------------
(***************************************************************************)
(* What the builder infers is true at run time, and it refuses nothing for     *)
(* want of knowledge: every rule of inference, given operands that describe    *)
(* values, describes the result, whatever the ranks and the dimensions.        *)
(***************************************************************************)
EXTENDS Functions, XlaProgram, FiniteSetTheorems, TLAPS
LOCAL INSTANCE SequencesExt

-------------------------------------------------------------------------------
(* Shapes and their values. *)

\* A shape describes the shape that its value has; a value of the program has
\* dimensions within the bounds.
Describes(s, a) == s \in Values /\ a \in Values /\ Covers(s, a)
Operand(s, a) == Describes(s, a) /\ \A i \in DOMAIN a.dims : a.dims[i] \in 1 .. MaxDim

\* One list of dimensions has those of another, as far as it knows them.
Tells(d, e) ==
    d \in Seq(Int) /\ e \in Seq(Int) /\ Len(d) = Len(e) /\ \A i \in 1 .. Len(d) : d[i] \in {DimUnknown, e[i]}

\* An operation agrees with its result when it is not refused unless it is wrong,
\* and its outputs describe what there is at run time and can be used further.
Sure(r, c) == r.status = "error" => c.status # "ok"
True(r, c) ==
    r.status = "ok" /\ c.status = "ok" =>
        \A k \in DOMAIN r.shapes \cap DOMAIN c.shapes :
            WithinBounds(c.shapes[k]) => Describes(r.shapes[k], c.shapes[k])
Agree(r, c) == Sure(r, c) /\ True(r, c)
Describing(r, c) ==
    Sure(r, c) /\ (r.status = "ok" /\ c.status = "ok" =>
                      \A k \in DOMAIN r.shapes \cap DOMAIN c.shapes : Describes(r.shapes[k], c.shapes[k]))

LEMMA DescribingAgree == \A r, c : Describing(r, c) => Agree(r, c)
  BY DEF Describing, Agree, True

LEMMA SameList ==
    ASSUME NEW d \in Seq(Int), NEW e \in Seq(Int), Len(d) = Len(e), \A i \in 1 .. Len(d) : d[i] = e[i]
    PROVE  d = e
  OBVIOUS

LEMMA ListsTell ==
    ASSUME NEW n \in Nat, NEW d, NEW e, d = [i \in 1 .. n |-> d[i]], e = [i \in 1 .. n |-> e[i]],
           \A i \in 1 .. n : e[i] \in Int /\ d[i] \in {DimUnknown, e[i]}
    PROVE  Tells(d, e)
<1>1. \A i \in 1 .. n : d[i] \in Int /\ e[i] \in Int
  BY DEF DimUnknown
<1>2. d \in [1 .. n -> Int] /\ e \in [1 .. n -> Int]
  BY <1>1, Zenon
<1> QED
  BY <1>2 DEF Tells

LEMMA TellsAt ==
    ASSUME NEW d, NEW e, Tells(d, e), NEW i \in 1 .. Len(d)
    PROVE  d[i] \in Int /\ e[i] \in Int /\ d[i] \in {DimUnknown, e[i]} /\ Len(e) = Len(d)
  BY DEF Tells

LEMMA AgreeOne ==
    ASSUME NEW g, NEW h, NEW s, NEW a, g \in BOOLEAN, h \in BOOLEAN, h => g, g /\ h /\ WithinBounds(a) => Describes(s, a)
    PROVE  Agree(Guard(g, Ok1(s)), Guard(h, Ok1(a)))
<1> USE DEF Guard, Ok1, Ok, Error
<1>1. CASE g /\ h
  BY <1>1 DEF Agree, Sure, True
<1>2. CASE ~h
  BY <1>2 DEF Agree, Sure, True
<1> QED
  BY <1>1, <1>2

LEMMA AgreeList ==
    ASSUME NEW g, NEW h, NEW ss, NEW as, g \in BOOLEAN, h \in BOOLEAN, h => g,
           h => \A k \in DOMAIN ss \cap DOMAIN as : WithinBounds(as[k]) => Describes(ss[k], as[k])
    PROVE  Agree(Guard(g, Ok(ss)), Guard(h, Ok(as)))
<1> USE DEF Guard, Ok, Error
<1>1. CASE g /\ h
  BY <1>1 DEF Agree, Sure, True
<1>2. CASE ~h
  BY <1>2 DEF Agree, Sure, True
<1> QED
  BY <1>1, <1>2

LEMMA AgreePair ==
    ASSUME NEW g, NEW h, NEW s, NEW a, NEW t, NEW b, g \in BOOLEAN, h \in BOOLEAN, h => g,
           h => Describes(s, a) /\ Describes(t, b)
    PROVE  Agree(Guard(g, Ok(<<s, t>>)), Guard(h, Ok(<<a, b>>)))
<1> USE DEF Guard, Ok, Error
<1>1. CASE g /\ h
  <2>1. DOMAIN <<s, t>> = {1, 2} /\ <<s, t>>[1] = s /\ <<s, t>>[2] = t /\ <<a, b>>[1] = a /\ <<a, b>>[2] = b
    OBVIOUS
  <2> QED
    BY <1>1, <2>1 DEF Agree, Sure, True
<1>2. CASE ~h
  BY <1>2 DEF Agree, Sure, True
<1> QED
  BY <1>1, <1>2

LEMMA AgreeOkPair ==
    ASSUME NEW s, NEW a, NEW t, NEW b, Describes(s, a), Describes(t, b)
    PROVE  Agree(Ok(<<s, t>>), Ok(<<a, b>>))
<1>1. \A k \in DOMAIN <<s, t>> \cap DOMAIN <<a, b>> : Describes(<<s, t>>[k], <<a, b>>[k])
  OBVIOUS
<1> QED
  BY <1>1 DEF Agree, Sure, True, Ok

LEMMA AgreeOk ==
    ASSUME NEW s, NEW a, Describes(s, a)
    PROVE  Agree(Ok1(s), Ok1(a))
  BY DEF Agree, Sure, True, Ok1, Ok

LEMMA OperandFacts ==
    ASSUME NEW s, NEW a, Operand(s, a)
    PROVE  /\ s \in Values /\ a \in Values /\ s.dtype = a.dtype /\ Rank(s) = Rank(a)
           /\ Rank(s) \in Nat /\ DOMAIN s.dims = 1 .. Rank(s) /\ DOMAIN a.dims = 1 .. Rank(s)
           /\ \A i \in 1 .. Rank(s) : s.dims[i] \in {DimUnknown, a.dims[i]} /\ a.dims[i] \in Int
                                      /\ a.dims[i] >= 1 /\ a.dims[i] <= MaxDim
  BY DEF Operand, Describes, Covers, CoversDim, Values, Rank

-------------------------------------------------------------------------------
(* Elementwise operations. *)

LEMMA WithDTypeDescribes ==
    ASSUME NEW s, NEW a, Describes(s, a), NEW t \in DTypes
    PROVE  Describes(WithDType(s, t), WithDType(a, t))
  BY DEF Describes, Covers, Values, WithDType, Rank

\* Dimensions of one list for those of another.
LEMMA WithDimsDescribes ==
    ASSUME NEW s, NEW a, s \in Values, a \in Values, s.dtype = a.dtype, NEW d, NEW e, Tells(d, e)
    PROVE  Describes(WithDims(s, d), WithDims(a, e))
<1>1. /\ WithDims(s, d) \in Values /\ WithDims(s, d).dims = d /\ WithDims(s, d).dtype = s.dtype
      /\ WithDims(a, e) \in Values /\ WithDims(a, e).dims = e /\ WithDims(a, e).dtype = a.dtype
  BY DEF WithDims, Values, Tells
<1> QED
  BY <1>1 DEF Describes, Covers, CoversDim, Rank, Tells

LEMMA ShapeDescribes ==
    ASSUME NEW t \in DTypes, NEW d, NEW e, Tells(d, e)
    PROVE  Describes(Shape(t, d), Shape(t, e))
  BY DEF Describes, Covers, CoversDim, Values, Shape, Rank, Tells

\* Two operands that may be of one shape are, as far as they are known.
LEMMA CompatibleCovers ==
    ASSUME NEW s, NEW a, NEW t, NEW b, Operand(s, a), Operand(t, b), Compatible(a.dims, b.dims)
    PROVE  Compatible(s.dims, t.dims) /\ a.dims = b.dims
<1>1. Rank(s) = Rank(t) /\ \A i \in 1 .. Rank(s) : a.dims[i] = b.dims[i]
  BY OperandFacts DEF Compatible, SameDim, Rank, DimUnknown
<1>2. \A i \in 1 .. Rank(s) : SameDim(s.dims[i], t.dims[i])
  BY <1>1, OperandFacts DEF SameDim
<1>3. a.dims = b.dims
  <2>1. a.dims \in Seq(Int) /\ b.dims \in Seq(Int)
    BY OperandFacts DEF Values
  <2>2. Len(a.dims) = Len(b.dims) /\ Len(a.dims) = Rank(s)
    BY OperandFacts DEF Compatible, Rank
  <2> QED
    BY <1>1, <2>1, <2>2, SameList, Zenon
<1> QED
  BY <1>1, <1>2, <1>3, OperandFacts DEF Compatible, Rank

LEMMA OperandTells ==
    ASSUME NEW s, NEW a, Operand(s, a)
    PROVE  /\ Tells(s.dims, a.dims) /\ Tells(a.dims, a.dims)
           /\ Len(s.dims) = Rank(s) /\ Len(a.dims) = Rank(s) /\ \A i \in 1 .. Len(a.dims) : a.dims[i] >= 1
  BY OperandFacts DEF Tells, Values, Rank

\* What two lists tell together.
LEMMA MergeTells ==
    ASSUME NEW d, NEW d2, NEW e, Tells(d, e), Tells(d2, e), \A i \in 1 .. Len(e) : e[i] >= 1
    PROVE  Tells(MergeDims(d, d2), e) /\ MergeDims(e, e) = e
<1>1. DOMAIN d = 1 .. Len(e) /\ Len(e) \in Nat
  BY DEF Tells
<1>2. \A i \in 1 .. Len(e) : Merge(d[i], d2[i]) \in {DimUnknown, e[i]} /\ Merge(d[i], d2[i]) \in Int
  BY <1>1 DEF Tells, Merge, DimUnknown
<1>3. Tells(MergeDims(d, d2), e)
  BY <1>1, <1>2 DEF MergeDims, Tells
<1>4. MergeDims(e, e) = [i \in 1 .. Len(e) |-> e[i]]
  BY DEF MergeDims, Merge, Tells
<1> QED
  BY <1>3, <1>4 DEF Tells

LEMMA UnaryAgree ==
    ASSUME NEW s, NEW a, Operand(s, a), NEW op
    PROVE  Agree(UnaryOp(op, s), UnaryOp(op, a))
<1>1. s.dtype = a.dtype /\ Describes(s, a)
  BY OperandFacts DEF Operand
<1>2. ASSUME NEW t \in DTypes, IsComplex(t)
      PROVE  RealDType(t) \in DTypes
  BY DEF RealDType, DTypes
<1>3. Describes(IF op = "Abs" /\ IsComplex(s.dtype) THEN WithDType(s, RealDType(s.dtype)) ELSE s,
                IF op = "Abs" /\ IsComplex(a.dtype) THEN WithDType(a, RealDType(a.dtype)) ELSE a)
  <2>1. s.dtype \in DTypes
    BY OperandFacts DEF Values
  <2> QED
    BY <1>1, <1>2, <2>1, WithDTypeDescribes
<1>4. TypeAllowed(op, s.dtype) \in BOOLEAN
  BY DEF TypeAllowed
<1> QED
  BY <1>1, <1>3, <1>4, AgreeOne DEF UnaryOp

LEMMA BinaryDescribing ==
    ASSUME NEW s, NEW a, NEW t, NEW b, Operand(s, a), Operand(t, b), NEW op
    PROVE  Describing(BinaryOp(op, s, t), BinaryOp(op, a, b))
<1> USE DEF Guard, Ok1, Ok, Error
<1>1. /\ s.dtype = a.dtype /\ t.dtype = b.dtype /\ Rank(s) = Rank(a) /\ Rank(t) = Rank(b)
      /\ Describes(s, a) /\ Describes(t, b)
  BY OperandFacts DEF Operand
<1>2. CASE ~(BinaryOp(op, a, b).status = "ok")
  BY <1>2 DEF BinaryOp, binaryOpImpl, Describing, Sure
<1>3. CASE BinaryOp(op, a, b).status = "ok"
  <2>1. TypeAllowed(op, a.dtype) /\ Rank(a) = Rank(b) /\ ~IsDynamic(a) /\ ~IsDynamic(b)
    <3>1. ~IsDynamic(a) /\ ~IsDynamic(b)
      BY OperandFacts DEF IsDynamic, DimUnknown
    <3> QED
      BY <1>3, <3>1 DEF BinaryOp, Equal, Rank
  <2>2. Equal(a, b)
    BY <1>3, <2>1 DEF BinaryOp
  <2>3. Compatible(a.dims, b.dims)
    BY <2>2 DEF Equal, Compatible, SameDim
  <2>4. IF IsDynamic(s) \/ IsDynamic(t) THEN Rank(s) = Rank(t) ELSE Equal(s, t)
    <3>1. CASE IsDynamic(s) \/ IsDynamic(t)
      BY <1>1, <2>1, <3>1
    <3>2. CASE ~(IsDynamic(s) \/ IsDynamic(t))
      <4>1. \A i \in 1 .. Rank(s) : s.dims[i] = a.dims[i] /\ t.dims[i] = a.dims[i]
        <5>1. a.dims = b.dims /\ \A i \in 1 .. Rank(s) : s.dims[i] # DimUnknown /\ t.dims[i] # DimUnknown
          BY <1>1, <2>1, <2>2, <3>2, OperandFacts DEF IsDynamic, Equal
        <5> QED
          BY <1>1, <2>1, <5>1, OperandFacts
      <4>2. s.dims \in Seq(Int) /\ t.dims \in Seq(Int) /\ Len(s.dims) = Rank(s) /\ Len(t.dims) = Rank(s)
        BY <1>1, <2>1, OperandFacts DEF Values, Rank
      <4>3. s.dims = t.dims
        BY <4>1, <4>2, SameList
      <4> QED
        BY <1>1, <2>2, <3>2, <4>3 DEF Equal
    <3> QED
      BY <3>1, <3>2
  <2>5. BinaryOp(op, s, t) = binaryOpImpl(s, t) /\ BinaryOp(op, a, b) = binaryOpImpl(a, b)
    BY <1>1, <1>3, <2>1, <2>2, <2>4 DEF BinaryOp
  <2>6. CASE IsScalar(s)
    BY <1>1, <2>1, <2>5, <2>6 DEF binaryOpImpl, IsScalar, Describing, Sure
  <2>7. CASE ~IsScalar(s)
    <3>1. /\ binaryOpImpl(s, t) = Ok1(WithDims(s, MergeDims(s.dims, t.dims)))
          /\ binaryOpImpl(a, b) = Ok1(WithDims(a, MergeDims(a.dims, b.dims)))
      BY <1>1, <2>1, <2>3, <2>7, CompatibleCovers DEF binaryOpImpl, IsScalar
    <3>2. Describes(WithDims(s, MergeDims(s.dims, t.dims)), WithDims(a, MergeDims(a.dims, b.dims)))
      <4>1. s \in Values /\ a \in Values /\ a.dims = b.dims
        BY <2>2, OperandFacts DEF Equal
      <4>2. Tells(MergeDims(s.dims, t.dims), MergeDims(a.dims, b.dims))
        BY <4>1, OperandTells, MergeTells
      <4> QED
        BY <1>1, <2>3, <4>1, <4>2, WithDimsDescribes
    <3> QED
      BY <2>5, <3>1, <3>2 DEF Describing, Sure
  <2> QED
    BY <2>6, <2>7
<1> QED
  BY <1>2, <1>3

LEMMA CompareAgree ==
    ASSUME NEW s, NEW a, NEW t, NEW b, Operand(s, a), Operand(t, b), NEW compareType
    PROVE  Agree(Compare(s, t, compareType), Compare(a, b, compareType))
<1> DEFINE r == BinaryOp("Compare", s, t)
           c == BinaryOp("Compare", a, b)
           Truth(v) == WithDType(v, "bool")
<1>1. s.dtype = a.dtype /\ t.dtype = b.dtype
  BY OperandFacts
<1>2. Describing(r, c)
  BY BinaryDescribing
<1>3. ASSUME NEW v, NEW w
      PROVE  BinaryOp("Compare", v, w) = Error \/ \E x : BinaryOp("Compare", v, w) = Ok1(x)
  BY DEF BinaryOp, binaryOpImpl, Guard
<1>4. MapShapes(Error, Truth).status = "error" /\ \A x : MapShapes(Ok1(x), Truth) = Ok1(Truth(x))
  BY DEF MapShapes, Error, Ok1, Ok
<1> HIDE DEF r, c
<1>5. Agree(MapShapes(r, Truth), MapShapes(c, Truth))
  <2>1. CASE c = Error
    BY <1>4, <2>1 DEF Agree, Sure, True
  <2>2. CASE r = Error
    <3>1. c = Error
      BY <1>2, <1>3, <2>2 DEF Describing, Sure, Error, Ok1, Ok, c
    <3> QED
      BY <2>1, <3>1
  <2>3. ASSUME NEW x, NEW y, r = Ok1(x), c = Ok1(y)
        PROVE  Agree(MapShapes(r, Truth), MapShapes(c, Truth))
    <3>1. Describes(x, y)
      BY <1>2, <2>3 DEF Describing, Ok1, Ok
    <3>2. Describes(Truth(x), Truth(y))
      BY <3>1, WithDTypeDescribes DEF DTypes
    <3>3. MapShapes(r, Truth) = Ok1(Truth(x)) /\ MapShapes(c, Truth) = Ok1(Truth(y))
      BY <1>4, <2>3
    <3> HIDE DEF Truth
    <3> QED
      BY <3>2, <3>3, AgreeOk
  <2> QED
    BY <1>3, <2>1, <2>2, <2>3 DEF r, c
<1> QED
  BY <1>1, <1>5 DEF Compare, Guard, Agree, Sure, True, Error, r, c

LEMMA ConvertAgree ==
    ASSUME NEW s, NEW a, Operand(s, a), NEW t \in DTypes
    PROVE  Agree(ConvertOp(s, t), ConvertOp(a, t))
<1>1. Describes(WithDType(s, t), WithDType(a, t))
  BY WithDTypeDescribes DEF Operand
<1> QED
  BY <1>1 DEF ConvertOp, Agree, Sure, True, Ok1, Ok

LEMMA PartsAgree ==
    ASSUME NEW s, NEW a, Operand(s, a)
    PROVE  Agree(IsFinite(s), IsFinite(a)) /\ Agree(RealOrImag(s), RealOrImag(a))
<1>1. Describes(s, a) /\ s.dtype = a.dtype
  BY OperandFacts DEF Operand
<1>2. Describes(WithDType(s, "bool"), WithDType(a, "bool"))
  BY <1>1, WithDTypeDescribes DEF DTypes
<1>3. Describes(WithDType(s, RealDType(s.dtype)), WithDType(a, RealDType(a.dtype)))
  BY <1>1, WithDTypeDescribes DEF DTypes, RealDType
<1>4. IsFloat(a.dtype) \in BOOLEAN /\ IsComplex(a.dtype) \in BOOLEAN
  BY DEF IsFloat, IsComplex
<1> QED
  BY <1>1, <1>2, <1>3, <1>4, AgreeOne DEF IsFinite, RealOrImag

LEMMA ComplexAgree ==
    ASSUME NEW s, NEW a, NEW t, NEW b, Operand(s, a), Operand(t, b)
    PROVE  Agree(Complex(s, t), Complex(a, b))
<1> DEFINE g(v, w) == v.dtype = w.dtype /\ v.dtype \in {"f32", "f64"} /\ Compatible(v.dims, w.dims)
           out(v, w) == WithDims(WithDType(v, ComplexDType(v.dtype)), MergeDims(v.dims, w.dims))
<1>1. s.dtype = a.dtype /\ t.dtype = b.dtype
  BY OperandFacts
<1>2. g(a, b) => g(s, t)
  BY <1>1, CompatibleCovers
<1>3. ASSUME g(a, b)
      PROVE  Describes(out(s, t), out(a, b))
  <2>0. a.dims = b.dims
    BY <1>3, CompatibleCovers
  <2>1. Tells(MergeDims(s.dims, t.dims), MergeDims(a.dims, b.dims))
    BY <2>0, OperandTells, MergeTells
  <2>2. Describes(WithDType(s, ComplexDType(s.dtype)), WithDType(a, ComplexDType(a.dtype)))
    BY <1>1, WithDTypeDescribes DEF Operand, ComplexDType, DTypes
  <2> QED
    BY <2>1, <2>2, WithDimsDescribes DEF Describes, Covers
<1>4. g(s, t) \in BOOLEAN /\ g(a, b) \in BOOLEAN
  BY DEF Compatible
<1>5. Complex(s, t) = Guard(g(s, t), Ok1(out(s, t))) /\ Complex(a, b) = Guard(g(a, b), Ok1(out(a, b)))
  BY DEF Complex
<1> HIDE DEF g, out
<1> QED
  BY <1>2, <1>3, <1>4, <1>5, AgreeOne

LEMMA SelectAgree ==
    ASSUME NEW p, NEW q, NEW s, NEW a, NEW t, NEW b, Operand(p, q), Operand(s, a), Operand(t, b)
    PROVE  Agree(Select(p, s, t), Select(q, a, b))
<1> DEFINE g(u, v, w) == u.dtype = "bool" /\ ShapesCompatible(v, w) /\ (IsScalar(u) \/ Compatible(u.dims, v.dims))
<1>1. /\ p.dtype = q.dtype /\ s.dtype = a.dtype /\ t.dtype = b.dtype /\ Rank(p) = Rank(q)
      /\ Describes(s, a)
  BY OperandFacts DEF Operand
<1>2. g(q, a, b) => g(p, s, t)
  BY <1>1, CompatibleCovers DEF ShapesCompatible, IsScalar
<1>3. g(p, s, t) \in BOOLEAN /\ g(q, a, b) \in BOOLEAN
  BY DEF Compatible, ShapesCompatible
<1>4. Select(p, s, t) = Guard(g(p, s, t), Ok1(s)) /\ Select(q, a, b) = Guard(g(q, a, b), Ok1(a))
  BY DEF Select
<1> HIDE DEF g
<1> QED
  BY <1>1, <1>2, <1>3, <1>4, AgreeOne

LEMMA ClampAgree ==
    ASSUME NEW p, NEW q, NEW s, NEW a, NEW t, NEW b, Operand(p, q), Operand(s, a), Operand(t, b)
    PROVE  Agree(Clamp(p, s, t), Clamp(q, a, b))
<1> DEFINE fits(bound, v) == IsScalar(bound) \/ Compatible(bound.dims, v.dims)
           merge(dims, bound) == IF IsScalar(bound) THEN dims ELSE MergeDims(dims, bound.dims)
           g(u, v, w) == /\ v.dtype = u.dtype /\ v.dtype = w.dtype
                         /\ ~IsComplex(v.dtype) /\ v.dtype # "bool"
                         /\ fits(u, v) /\ fits(w, v)
           out(u, v, w) == WithDims(v, merge(merge(v.dims, u), w))
<1>1. /\ p.dtype = q.dtype /\ s.dtype = a.dtype /\ t.dtype = b.dtype /\ Rank(p) = Rank(q) /\ Rank(t) = Rank(b)
      /\ s \in Values /\ a \in Values
  BY OperandFacts
<1>2. g(q, a, b) => g(p, s, t)
  BY <1>1, CompatibleCovers DEF IsScalar
<1>3. ASSUME NEW u, NEW v, Operand(u, v), fits(v, a), NEW d, Tells(d, a.dims)
      PROVE  Tells(merge(d, u), a.dims) /\ merge(a.dims, v) = a.dims
  <2>1. IsScalar(u) <=> IsScalar(v)
    BY <1>3, OperandFacts DEF IsScalar
  <2>2. CASE IsScalar(v)
    BY <1>3, <2>1, <2>2
  <2>3. CASE ~IsScalar(v)
    <3>1. v.dims = a.dims
      BY <1>3, <2>3, CompatibleCovers
    <3> QED
      BY <1>3, <2>1, <2>3, <3>1, OperandTells, MergeTells
  <2> QED
    BY <2>2, <2>3
<1>4. ASSUME g(q, a, b)
      PROVE  Describes(out(p, s, t), out(q, a, b))
  <2>1. Tells(s.dims, a.dims)
    BY OperandTells
  <2>2. Tells(merge(s.dims, p), a.dims) /\ merge(a.dims, q) = a.dims
    BY <1>3, <1>4, <2>1
  <2> HIDE DEF merge
  <2>3. Tells(merge(merge(s.dims, p), t), a.dims) /\ merge(a.dims, b) = a.dims
    BY <1>3, <1>4, <2>2
  <2> QED
    BY <1>1, <2>2, <2>3, WithDimsDescribes
<1>5. g(p, s, t) \in BOOLEAN /\ g(q, a, b) \in BOOLEAN
  BY DEF Compatible
<1>6. Clamp(p, s, t) = Guard(g(p, s, t), Ok1(out(p, s, t))) /\ Clamp(q, a, b) = Guard(g(q, a, b), Ok1(out(q, a, b)))
  BY DEF Clamp
<1> HIDE DEF g, out
<1> QED
  BY <1>2, <1>4, <1>5, <1>6, AgreeOne

-------------------------------------------------------------------------------
(* Operations that move the axes or the elements. *)

\* Some of the dimensions of a list, in some order.
Picked(d, n, p) == [i \in 1 .. n |-> d[p[i]]]

LEMMA PickedTells ==
    ASSUME NEW d, NEW e, Tells(d, e), NEW n \in Nat, NEW p, \A i \in 1 .. n : p[i] \in 1 .. Len(d)
    PROVE  Tells(Picked(d, n, p), Picked(e, n, p))
  BY DEF Tells, DimUnknown, Picked

LEMMA TransposeAgree ==
    ASSUME NEW s, NEW a, Operand(s, a), NEW permutation \in Seq(Int)
    PROVE  Agree(Transpose(s, permutation), Transpose(a, permutation))
<1> DEFINE g == Len(permutation) = Rank(s) /\ AllInRank(permutation, Rank(s)) /\ Distinct(permutation)
           out(v) == WithDims(v, Permuted(v.dims, permutation))
<1>1. Rank(s) = Rank(a) /\ s \in Values /\ a \in Values /\ s.dtype = a.dtype /\ Rank(s) \in Nat
  BY OperandFacts
<1>2. ASSUME g
      PROVE  Describes(out(s), out(a))
  <2> DEFINE p == [i \in 1 .. Rank(s) |-> permutation[i] + 1]
  <2>1. p \in [1 .. Rank(s) -> 1 .. Rank(s)]
    BY <1>1, <1>2 DEF AllInRank, InRank
  <2>2. Permuted(s.dims, permutation) = Picked(s.dims, Rank(s), p)
    BY OperandFacts DEF Permuted, Picked
  <2>3. Permuted(a.dims, permutation) = Picked(a.dims, Rank(s), p)
    BY OperandFacts DEF Permuted, Picked
  <2> HIDE DEF p
  <2>4. Tells(s.dims, a.dims) /\ \A i \in 1 .. Rank(s) : p[i] \in 1 .. Len(s.dims)
    BY <2>1, OperandTells
  <2>5. Tells(Picked(s.dims, Rank(s), p), Picked(a.dims, Rank(s), p))
    BY <1>1, <2>4, PickedTells
  <2> QED
    BY <1>1, <2>2, <2>3, <2>5, WithDimsDescribes
<1>3. g \in BOOLEAN
  BY DEF AllInRank, Distinct
<1>4. Transpose(s, permutation) = Guard(g, Ok1(out(s))) /\ Transpose(a, permutation) = Guard(g, Ok1(out(a)))
  BY <1>1 DEF Transpose
<1> HIDE DEF g, out
<1> QED
  BY <1>2, <1>3, <1>4, AgreeOne

\* Operations that return an operand as it is, if the axes are there.
LEMMA SameAgree ==
    ASSUME NEW s, NEW a, Operand(s, a), NEW axis \in Int
    PROVE  /\ Agree(ReverseOp(s, <<axis, -1>>), ReverseOp(a, <<axis, -1>>))
           /\ Agree(BatchNormInference(s, axis), BatchNormInference(a, axis))
           /\ Agree(SelectAndScatter(s), SelectAndScatter(a))
           /\ Agree(DynamicUpdateSlice(s), DynamicUpdateSlice(a))
           /\ Agree(GetDimensionSize(s, axis), GetDimensionSize(a, axis))
<1>1. Rank(s) = Rank(a) /\ Describes(s, a)
  BY OperandFacts DEF Operand
<1>2. Describes(Shape("i32", << >>), Shape("i32", << >>))
  <2>1. Tells(<< >>, << >>)
    BY DEF Tells
  <2> QED
    BY <2>1, ShapeDescribes DEF DTypes
<1>3. Agree(ReverseOp(s, <<axis, -1>>), ReverseOp(a, <<axis, -1>>))
  <2> DEFINE g(v) == \A i \in DOMAIN <<axis, -1>> : InRankNeg(<<axis, -1>>[i], Rank(v))
  <2>1. g(s) \in BOOLEAN /\ g(a) = g(s)
    BY <1>1
  <2>2. ReverseOp(s, <<axis, -1>>) = Guard(g(s), Ok1(s)) /\ ReverseOp(a, <<axis, -1>>) = Guard(g(a), Ok1(a))
    BY DEF ReverseOp
  <2> HIDE DEF g
  <2> QED
    BY <1>1, <2>1, <2>2, AgreeOne
<1>4. InRankNeg(axis, Rank(s)) \in BOOLEAN
  BY DEF InRankNeg
<1> QED
  BY <1>1, <1>2, <1>3, <1>4, AgreeOne, AgreeOk
     DEF BatchNormInference, SelectAndScatter, DynamicUpdateSlice, GetDimensionSize

LEMMA ReshapeAgree ==
    ASSUME NEW s, NEW a, NEW t, NEW b, Operand(s, a), Operand(t, b)
    PROVE  Agree(ReshapeOp(s, t), ReshapeOp(a, b))
<1> DEFINE g(v, w) == v.dtype = w.dtype /\ (IsDynamic(v) \/ IsDynamic(w) \/ Size(v) = Size(w))
<1>1. s.dtype = a.dtype /\ t.dtype = b.dtype /\ Describes(t, b)
  BY OperandFacts DEF Operand
<1>2. ASSUME NEW v, NEW w, Operand(v, w)
      PROVE  ~IsDynamic(w) /\ (~IsDynamic(v) => v.dims = w.dims)
  <2>0. /\ v \in Values /\ w \in Values /\ Rank(v) = Rank(w) /\ Rank(v) \in Nat
        /\ DOMAIN v.dims = 1 .. Rank(v) /\ DOMAIN w.dims = 1 .. Rank(v)
        /\ \A i \in 1 .. Rank(v) : v.dims[i] \in {DimUnknown, w.dims[i]} /\ w.dims[i] \in Int /\ w.dims[i] >= 1
    BY <1>2, OperandFacts
  <2>1. ~IsDynamic(w)
    BY <2>0 DEF IsDynamic, DimUnknown
  <2>2. ASSUME ~IsDynamic(v)
        PROVE  v.dims = w.dims
    <3>1. \A i \in 1 .. Rank(v) : v.dims[i] = w.dims[i]
      BY <2>0, <2>2 DEF IsDynamic
    <3>2. v.dims \in Seq(Int) /\ w.dims \in Seq(Int) /\ Len(v.dims) = Rank(v) /\ Len(w.dims) = Rank(v)
      BY <2>0 DEF Values, Rank
    <3> QED
      BY <3>1, <3>2, SameList
  <2> QED
    BY <2>1, <2>2
<1>3. g(a, b) => g(s, t)
  <2>1. Size(a) = Size(b) /\ s.dims = a.dims /\ t.dims = b.dims => Size(s) = Size(t)
    BY DEF Size
  <2> QED
    BY <1>1, <1>2, <2>1
<1>4. g(s, t) \in BOOLEAN /\ g(a, b) \in BOOLEAN
  BY DEF IsDynamic
<1>5. ReshapeOp(s, t) = Guard(g(s, t), Ok1(t)) /\ ReshapeOp(a, b) = Guard(g(a, b), Ok1(b))
  BY DEF ReshapeOp
<1> HIDE DEF g
<1> QED
  BY <1>1, <1>3, <1>4, <1>5, AgreeOne

LEMMA BroadcastAgree ==
    ASSUME NEW s, NEW a, NEW t, NEW b, Operand(s, a), Operand(t, b), NEW axes \in Seq(Int)
    PROVE  Agree(BroadcastInDim(s, t, axes), BroadcastInDim(a, b, axes))
<1> DEFINE to(i) == AdjustAxis(axes[i], Rank(t)) + 1
           places == /\ Rank(t) >= Rank(s) /\ Len(axes) = Rank(s)
                     /\ \A i \in DOMAIN axes : InRankNeg(axes[i], Rank(t))
                     /\ \A i, j \in DOMAIN axes : to(i) = to(j) => i = j
           fit(v, w) == \A i \in DOMAIN axes : v.dims[i] = 1 \/ SameDim(v.dims[i], w.dims[to(i)])
           g(v, w) == v.dtype = w.dtype /\ places /\ fit(v, w)
<1>1. s.dtype = a.dtype /\ t.dtype = b.dtype /\ Rank(s) = Rank(a) /\ Rank(t) = Rank(b) /\ Describes(t, b)
  BY OperandFacts DEF Operand
<1>2. g(a, b) => g(s, t)
  <2> SUFFICES ASSUME g(a, b), NEW i \in DOMAIN axes
               PROVE  s.dims[i] = 1 \/ SameDim(s.dims[i], t.dims[to(i)])
    BY <1>1
  <2>1. i \in 1 .. Rank(s) /\ to(i) \in 1 .. Rank(t)
    BY OperandFacts DEF InRankNeg, AdjustAxis
  <2>2. a.dims[i] = 1 \/ SameDim(a.dims[i], b.dims[to(i)])
    OBVIOUS
  <2> HIDE DEF to
  <2>3. /\ s.dims[i] \in {DimUnknown, a.dims[i]} /\ t.dims[to(i)] \in {DimUnknown, b.dims[to(i)]}
        /\ a.dims[i] >= 1 /\ b.dims[to(i)] >= 1 /\ a.dims[i] \in Int /\ b.dims[to(i)] \in Int
    BY <2>1, OperandFacts
  <2> QED
    BY <2>2, <2>3 DEF SameDim, DimUnknown
<1>3. g(s, t) \in BOOLEAN /\ g(a, b) \in BOOLEAN
  OBVIOUS
<1>4. BroadcastInDim(s, t, axes) = Guard(g(s, t), Ok1(t)) /\ BroadcastInDim(a, b, axes) = Guard(g(a, b), Ok1(b))
  BY <1>1 DEF BroadcastInDim
<1> HIDE DEF g
<1> QED
  BY <1>1, <1>2, <1>3, <1>4, AgreeOne


\* Two operands joined along an axis.
LEMMA PairSet ==
    ASSUME NEW x, NEW y
    PROVE  SetOf(<<x, y>>) = {x, y}
<1>1. DOMAIN <<x, y>> = {1, 2}
  OBVIOUS
<1> QED
  BY <1>1 DEF SetOf

LEMMA JoinedTells ==
    ASSUME NEW d1, NEW e1, NEW d2, NEW e2, d1 \in {DimUnknown, e1}, d2 \in {DimUnknown, e2},
           e1 \in Int, e2 \in Int, e1 >= 1, e2 >= 1
    PROVE  /\ Joined(<<d1, d2>>) \in {DimUnknown, Joined(<<e1, e2>>)} 
           /\ Joined(<<e1, e2>>) = SumOf(<<e1, e2>>)
<1>1. SetOf(<<d1, d2>>) = {d1, d2} /\ SetOf(<<e1, e2>>) = {e1, e2}
  BY PairSet
<1>2. DimUnknown \notin {e1, e2}
  BY DEF DimUnknown
<1> QED
  BY <1>1, <1>2 DEF Joined


KnownOf(v, w, i) == {v.dims[i], w.dims[i]} \ {DimUnknown}
ConcatenatedDim(v, w, axis, i) ==
    IF i = axis + 1 THEN Joined(<<v.dims[i], w.dims[i]>>)
    ELSE IF KnownOf(v, w, i) = {} THEN DimUnknown
    ELSE CHOOSE d \in KnownOf(v, w, i) : TRUE
Concatenated(v, w, axis) == [i \in DOMAIN v.dims |-> ConcatenatedDim(v, w, axis, i)]
Concatenable(v, w, axis) ==
    /\ InRank(axis, Rank(v))
    /\ v.dtype = w.dtype /\ Rank(v) = Rank(w)
    /\ \A i \in DOMAIN v.dims \ {axis + 1} : Cardinality(KnownOf(v, w, i)) <= 1

LEMMA ConcatenateOfTwo ==
    ASSUME NEW v, NEW w, NEW axis
    PROVE  Concatenate(<<v, w>>, axis) = Guard(Concatenable(v, w, axis), Ok1(WithDims(v, Concatenated(v, w, axis))))
<1> DEFINE xs == <<v, w>>
           At(ys, i) == [k \in DOMAIN ys |-> ys[k].dims[i]]
           Known(ys, i) == SetOf(At(ys, i)) \ {DimUnknown}
           dim(ys, i) == IF i = axis + 1 THEN Joined(At(ys, i))
                         ELSE IF Known(ys, i) = {} THEN DimUnknown
                         ELSE CHOOSE d \in Known(ys, i) : TRUE
           g(ys) == /\ InRank(axis, Rank(ys[1]))
                    /\ \A k \in DOMAIN ys : ys[k].dtype = ys[1].dtype /\ Rank(ys[k]) = Rank(ys[1])
                    /\ \A i \in DOMAIN ys[1].dims \ {axis + 1} : Cardinality(Known(ys, i)) <= 1
<1>1. xs[1] = v /\ xs[2] = w /\ DOMAIN xs = {1, 2} /\ Len(xs) = 2
  OBVIOUS
<1>2. ASSUME NEW i
      PROVE  At(xs, i) = <<v.dims[i], w.dims[i]>> /\ Known(xs, i) = KnownOf(v, w, i)
  <2>1. At(xs, i) = <<v.dims[i], w.dims[i]>>
    OBVIOUS
  <2> QED
    BY <2>1, PairSet DEF KnownOf
<1>3. ASSUME NEW ys, Len(ys) # 1
      PROVE  Concatenate(ys, axis) = Guard(g(ys), Ok1(WithDims(ys[1], [i \in DOMAIN ys[1].dims |-> dim(ys, i)])))
  BY <1>3 DEF Concatenate
<1> HIDE DEF xs, At, Known
<1>4. g(xs) <=> Concatenable(v, w, axis)
  BY <1>1, <1>2 DEF Concatenable
<1>5. [i \in DOMAIN v.dims |-> dim(xs, i)] = Concatenated(v, w, axis)
  <2>1. ASSUME NEW i
        PROVE  dim(xs, i) = ConcatenatedDim(v, w, axis, i)
    <3>1. At(xs, i) = <<v.dims[i], w.dims[i]>> /\ Known(xs, i) = KnownOf(v, w, i)
      BY <1>2
    <3>2. (CHOOSE d \in Known(xs, i) : TRUE) = CHOOSE d \in KnownOf(v, w, i) : TRUE
      BY <3>1
    <3>3. dim(xs, i) = IF i = axis + 1 THEN Joined(At(xs, i)) ELSE IF Known(xs, i) = {} THEN DimUnknown ELSE CHOOSE d \in Known(xs, i) : TRUE
      BY Zenon
    <3> HIDE DEF dim
    <3> QED
      BY <3>1, <3>2, <3>3 DEF ConcatenatedDim
  <2> HIDE DEF dim
  <2> QED
    BY <2>1, Zenon DEF Concatenated
<1> HIDE DEF g, dim
<1> QED
  BY <1>1, <1>3, <1>4, <1>5 DEF Guard, xs

\* Two numbers, as a set, are one or they are the same.
LEMMA OneOfTwo ==
    ASSUME NEW x, NEW y
    PROVE  Cardinality({x, y}) <= 1 <=> x = y
<1>1. Cardinality({x}) = 1 /\ IsFiniteSet({x})
  BY FS_Singleton
<1>2. CASE x = y
  <2>1. {x, y} = {x}
    BY <1>2
  <2> QED
    BY <1>1, <1>2, <2>1
<1>3. CASE x # y
  <2>1. {x, y} = {x} \cup {y} /\ y \notin {x}
    BY <1>3
  <2>2. Cardinality({x} \cup {y}) = Cardinality({x}) + 1
    BY <1>1, <2>1, FS_AddElement
  <2> QED
    BY <1>1, <1>3, <2>1, <2>2
<1> QED
  BY <1>2, <1>3

LEMMA KnownFacts ==
    ASSUME NEW s, NEW a, NEW t, NEW b, Operand(s, a), Operand(t, b), Rank(s) = Rank(t), NEW i \in 1 .. Rank(s)
    PROVE  /\ KnownOf(a, b, i) = {a.dims[i], b.dims[i]}
           /\ a.dims[i] = b.dims[i] => KnownOf(s, t, i) = {} \/ KnownOf(s, t, i) = {a.dims[i]}
<1>1. /\ a.dims[i] \in Int /\ a.dims[i] >= 1 /\ b.dims[i] \in Int /\ b.dims[i] >= 1
      /\ s.dims[i] \in {DimUnknown, a.dims[i]} /\ t.dims[i] \in {DimUnknown, b.dims[i]}
  BY OperandFacts
<1>2. a.dims[i] # DimUnknown /\ b.dims[i] # DimUnknown
  BY <1>1 DEF DimUnknown
<1> QED
  BY <1>1, <1>2 DEF KnownOf

LEMMA ConcatenateAgree ==
    ASSUME NEW s, NEW a, NEW t, NEW b, Operand(s, a), Operand(t, b), NEW axis \in Int
    PROVE  /\ Agree(ConcatenateOp(<<s>>, axis), ConcatenateOp(<<a>>, axis))
           /\ Agree(ConcatenateOp(<<s, t>>, axis), ConcatenateOp(<<a, b>>, axis))
<1>1. /\ s.dtype = a.dtype /\ t.dtype = b.dtype /\ Rank(s) = Rank(a) /\ Rank(t) = Rank(b) /\ Rank(s) \in Nat
      /\ DOMAIN s.dims = 1 .. Rank(s) /\ DOMAIN a.dims = 1 .. Rank(s) /\ s \in Values /\ a \in Values
  BY OperandFacts
<1>2. Describes(s, a)
  BY DEF Operand
<1>3. Agree(ConcatenateOp(<<s>>, axis), ConcatenateOp(<<a>>, axis))
  <2>1. \A x : Concatenate(<<x>>, axis) = Ok1(x)
    BY DEF Concatenate
  <2> QED
    BY <1>1, <1>2, <2>1, AgreeOk DEF ConcatenateOp, Agree, Sure, True, Error
<1>4. ASSUME NEW v, NEW w, Rank(v) \in Nat
      PROVE  ConcatenateOp(<<v, w>>, axis) = Guard(Concatenable(v, w, axis), Ok1(WithDims(v, Concatenated(v, w, axis))))
  <2>1. InRank(axis, Rank(v)) => InRankNeg(axis, Rank(v))
    BY <1>4 DEF InRank, InRankNeg
  <2>2. Concatenable(v, w, axis) => InRank(axis, Rank(v))
    BY DEF Concatenable
  <2>3. <<v, w>>[1] = v
    OBVIOUS
  <2> QED
    BY <2>1, <2>2, <2>3, ConcatenateOfTwo DEF ConcatenateOp, Guard, Error
<1>5. Concatenable(a, b, axis) =>
          /\ Concatenable(s, t, axis) /\ Rank(s) = Rank(t)
          /\ \A i \in 1 .. Rank(s) : i # axis + 1 => a.dims[i] = b.dims[i]
  <2> SUFFICES ASSUME Concatenable(a, b, axis)
               PROVE  /\ Concatenable(s, t, axis) /\ Rank(s) = Rank(t)
                      /\ \A i \in 1 .. Rank(s) : i # axis + 1 => a.dims[i] = b.dims[i]
    OBVIOUS
  <2>1. Rank(s) = Rank(t) /\ s.dtype = t.dtype /\ InRank(axis, Rank(s))
    BY <1>1 DEF Concatenable
  <2>2. ASSUME NEW i \in 1 .. Rank(s), i # axis + 1
        PROVE  a.dims[i] = b.dims[i] /\ Cardinality(KnownOf(s, t, i)) <= 1
    <3>1. Cardinality(KnownOf(a, b, i)) <= 1
      BY <1>1, <2>2 DEF Concatenable
    <3>2. a.dims[i] = b.dims[i]
      <4>1. KnownOf(a, b, i) = {a.dims[i], b.dims[i]}
        BY <2>1, KnownFacts
      <4>2. Cardinality({a.dims[i], b.dims[i]}) <= 1
        BY <3>1, <4>1
      <4> QED
        BY <4>2, OneOfTwo
    <3>3. KnownOf(s, t, i) = {} \/ KnownOf(s, t, i) = {a.dims[i]}
      BY <2>1, <3>2, KnownFacts
    <3>4. Cardinality({a.dims[i]}) = 1 /\ Cardinality({}) = 0
      BY FS_Singleton, FS_EmptySet
    <3>5. CASE KnownOf(s, t, i) = {}
      BY <3>2, <3>4, <3>5
    <3>6. CASE KnownOf(s, t, i) = {a.dims[i]}
      BY <3>2, <3>4, <3>6
    <3> QED
      BY <3>3, <3>5, <3>6
  <2> QED
    BY <1>1, <2>1, <2>2 DEF Concatenable
<1> DEFINE d == Concatenated(s, t, axis)
           e == Concatenated(a, b, axis)
<1>6. ASSUME Concatenable(a, b, axis), WithinBounds(WithDims(a, e))
      PROVE  Describes(WithDims(s, d), WithDims(a, e))
  <2>1. WithDims(a, e).dims = e
    BY <1>1 DEF WithDims, Values
  <2>2. ASSUME NEW i \in 1 .. Rank(s)
        PROVE  e[i] \in Int /\ d[i] \in {DimUnknown, e[i]}
    <3>1. e[i] = ConcatenatedDim(a, b, axis, i) /\ d[i] = ConcatenatedDim(s, t, axis, i) /\ i \in DOMAIN e
      BY <1>1 DEF Concatenated
    <3> HIDE DEF d, e
    <3>2. e[i] \in Int
      BY <1>6, <2>1, <3>1 DEF WithinBounds
    <3>3. Rank(s) = Rank(t)
      BY <1>5, <1>6
    <3>4. CASE i = axis + 1
      <4>1. /\ a.dims[i] \in Int /\ a.dims[i] >= 1 /\ b.dims[i] \in Int /\ b.dims[i] >= 1
            /\ s.dims[i] \in {DimUnknown, a.dims[i]} /\ t.dims[i] \in {DimUnknown, b.dims[i]}
        BY <3>3, OperandFacts
      <4>2. Joined(<<s.dims[i], t.dims[i]>>) \in {DimUnknown, Joined(<<a.dims[i], b.dims[i]>>)}
        BY <4>1, JoinedTells
      <4> QED
        BY <3>1, <3>2, <3>4, <4>2 DEF ConcatenatedDim
    <3>5. CASE i # axis + 1
      <4>1. a.dims[i] = b.dims[i]
        BY <1>5, <1>6, <3>5
      <4>2. KnownOf(a, b, i) = {a.dims[i]} /\ (KnownOf(s, t, i) = {} \/ KnownOf(s, t, i) = {a.dims[i]})
        BY <3>3, <4>1, KnownFacts
      <4>3. e[i] = a.dims[i]
        BY <3>1, <3>5, <4>2 DEF ConcatenatedDim
      <4>4. d[i] = DimUnknown \/ d[i] = a.dims[i]
        BY <3>1, <3>5, <4>2 DEF ConcatenatedDim
      <4> QED
        BY <3>2, <4>3, <4>4
    <3> QED
      BY <3>4, <3>5
  <2>3. d = [i \in 1 .. Rank(s) |-> d[i]] /\ e = [i \in 1 .. Rank(s) |-> e[i]]
    BY <1>1 DEF Concatenated
  <2> HIDE DEF d, e
  <2>4. Tells(d, e)
    BY <1>1, <2>2, <2>3, ListsTell
  <2> QED
    BY <1>1, <2>4, WithDimsDescribes
<1>7. Concatenable(s, t, axis) \in BOOLEAN /\ Concatenable(a, b, axis) \in BOOLEAN
  BY DEF Concatenable
<1>8. Agree(ConcatenateOp(<<s, t>>, axis), ConcatenateOp(<<a, b>>, axis))
  <2>1. /\ ConcatenateOp(<<s, t>>, axis) = Guard(Concatenable(s, t, axis), Ok1(WithDims(s, d)))
        /\ ConcatenateOp(<<a, b>>, axis) = Guard(Concatenable(a, b, axis), Ok1(WithDims(a, e)))
    BY <1>1, <1>4
  <2> HIDE DEF d, e
  <2> QED
    BY <1>5, <1>6, <1>7, <2>1, AgreeOne
<1> QED
  BY <1>3, <1>8

LEMMA SortAgree ==
    ASSUME NEW s, NEW a, NEW t, NEW b, Operand(s, a), Operand(t, b), NEW axis \in Int
    PROVE  Agree(SortOp(<<s, t>>, axis), SortOp(<<a, b>>, axis))
<1> DEFINE at == AdjustAxis(axis, Rank(s))
           g(v, w) == InRank(at, Rank(s)) /\ Compatible(v.dims, v.dims) /\ Compatible(w.dims, v.dims)
<1>1. Rank(s) = Rank(a) /\ Describes(s, a) /\ Describes(t, b)
  BY OperandFacts DEF Operand
<1>2. ASSUME NEW v, NEW w, Rank(v) = Rank(s)
      PROVE  Sort(<<v, w>>, at) = Guard(g(v, w), Ok(<<v, w>>))
  <2>1. /\ <<v, w>> # << >> /\ <<v, w>>[1] = v /\ <<v, w>>[2] = w /\ DOMAIN <<v, w>> = {1, 2}
    OBVIOUS
  <2> QED
    BY <1>2, <2>1 DEF Sort, Guard
<1>3. ASSUME NEW v, NEW w, Rank(v) = Rank(s)
      PROVE  SortOp(<<v, w>>, axis) = IF InRankNeg(axis, Rank(s)) THEN Guard(g(v, w), Ok(<<v, w>>)) ELSE Error
  <2>1. /\ <<v, w>> # << >> /\ <<v, w>>[1] = v
    OBVIOUS
  <2> HIDE DEF g
  <2> QED
    BY <1>2, <1>3, <2>1 DEF SortOp
<1>4. g(a, b) => g(s, t)
  <2>1. Compatible(s.dims, s.dims)
    BY DEF Compatible, SameDim
  <2> QED
    BY <2>1, CompatibleCovers
<1>5. g(s, t) \in BOOLEAN /\ g(a, b) \in BOOLEAN
  BY DEF Compatible
<1>6. Agree(Guard(g(s, t), Ok(<<s, t>>)), Guard(g(a, b), Ok(<<a, b>>)))
  <2> HIDE DEF g
  <2> QED
    BY <1>1, <1>4, <1>5, AgreePair
<1> HIDE DEF g
<1>7. CASE InRankNeg(axis, Rank(s))
  BY <1>1, <1>3, <1>6, <1>7
<1>8. CASE ~InRankNeg(axis, Rank(s))
  BY <1>1, <1>3, <1>8 DEF Agree, Sure, True, Error
<1> QED
  BY <1>7, <1>8

\* The numbers of bits, and a list made longer or shorter by one.
LEMMA BitsNumber ==
    ASSUME NEW t \in DTypes
    PROVE  Bits(t) \in {8, 16, 32, 64, 128}
  BY DEF DTypes, Bits

LEMMA AppendTells ==
    ASSUME NEW d, NEW e, Tells(d, e), NEW n \in Int
    PROVE  Tells(Append(d, n), Append(e, n))
  BY DEF Tells

LEMMA FrontTells ==
    ASSUME NEW d, NEW e, Tells(d, e), Len(d) # 0
    PROVE  Tells(Front(d), Front(e))
<1>1. Len(d) - 1 \in Nat /\ Len(e) = Len(d)
  BY DEF Tells
<1>2. /\ Front(d) = [i \in 1 .. Len(d) - 1 |-> d[i]]
      /\ Front(e) = [i \in 1 .. Len(d) - 1 |-> e[i]]
  BY <1>1 DEF Front, Tells
<1>3. \A i \in 1 .. Len(d) - 1 : d[i] \in {DimUnknown, e[i]} /\ e[i] \in Int
  BY DEF Tells
<1> QED
  BY <1>1, <1>2, <1>3, ListsTell

LEMMA BitcastAgree ==
    ASSUME NEW s, NEW a, Operand(s, a), NEW target \in DTypes
    PROVE  Agree(BitcastConvert(s, target), BitcastConvert(a, target))
<1> DEFINE from == Bits(s.dtype)
           to == Bits(target)
           u == WithDType(s, target)
           b == WithDType(a, target)
           whole == (to + from - 1) \div from
<1>1. /\ s.dtype = a.dtype /\ s.dtype \in DTypes /\ Rank(s) = Rank(a) /\ Rank(s) \in Nat
      /\ Describes(s, a) /\ Tells(s.dims, a.dims) /\ Len(s.dims) = Rank(s)
  BY OperandFacts, OperandTells DEF Operand, Values
<1>2. from \in Nat /\ to \in Nat /\ from # 0 /\ to # 0
  BY <1>1, BitsNumber
<1>3. Describes(u, b) /\ u \in Values /\ b \in Values /\ u.dtype = b.dtype
  BY <1>1, WithDTypeDescribes DEF Describes, Covers
<1>4. CASE from = to
  BY <1>1, <1>3, <1>4, AgreeOk DEF BitcastConvert
<1>5. CASE from # to /\ from > to
  <2>1. from \div to \in Int
    BY <1>2
  <2>2. Describes(WithDims(u, Append(s.dims, from \div to)), WithDims(b, Append(a.dims, from \div to)))
    BY <1>1, <1>3, <2>1, AppendTells, WithDimsDescribes
  <2> QED
    BY <1>1, <1>5, <2>2, AgreeOk DEF BitcastConvert
<1>6. CASE from # to /\ ~(from > to) /\ Rank(s) = 0
  BY <1>1, <1>6 DEF BitcastConvert, IsScalar, Agree, Sure, True, Panic
<1>7. CASE from # to /\ ~(from > to) /\ Rank(s) # 0
  <2>1. Describes(WithDims(u, Front(s.dims)), WithDims(b, Front(a.dims)))
    BY <1>1, <1>3, <1>7, FrontTells, WithDimsDescribes
  <2>2. /\ BitcastConvert(s, target) = Guard(SameDim(s.dims[Rank(s)], whole), Ok1(WithDims(u, Front(s.dims))))
        /\ BitcastConvert(a, target) = Guard(SameDim(a.dims[Rank(s)], whole), Ok1(WithDims(b, Front(a.dims))))
    BY <1>1, <1>7 DEF BitcastConvert, IsScalar
  <2>3. SameDim(a.dims[Rank(s)], whole) => SameDim(s.dims[Rank(s)], whole)
    <3>1. Rank(s) \in 1 .. Rank(s)
      BY <1>1, <1>7
    <3>2. s.dims[Rank(s)] \in {DimUnknown, a.dims[Rank(s)]}
      BY <3>1, OperandFacts
    <3> QED
      BY <3>2 DEF SameDim
  <2>4. SameDim(s.dims[Rank(s)], whole) \in BOOLEAN /\ SameDim(a.dims[Rank(s)], whole) \in BOOLEAN
    BY DEF SameDim
  <2> HIDE DEF u, b
  <2> QED
    BY <2>1, <2>2, <2>3, <2>4, AgreeOne
<1> QED
  BY <1>4, <1>5, <1>6, <1>7

\* Operations with several outputs.
LEMMA ListsAgree ==
    ASSUME NEW s, NEW a, NEW t, NEW b, Operand(s, a), Operand(t, b)
    PROVE  /\ Agree(OptimizationBarrier(<<s, t>>), OptimizationBarrier(<<a, b>>))
           /\ Agree(RNGBitGenerator(s, t), RNGBitGenerator(a, b))
<1>1. Describes(s, a) /\ Describes(t, b)
  BY DEF Operand
<1>2. Agree(Ok(<<s, t>>), Ok(<<a, b>>))
  BY <1>1, AgreeOkPair
<1>3. <<s, t>> # << >> /\ <<a, b>> # << >>
  OBVIOUS
<1>4. Agree(OptimizationBarrier(<<s, t>>), OptimizationBarrier(<<a, b>>))
  <2>1. OptimizationBarrier(<<s, t>>) = Ok(<<s, t>>) /\ OptimizationBarrier(<<a, b>>) = Ok(<<a, b>>)
    BY <1>3 DEF OptimizationBarrier, Guard
  <2> QED
    BY <1>2, <2>1
<1>5. Agree(RNGBitGenerator(s, t), RNGBitGenerator(a, b))
  BY <1>2 DEF RNGBitGenerator
<1> QED
  BY <1>4, <1>5

LEMMA BatchNormAgree ==
    ASSUME NEW s, NEW a, Operand(s, a), NEW axis \in Int
    PROVE  /\ Agree(BatchNormTraining(s, axis), BatchNormTraining(a, axis))
           /\ Agree(BatchNormGradient(s, axis), BatchNormGradient(a, axis))
<1> DEFINE features(v) == Shape(v.dtype, <<v.dims[AdjustAxis(axis, Rank(v)) + 1]>>)
<1>1. /\ Rank(s) = Rank(a) /\ Rank(s) \in Nat /\ s.dtype = a.dtype /\ s.dtype \in DTypes /\ Describes(s, a)
  BY OperandFacts DEF Operand, Values
<1>2. ASSUME InRankNeg(axis, Rank(s))
      PROVE  Describes(features(s), features(a))
  <2> DEFINE i == AdjustAxis(axis, Rank(s)) + 1
  <2>1. i \in 1 .. Rank(s)
    BY <1>1, <1>2 DEF InRankNeg, AdjustAxis
  <2> HIDE DEF i
  <2>2. s.dims[i] \in {DimUnknown, a.dims[i]} /\ a.dims[i] \in Int
    BY <2>1, OperandFacts
  <2>3. Tells(<<s.dims[i]>>, <<a.dims[i]>>)
    BY <2>2 DEF Tells, DimUnknown
  <2> QED
    BY <1>1, <2>3, ShapeDescribes DEF i
<1>3. InRankNeg(axis, Rank(s)) \in BOOLEAN
  BY DEF InRankNeg
<1>4. ASSUME InRankNeg(axis, Rank(s))
      PROVE  \A k \in DOMAIN <<s, features(s), features(s)>> \cap DOMAIN <<a, features(a), features(a)>> :
                 Describes(<<s, features(s), features(s)>>[k], <<a, features(a), features(a)>>[k])
  <2> HIDE DEF features
  <2> QED
    BY <1>1, <1>2, <1>4
<1>5. ASSUME NEW v
      PROVE  BatchNormTraining(v, axis) = Guard(InRankNeg(axis, Rank(v)), Ok(<<v, features(v), features(v)>>))
  BY DEF BatchNormTraining
<1> HIDE DEF features
<1>6. Agree(BatchNormTraining(s, axis), BatchNormTraining(a, axis))
  BY <1>1, <1>3, <1>4, <1>5, AgreeList
<1> QED
  BY <1>6 DEF BatchNormGradient

-------------------------------------------------------------------------------
(* Collectives. *)

\* A dimension that an operation multiplies or divides, if it is known.
Times(d, n) == IF d = DimUnknown THEN d ELSE d * n
Over(d, n) == IF d = DimUnknown THEN d ELSE d \div n

LEMMA ChangedTells ==
    ASSUME NEW d, NEW e, Tells(d, e), NEW i \in 1 .. Len(d), NEW x \in Int, NEW y \in Int, x \in {DimUnknown, y}
    PROVE  Tells([d EXCEPT ![i] = x], [e EXCEPT ![i] = y])
  BY DEF Tells

LEMMA ScaledTells ==
    ASSUME NEW d \in Int, NEW e \in Int, e >= 0, d \in {DimUnknown, e}, NEW n \in Nat \ {0}
    PROVE  /\ Times(d, n) \in {DimUnknown, Times(e, n)} /\ Times(e, n) \in Int /\ Times(d, n) \in Int /\ Times(e, n) >= 0
           /\ Over(d, n) \in {DimUnknown, Over(e, n)} /\ Over(e, n) \in Int /\ Over(d, n) \in Int /\ Over(e, n) >= 0
<1>1. e # DimUnknown /\ DimUnknown \in Int
  BY DEF DimUnknown
<1>2. e * n \in Int /\ e * n >= 0
  OBVIOUS
<1>3. e \div n \in Int /\ e \div n >= 0
  OBVIOUS
<1> QED
  BY <1>1, <1>2, <1>3 DEF Times, Over

LEMMA CollectivesAgree ==
    ASSUME NEW s, NEW a, Operand(s, a), NEW groups
    PROVE  /\ Agree(CollectiveBroadcast(s, groups), CollectiveBroadcast(a, groups))
           /\ Agree(CollectivePermute(s, groups), CollectivePermute(a, groups))
<1>1. Describes(s, a)
  BY DEF Operand
<1>2. CASE groups = << >>
  BY <1>2 DEF CollectiveBroadcast, CollectivePermute, Guard, Agree, Sure, True, Error
<1>3. CASE groups # << >>
  BY <1>1, <1>3, AgreeOk DEF CollectiveBroadcast, CollectivePermute, Guard
<1> QED
  BY <1>2, <1>3

LEMMA AllGatherAgree ==
    ASSUME NEW s, NEW a, Operand(s, a), NEW groups, Len(groups[1]) \in Nat \ {0}, NEW axis \in Int
    PROVE  Agree(AllGather(s, groups, axis), AllGather(a, groups, axis))
<1> DEFINE n == Len(groups[1])
           g == groups # << >> /\ InRank(axis, Rank(s))
           i == axis + 1
           out(v) == WithDims(v, [v.dims EXCEPT ![i] = Times(v.dims[i], n)])
<1>1. /\ Rank(s) = Rank(a) /\ s \in Values /\ a \in Values /\ s.dtype = a.dtype /\ Tells(s.dims, a.dims)
      /\ Len(s.dims) = Rank(s) /\ Rank(s) \in Nat
  BY OperandFacts, OperandTells
<1>2. ASSUME g
      PROVE  Describes(out(s), out(a))
  <2>1. i \in 1 .. Rank(s)
    BY <1>1, <1>2 DEF InRank
  <2> HIDE DEF i
  <2>2. s.dims[i] \in {DimUnknown, a.dims[i]} /\ a.dims[i] \in Int /\ a.dims[i] >= 0 /\ s.dims[i] \in Int
    BY <2>1, OperandFacts DEF DimUnknown
  <2>3. /\ Times(s.dims[i], n) \in {DimUnknown, Times(a.dims[i], n)}
        /\ Times(s.dims[i], n) \in Int /\ Times(a.dims[i], n) \in Int
    BY <2>2, ScaledTells
  <2>4. Tells([s.dims EXCEPT ![i] = Times(s.dims[i], n)], [a.dims EXCEPT ![i] = Times(a.dims[i], n)])
    BY <1>1, <2>1, <2>3, ChangedTells
  <2> QED
    BY <1>1, <2>4, WithDimsDescribes
<1>3. AllGather(s, groups, axis) = Guard(g, Ok1(out(s))) /\ AllGather(a, groups, axis) = Guard(g, Ok1(out(a)))
  BY <1>1 DEF AllGather, Times
<1>4. g \in BOOLEAN
  BY DEF InRank
<1> HIDE DEF g, out
<1> QED
  BY <1>2, <1>3, <1>4, AgreeOne

LEMMA AllToAllAgree ==
    ASSUME NEW s, NEW a, Operand(s, a), NEW groups, NEW split \in Int, NEW axis \in Int, NEW count \in Nat \ {0}
    PROVE  Agree(AllToAll(s, groups, split, axis, count), AllToAll(a, groups, split, axis, count))
<1> DEFINE i == split + 1
           j == axis + 1
           places == groups # << >> /\ InRank(split, Rank(s)) /\ InRank(axis, Rank(s)) /\ count > 0
           g(v) == places /\ Divides(count, v.dims[i])
           after(v) == [v.dims EXCEPT ![i] = Over(v.dims[i], count)]
           out(v) == WithDims(v, [after(v) EXCEPT ![j] = Times(after(v)[j], count)])
<1>1. /\ Rank(s) = Rank(a) /\ s \in Values /\ a \in Values /\ s.dtype = a.dtype /\ Tells(s.dims, a.dims)
      /\ Len(s.dims) = Rank(s) /\ Rank(s) \in Nat
  BY OperandFacts, OperandTells
<1>2. places => i \in 1 .. Rank(s) /\ j \in 1 .. Rank(s)
  BY <1>1 DEF InRank
<1> HIDE DEF i, j
<1>3. ASSUME NEW k \in 1 .. Rank(s)
      PROVE  s.dims[k] \in {DimUnknown, a.dims[k]} /\ a.dims[k] \in Int /\ a.dims[k] >= 0 /\ s.dims[k] \in Int
  BY OperandFacts DEF DimUnknown
<1>4. g(a) => g(s)
  BY <1>2, <1>3 DEF Divides
<1>5. ASSUME g(a)
      PROVE  Describes(out(s), out(a))
  <2>1. /\ Over(s.dims[i], count) \in {DimUnknown, Over(a.dims[i], count)} /\ Over(a.dims[i], count) >= 0
        /\ Over(s.dims[i], count) \in Int /\ Over(a.dims[i], count) \in Int
    <3>1. s.dims[i] \in {DimUnknown, a.dims[i]} /\ a.dims[i] \in Int /\ a.dims[i] >= 0 /\ s.dims[i] \in Int
      BY <1>2, <1>3, <1>5
    <3> QED
      BY <3>1, ScaledTells
  <2>2. Tells(after(s), after(a))
    BY <1>1, <1>2, <1>5, <2>1, ChangedTells
  <2>3. after(a)[j] >= 0 /\ Len(after(s)) = Rank(s)
    BY <1>1, <1>2, <1>3, <1>5, <2>1 DEF Tells
  <2> HIDE DEF after
  <2>4. after(s)[j] \in Int /\ after(a)[j] \in Int /\ after(s)[j] \in {DimUnknown, after(a)[j]}
    <3>1. j \in 1 .. Len(after(s))
      BY <1>2, <1>5, <2>3
    <3> QED
      BY <2>2, <3>1, TellsAt
  <2>5. /\ Times(after(s)[j], count) \in {DimUnknown, Times(after(a)[j], count)}
        /\ Times(after(s)[j], count) \in Int /\ Times(after(a)[j], count) \in Int
    BY <2>3, <2>4, ScaledTells
  <2>6. Tells([after(s) EXCEPT ![j] = Times(after(s)[j], count)], [after(a) EXCEPT ![j] = Times(after(a)[j], count)])
    BY <1>2, <1>5, <2>2, <2>3, <2>5, ChangedTells
  <2> QED
    BY <1>1, <2>6, WithDimsDescribes
<1>6. ASSUME NEW v, Rank(v) = Rank(s)
      PROVE  AllToAll(v, groups, split, axis, count) = Guard(g(v), Ok1(out(v)))
  BY <1>6, Zenon DEF AllToAll, JoinedAfterSplit, Times, Over, i, j
<1>7. g(s) \in BOOLEAN /\ g(a) \in BOOLEAN
  BY DEF InRank, Divides
<1> HIDE DEF g, out
<1> QED
  BY <1>1, <1>4, <1>5, <1>6, <1>7, AgreeOne

LEMMA AllReduceAgree ==
    ASSUME NEW s, NEW a, NEW t, NEW b, Operand(s, a), Operand(t, b), NEW groups
    PROVE  LET scalar(v) == Shape(v.dtype, << >>)
           IN  Agree(AllReduce(<<s, t>>, <<scalar(s), scalar(s)>>, <<scalar(s)>>, groups),
                     AllReduce(<<a, b>>, <<scalar(a), scalar(a)>>, <<scalar(a)>>, groups))
<1> DEFINE scalar(v) == Shape(v.dtype, << >>)
           g(v, w) == v.dtype = w.dtype /\ groups # << >>
<1>1. s.dtype = a.dtype /\ t.dtype = b.dtype /\ Describes(s, a) /\ Describes(t, b)
  BY OperandFacts DEF Operand
<1>2. ASSUME NEW v, NEW w
      PROVE  AllReduce(<<v, w>>, <<scalar(v), scalar(v)>>, <<scalar(v)>>, groups) = Guard(g(v, w), Ok(<<v, w>>))
  <2>1. IsScalar(scalar(v)) /\ scalar(v).dtype = v.dtype
    BY DEF IsScalar, Rank, Shape
  <2> DEFINE ins == <<scalar(v), scalar(v)>>
             outs == <<scalar(v)>>
             vs == <<v, w>>
  <2>2. /\ DOMAIN vs = {1, 2} /\ vs[1] = v /\ vs[2] = w
        /\ Len(ins) = 2 /\ ins[1] = scalar(v) /\ ins[2] = scalar(v) /\ Len(outs) = 1 /\ outs[1] = scalar(v)
    OBVIOUS
  <2> HIDE DEF scalar, vs, ins, outs
  <2>3. AllReduce(vs, ins, outs, groups) = Guard(g(v, w), Ok(vs))
    BY <2>1, <2>2 DEF AllReduce, Guard
  <2> QED
    BY <2>3 DEF vs, ins, outs
<1>3. g(s, t) \in BOOLEAN /\ g(a, b) \in BOOLEAN /\ (g(a, b) => g(s, t))
  BY <1>1
<1> HIDE DEF g
<1>4. Agree(Guard(g(s, t), Ok(<<s, t>>)), Guard(g(a, b), Ok(<<a, b>>)))
  BY <1>1, <1>3, AgreePair
<1> QED
  BY <1>2, <1>4

-------------------------------------------------------------------------------
(* Slices and paddings, whose dimensions are counted at run time. *)

\* The numbers from zero to the last one.
LEMMA CountTo ==
    ASSUME NEW n \in Nat
    PROVE  Cardinality(0 .. n - 1) = n
  BY FS_Interval

LEMMA SelectedCount ==
    ASSUME NEW start \in {0, 1}, NEW limit \in {2, 3}, NEW stride \in {1, 2}, limit <= MaxDim, MaxDim \in Nat
    PROVE  Selected(start, limit, stride) = (limit - start + stride - 1) \div stride
<1> DEFINE n == (limit - start + stride - 1) \div stride
<1>1. {k \in 0 .. MaxDim : start + k * stride < limit} = 0 .. n - 1
  <2>1. CASE stride = 1
    BY <2>1
  <2>2. CASE stride = 2
    BY <2>2
  <2> QED
    BY <2>1, <2>2
<1>2. n \in Nat
  OBVIOUS
<1> HIDE DEF n
<1> QED
  BY <1>1, <1>2, CountTo DEF Selected, n

LEMMA CountedGuard ==
    ASSUME NEW g, g \in BOOLEAN, NEW x, NEW dims
    PROVE  Counted(Guard(g, Ok1(x)), dims) = Guard(g, Ok1(WithDims(x, dims)))
<1>1. /\ Guard(TRUE, Ok1(x)) = Ok1(x) /\ Guard(FALSE, Ok1(x)) = Error
      /\ Guard(TRUE, Ok1(WithDims(x, dims))) = Ok1(WithDims(x, dims)) /\ Guard(FALSE, Ok1(WithDims(x, dims))) = Error
  BY DEF Guard
<1>2. Counted(Error, dims) = Error
  BY DEF Counted, Error
<1>3. Counted(Ok1(x), dims) = Ok1(WithDims(x, dims))
  <2> DEFINE one == <<x>>
  <2>1. [k \in DOMAIN one |-> WithDims(one[k], dims)] = <<WithDims(x, dims)>>
    OBVIOUS
  <2>2. Ok(one).status = "ok" /\ Ok(one).shapes = one
    BY DEF Ok
  <2> HIDE DEF one
  <2>3. Counted(Ok(one), dims) = Ok(<<WithDims(x, dims)>>)
    BY <2>1, <2>2 DEF Counted
  <2> QED
    BY <2>3 DEF one, Ok1
<1>4. CASE g = TRUE
  BY <1>1, <1>3, <1>4
<1>5. CASE g = FALSE
  BY <1>1, <1>2, <1>5
<1> QED
  BY <1>4, <1>5

LEMMA RepeatFacts ==
    ASSUME NEW x, NEW y, NEW n \in Nat
    PROVE  /\ Len(Repeat(x, n)) = n /\ \A i \in 1 .. n : Repeat(x, n)[i] = x
           /\ OrDefault(Repeat(x, n), Repeat(y, n)) = Repeat(x, n) /\ OrDefault(<< >>, Repeat(x, n)) = Repeat(x, n)
<1>1. Len(Repeat(x, n)) = n /\ \A i \in 1 .. n : Repeat(x, n)[i] = x
  BY DEF Repeat
<1>2. CASE Repeat(x, n) = << >>
  <2>1. n = 0
    BY <1>1, <1>2
  <2>2. Repeat(x, n) = Repeat(y, n)
    BY <2>1 DEF Repeat
  <2> QED
    BY <1>1, <2>2 DEF OrDefault
<1>3. CASE Repeat(x, n) # << >>
  BY <1>1, <1>3 DEF OrDefault
<1> QED
  BY <1>2, <1>3

\* Operations whose run-time dimensions are counted.
LEMMA CountedAgree ==
    ASSUME NEW g, NEW h, g \in BOOLEAN, h \in BOOLEAN, h => g, NEW t \in DTypes, NEW d, NEW e, NEW f,
           g /\ h => Tells(d, e)
    PROVE  Agree(Guard(g, Ok1(Shape(t, d))), Counted(Guard(h, Ok1(Shape(t, f))), e))
<1>1. WithDims(Shape(t, f), e) = Shape(t, e)
  BY DEF WithDims, Shape
<1>2. Counted(Guard(h, Ok1(Shape(t, f))), e) = Guard(h, Ok1(Shape(t, e)))
  BY <1>1, CountedGuard
<1>3. g /\ h => Describes(Shape(t, d), Shape(t, e))
  BY ShapeDescribes
<1> QED
  BY <1>2, <1>3, AgreeOne

LEMMA SliceAgree ==
    ASSUME NEW s, NEW a, Operand(s, a), MaxDim \in Nat,
           NEW starts \in [DOMAIN a.dims -> {0, 1}], NEW limits \in [DOMAIN a.dims -> {2, 3}],
           NEW strides \in {<< >>, Repeat(2, Rank(a))}, NEW step, step = IF strides = << >> THEN 1 ELSE 2
    PROVE  Agree(SliceOp(s, starts, limits, strides),
                 Counted(SliceOp(a, starts, limits, strides),
                         [i \in DOMAIN a.dims |-> Selected(starts[i], limits[i], step)]))
<1> DEFINE n == Rank(s)
           full == OrDefault(strides, Repeat(1, n))
           fit(v, i) == v.dims[i] # DimUnknown => starts[i] \in 0 .. v.dims[i] - 1 /\ limits[i] \in starts[i] .. v.dims[i]
           g(v) == /\ {Len(starts), Len(limits), Len(full)} = {n}
                   /\ \A i \in 1 .. n : full[i] > 0 /\ fit(v, i)
           d(v) == [i \in 1 .. n |-> SliceDim(v.dims[i], starts[i], limits[i], full[i])]
           e == [i \in 1 .. n |-> Selected(starts[i], limits[i], step)]
<1>1. /\ Rank(s) = Rank(a) /\ n \in Nat /\ DOMAIN s.dims = 1 .. n /\ DOMAIN a.dims = 1 .. n
      /\ s.dtype = a.dtype /\ s.dtype \in DTypes
  BY OperandFacts DEF Values
<1>2. \A i \in 1 .. n : full[i] = step
  <2>1. CASE strides = << >>
    BY <1>1, <2>1, RepeatFacts
  <2>2. CASE strides # << >>
    BY <1>1, <2>2, RepeatFacts DEF OrDefault
  <2> QED
    BY <2>1, <2>2
<1>3. ASSUME NEW v, Rank(v) = n, DOMAIN v.dims = 1 .. n
      PROVE  SliceOp(v, starts, limits, strides) = Guard(g(v), Ok1(Shape(v.dtype, d(v))))
  BY <1>3 DEF SliceOp, Slice
<1> HIDE DEF full
<1>4. ASSUME NEW i \in 1 .. n
      PROVE  /\ s.dims[i] \in {DimUnknown, a.dims[i]} /\ a.dims[i] \in Int /\ a.dims[i] >= 1 /\ a.dims[i] <= MaxDim
             /\ a.dims[i] # DimUnknown /\ starts[i] \in {0, 1} /\ limits[i] \in {2, 3} /\ step \in {1, 2}
  BY <1>1, OperandFacts DEF DimUnknown
<1>5. g(a) => g(s)
  BY <1>4
<1>6. ASSUME g(a)
      PROVE  Tells(d(s), e)
  <2>1. ASSUME NEW i \in 1 .. n
        PROVE  e[i] \in Int /\ d(s)[i] \in {DimUnknown, e[i]}
    <3>1. limits[i] <= a.dims[i]
      BY <1>4, <1>6
    <3>2. Selected(starts[i], limits[i], step) = (limits[i] - starts[i] + step - 1) \div step
      BY <1>4, <3>1, SelectedCount
    <3>3. (limits[i] - starts[i] + step - 1) \div step \in Int
      BY <1>4
    <3>4. e[i] = (limits[i] - starts[i] + step - 1) \div step
      BY <3>2
    <3>5. d(s)[i] = SliceDim(s.dims[i], starts[i], limits[i], step)
      BY <1>2
    <3> QED
      BY <3>3, <3>4, <3>5 DEF SliceDim
  <2>2. d(s) = [i \in 1 .. n |-> d(s)[i]] /\ e = [i \in 1 .. n |-> e[i]]
    OBVIOUS
  <2> HIDE DEF d, e
  <2> QED
    BY <1>1, <2>1, <2>2, ListsTell
<1>7. g(s) \in BOOLEAN /\ g(a) \in BOOLEAN
  OBVIOUS
<1>8. e = [i \in DOMAIN a.dims |-> Selected(starts[i], limits[i], step)]
  BY <1>1
<1> HIDE DEF g, d, e
<1> QED
  BY <1>1, <1>3, <1>5, <1>6, <1>7, <1>8, CountedAgree

LEMMA TimesMonotone ==
    ASSUME NEW x \in Nat, NEW y \in Nat, x <= y, NEW n \in Nat
    PROVE  x * n <= y * n /\ x * n \in Nat /\ y * n \in Nat
<1>1. (y - x) * n >= 0
  OBVIOUS
<1> QED
  BY <1>1

LEMMA SpreadCount ==
    ASSUME NEW n \in Nat, n >= 1, NEW step \in Nat
    PROVE  Spread(n, step) = (n - 1) * step + 1
<1> DEFINE last(k) == (k - 1) * step
           S == UNION {0 .. last(k) : k \in 1 .. n}
<1>1. \A k \in 1 .. n : last(k) \in Nat /\ last(k) <= last(n)
  <2> TAKE k \in 1 .. n
  <2> DEFINE x == k - 1
             y == n - 1
  <2>1. x \in Nat /\ y \in Nat /\ x <= y
    OBVIOUS
  <2> HIDE DEF x, y
  <2>2. x * step <= y * step /\ x * step \in Nat
    BY <2>1, TimesMonotone
  <2> QED
    BY <2>2 DEF x, y
<1>2. n \in 1 .. n
  OBVIOUS
<1> HIDE DEF last
<1>3. S = 0 .. last(n)
  <2>1. ASSUME NEW j \in S
        PROVE  j \in 0 .. last(n)
    <3>1. PICK k \in 1 .. n : j \in 0 .. last(k)
      OBVIOUS
    <3> QED
      BY <1>1, <1>2, <3>1
  <2>2. ASSUME NEW j \in 0 .. last(n)
        PROVE  j \in S
    BY <1>2
  <2> QED
    BY <2>1, <2>2
<1>4. Cardinality(0 .. last(n)) = last(n) + 1
  BY <1>1, <1>2, FS_Interval
<1>5. Spread(n, step) = Cardinality(S)
  BY DEF Spread, last
<1> QED
  BY <1>3, <1>4, <1>5 DEF last

LEMMA DivisionFacts ==
    ASSUME NEW m \in Nat, NEW n \in Nat \ {0}
    PROVE  m \div n \in Nat /\ (m \div n) * n <= m /\ m < (m \div n + 1) * n
  OBVIOUS

LEMMA PlacedCount ==
    ASSUME NEW padded \in Nat, NEW window \in Nat, window <= padded, NEW stride \in Nat \ {0}
    PROVE  Placed(padded, window, stride) = WindowDim(padded, window, stride) /\ WindowDim(padded, window, stride) \in Nat
<1> DEFINE m == padded - window
           q == m \div stride
           S == {k \in 0 .. padded : k * stride + window <= padded}
<1>1. m \in Nat /\ m <= padded
  OBVIOUS
<1> HIDE DEF m
<1>2. q \in Nat /\ q * stride <= m /\ m < (q + 1) * stride
  BY <1>1, DivisionFacts
<1> HIDE DEF q
<1>3. ASSUME NEW k \in 0 .. q
      PROVE  k \in S
  <2>1. k * stride <= q * stride /\ k * stride \in Nat /\ q * stride \in Nat
    BY <1>2, TimesMonotone
  <2>2. k <= k * stride
    <3>1. 1 * k <= stride * k
      BY <1>2, TimesMonotone
    <3> QED
      BY <1>2, <3>1
  <2>3. k * stride <= m
    BY <1>1, <1>2, <2>1
  <2> QED
    BY <1>1, <1>2, <2>1, <2>2, <2>3 DEF m
<1>4. ASSUME NEW k \in S
      PROVE  k \in 0 .. q
  <2>1. k \in Nat
    OBVIOUS
  <2>2. k * stride <= m /\ k * stride \in Nat
    <3>1. k * stride + window <= padded
      OBVIOUS
    <3>2. k * stride \in Nat
      BY <2>1, TimesMonotone
    <3> HIDE DEF S
    <3> QED
      BY <3>1, <3>2 DEF m
  <2>3. ASSUME k >= q + 1
        PROVE  FALSE
    <3>1. (q + 1) * stride <= k * stride /\ (q + 1) * stride \in Nat
      BY <1>2, <2>1, <2>3, TimesMonotone
    <3> QED
      BY <1>1, <1>2, <2>2, <3>1
  <2> QED
    BY <1>2, <2>1, <2>3
<1>5. S = 0 .. q
  <2> HIDE DEF S
  <2> QED
    BY <1>3, <1>4
<1>6. Cardinality(0 .. q) = q + 1
  BY <1>2, FS_Interval
<1>7. Placed(padded, window, stride) = Cardinality(S)
  BY DEF Placed
<1> QED
  <2>1. WindowDim(padded, window, stride) = q + 1
    BY Zenon DEF WindowDim, q, m
  <2> HIDE DEF S
  <2> QED
    BY <1>2, <1>5, <1>6, <1>7, <2>1

LEMMA PadAgree ==
    ASSUME NEW s, NEW a, NEW t, NEW b, Operand(s, a), Operand(t, b),
           NEW low \in -2 .. 1, NEW high \in {0, 1}, NEW interior \in {0, 1}
    PROVE  LET n == Rank(a)
               pad(v, f) == PadOp(v, f, Repeat(low, n), Repeat(high, n), Repeat(interior, n))
               counted == [i \in DOMAIN a.dims |-> low + high + Spread(a.dims[i], interior + 1)]
           IN  Agree(pad(s, t), IF \E i \in DOMAIN counted : counted[i] < 0 THEN Error ELSE Counted(pad(a, b), counted))
<1> DEFINE n == Rank(a)
           pad(v, f) == PadOp(v, f, Repeat(low, n), Repeat(high, n), Repeat(interior, n))
           counted == [i \in DOMAIN a.dims |-> low + high + Spread(a.dims[i], interior + 1)]
           g(v, f) == v.dtype = f.dtype /\ IsScalar(f)
           padded(v) == [i \in 1 .. n |-> PadDim(v.dims[i], low, high, interior)]
<1>1. /\ Rank(s) = Rank(a) /\ n \in Nat /\ DOMAIN s.dims = 1 .. n /\ DOMAIN a.dims = 1 .. n
      /\ s.dtype = a.dtype /\ s.dtype \in DTypes /\ t.dtype = b.dtype /\ Rank(t) = Rank(b)
  BY OperandFacts DEF Values
<1>2. ASSUME NEW v, NEW f, Rank(v) = n, DOMAIN v.dims = 1 .. n
      PROVE  pad(v, f) = IF g(v, f) THEN Make(v.dtype, padded(v)) ELSE Error
  <2> DEFINE lows == Repeat(low, n)
             highs == Repeat(high, n)
             interiors == Repeat(interior, n)
  <2>1. pad(v, f) = Pad(v, f, lows, highs, interiors)
    <3>1. /\ OrDefault(lows, Repeat(0, Rank(v))) = lows /\ OrDefault(highs, Repeat(0, Rank(v))) = highs
          /\ OrDefault(interiors, Repeat(0, Rank(v))) = interiors
      BY <1>1, <1>2, RepeatFacts
    <3> HIDE DEF lows, highs, interiors
    <3>2. PadOp(v, f, lows, highs, interiors) = Pad(v, f, lows, highs, interiors)
      BY <3>1 DEF PadOp
    <3> QED
      BY <3>2 DEF lows, highs, interiors
  <2>2. /\ Len(lows) = n /\ Len(highs) = n /\ Len(interiors) = n /\ DOMAIN interiors = 1 .. n
        /\ \A i \in 1 .. n : lows[i] = low /\ highs[i] = high /\ interiors[i] = interior
    BY <1>1, RepeatFacts DEF Repeat
  <2> HIDE DEF lows, highs, interiors
  <2>3. [i \in DOMAIN v.dims |-> PadDim(v.dims[i], lows[i], highs[i], interiors[i])] = padded(v)
    BY <1>2, <2>2
  <2>4. /\ {Len(lows), Len(highs), Len(interiors)} = {Rank(v)}
        /\ \A i \in DOMAIN interiors : interiors[i] >= 0
    BY <1>2, <2>2
  <2> HIDE DEF padded
  <2> QED
    BY <2>1, <2>3, <2>4 DEF Pad
<1>3. counted = [i \in 1 .. n |-> counted[i]] /\ DOMAIN counted = 1 .. n /\ n \in Nat
  BY <1>1
<1>4. ASSUME NEW i \in 1 .. n
      PROVE  /\ counted[i] \in Int /\ padded(a)[i] = counted[i] /\ padded(s)[i] \in {DimUnknown, counted[i]}
  <2>1. /\ s.dims[i] \in {DimUnknown, a.dims[i]} /\ a.dims[i] \in Nat /\ a.dims[i] >= 1 /\ a.dims[i] # DimUnknown
    BY <1>1, OperandFacts DEF DimUnknown
  <2>2. Spread(a.dims[i], interior + 1) = (a.dims[i] - 1) * (interior + 1) + 1
    BY <2>1, SpreadCount
  <2>3. counted[i] = low + high + ((a.dims[i] - 1) * (interior + 1) + 1)
    BY <1>1, <2>2
  <2>4. PadDim(a.dims[i], low, high, interior) = low + high + ((a.dims[i] - 1) * (interior + 1) + 1)
    BY <2>1 DEF PadDim
  <2>5. low + high + ((a.dims[i] - 1) * (interior + 1) + 1) \in Int
    BY <2>1
  <2>6. padded(s)[i] = PadDim(s.dims[i], low, high, interior) /\ padded(a)[i] = PadDim(a.dims[i], low, high, interior)
    OBVIOUS
  <2>7. PadDim(DimUnknown, low, high, interior) = DimUnknown
    BY DEF PadDim
  <2> HIDE DEF padded, counted
  <2> QED
    BY <2>1, <2>3, <2>4, <2>5, <2>6, <2>7
<1>5. padded(a) = [i \in 1 .. n |-> padded(a)[i]] /\ padded(s) = [i \in 1 .. n |-> padded(s)[i]]
      /\ DOMAIN padded(a) = 1 .. n /\ DOMAIN padded(s) = 1 .. n
  OBVIOUS
<1>6. /\ g(a, b) => g(s, t)
      /\ g(s, t) \in BOOLEAN /\ g(a, b) \in BOOLEAN
  BY <1>1 DEF IsScalar
<1>7. Rank(s) = n
  BY <1>1
<1>8. pad(s, t) = (IF g(s, t) THEN Make(s.dtype, padded(s)) ELSE Error) /\ pad(a, b) = IF g(a, b) THEN Make(a.dtype, padded(a)) ELSE Error
  BY <1>1, <1>2
<1> HIDE DEF padded, counted, g, pad, n
<1>9. CASE \E i \in DOMAIN counted : counted[i] < 0
  <2>1. Agree(pad(s, t), Error)
    BY DEF Agree, Sure, True, Error
  <2> QED
    BY <1>9, <2>1 DEF counted, pad, n
<1>10. CASE ~ \E i \in DOMAIN counted : counted[i] < 0
  <2>1. \A i \in 1 .. n : padded(a)[i] >= DimUnknown /\ padded(s)[i] >= DimUnknown
    BY <1>3, <1>4, <1>10 DEF DimUnknown
  <2>2. Make(s.dtype, padded(s)) = Ok1(Shape(s.dtype, padded(s))) /\ Make(a.dtype, padded(a)) = Ok1(Shape(a.dtype, padded(a)))
    BY <1>5, <2>1 DEF Make
  <2>3. pad(s, t) = Guard(g(s, t), Ok1(Shape(s.dtype, padded(s)))) /\ pad(a, b) = Guard(g(a, b), Ok1(Shape(a.dtype, padded(a))))
    BY <1>8, <2>2 DEF Guard
  <2>4. Tells(padded(s), counted)
    BY <1>3, <1>4, <1>5, ListsTell
  <2>5. Agree(pad(s, t), Counted(pad(a, b), counted))
    BY <1>1, <1>6, <2>3, <2>4, CountedAgree
  <2> QED
    BY <1>10, <2>5 DEF counted, pad, n
<1> QED
  BY <1>9, <1>10

LEMMA ScatterAgree ==
    ASSUME NEW s, NEW a, NEW u, NEW w, Operand(s, a), Operand(u, w), NEW c, NEW t \in DTypes
    PROVE  LET scattered(v, x) == Scatter(<<v>>, x, <<Shape(v.dtype, x.dims)>>, c,
                                          <<Shape(t, << >>), Shape(t, << >>)>>, <<Shape(t, << >>)>>)
           IN  Agree(scattered(s, u), scattered(a, w))
<1> DEFINE scalar == Shape(t, << >>)
           scattered(v, x) == Scatter(<<v>>, x, <<Shape(v.dtype, x.dims)>>, c, <<scalar, scalar>>, <<scalar>>)
           g(v) == /\ Rank(v) = c.updateWindow + c.inputBatching + c.insertedWindow
                   /\ IsPromotableTo(v.dtype, t)
<1>1. s.dtype = a.dtype /\ Rank(s) = Rank(a) /\ Describes(s, a)
  BY OperandFacts DEF Operand
<1>2. \A d : Compatible(d, d)
  BY DEF Compatible, SameDim
<1>3. ASSUME NEW v, NEW x
      PROVE  scattered(v, x) = Guard(g(v), Ok1(WithDType(v, t)))
  <2> DEFINE vs == <<v>>
             xs == <<Shape(v.dtype, x.dims)>>
             ins == <<scalar, scalar>>
             outs == <<scalar>>
  <2>1. scalar.dtype = t
    BY DEF Shape
  <2>2. /\ Len(vs) = 1 /\ vs[1] = v /\ DOMAIN vs = {1} /\ Len(xs) = 1 /\ xs[1].dtype = v.dtype
        /\ Len(ins) = 2 /\ ins[1] = scalar /\ ins[2] = scalar /\ DOMAIN ins = {1, 2}
        /\ Len(outs) = 1 /\ outs[1] = scalar
    BY DEF Shape
  <2> HIDE DEF vs, xs, ins, outs, scalar
  <2>3. 1 .. 1 = {1}
    OBVIOUS
  <2>4. SameTypes(1, ins, outs)
    BY <2>2, <2>3 DEF SameTypes
  <2>5. Promotable(vs, ins) <=> IsPromotableTo(v.dtype, t)
    BY <2>1, <2>2 DEF Promotable
  <2>6. [i \in 1 .. 1 |-> WithDType(vs[i], outs[i].dtype)] = <<WithDType(v, t)>>
    BY <2>1, <2>2
  <2>7. Scatter(vs, x, xs, c, ins, outs) = Guard(g(v), Ok(<<WithDType(v, t)>>))
    <3>1. /\ Len(vs) > 0 /\ Len(xs) = Len(vs) /\ Len(outs) = Len(vs) /\ Len(ins) = 2 * Len(vs)
          /\ \A i \in 1 .. Len(vs) : /\ Compatible(vs[1].dims, vs[i].dims)
                                     /\ Compatible(xs[1].dims, xs[i].dims)
                                     /\ xs[i].dtype = vs[i].dtype
      BY <1>2, <2>2, <2>3
    <3> QED
      BY <2>2, <2>4, <2>5, <2>6, <3>1 DEF Scatter, Guard
  <2> QED
    BY <2>7 DEF vs, xs, ins, outs, Ok1
<1>4. Describes(WithDType(s, t), WithDType(a, t))
  BY <1>1, WithDTypeDescribes
<1>5. g(s) = g(a) /\ g(s) \in BOOLEAN
  BY <1>1 DEF IsPromotableTo
<1> HIDE DEF g, scattered
<1>6. Agree(scattered(s, u), scattered(a, w))
  BY <1>3, <1>4, <1>5, AgreeOne
<1> QED
  BY <1>6 DEF scattered, scalar

LEMMA FFTAgree ==
    ASSUME NEW s, NEW a, Operand(s, a), NEW fftType \in {"fft", "rfft", "irfft"}, NEW length \in {<< >>, << 2 >>}
    PROVE  True(FFTOp(s, fftType, length), FFTOp(a, fftType, length))
<1> DEFINE n == Rank(s)
           half(m) == m \div 2 + 1
           resized(v, t, dim) == Ok1(WithDims(WithDType(v, t), [v.dims EXCEPT ![n] = dim]))
<1>1. /\ Rank(s) = Rank(a) /\ n \in Nat /\ s.dtype = a.dtype /\ s.dtype \in DTypes /\ Describes(s, a)
      /\ Tells(s.dims, a.dims) /\ Len(s.dims) = n /\ Len(a.dims) = n
  BY OperandFacts, OperandTells DEF Operand, Values
<1>2. ASSUME NEW v, Rank(v) = n, NEW m \in Int
      PROVE  FFT(v, fftType, <<m>>) =
                 IF 1 > n \/ m <= 0 THEN Error
                 ELSE IF fftType = "fft" THEN Guard(IsComplex(v.dtype), Ok1(v))
                 ELSE IF fftType = "rfft" THEN Guard(IsFloat(v.dtype), resized(v, ComplexDType(v.dtype), half(m)))
                 ELSE Guard(IsComplex(v.dtype) /\ SameDim(v.dims[n], half(m)), resized(v, RealDType(v.dtype), m))
  <2>1. Len(<<m>>) = 1 /\ DOMAIN <<m>> = {1} /\ <<m>>[1] = m /\ Last(<<m>>) = m /\ <<m>> # << >>
    BY DEF Last
  <2> QED
    BY <1>1, <1>2, <2>1 DEF FFT, Guard
<1>3. ASSUME NEW t \in DTypes, NEW m \in Int, n >= 1
      PROVE  resized(s, t, m).status = "ok" /\ Agree(resized(s, t, m), resized(a, t, m))
  <2>1. n \in 1 .. Len(s.dims) /\ m \in {DimUnknown, m}
    BY <1>1, <1>3
  <2>2. Tells([s.dims EXCEPT ![n] = m], [a.dims EXCEPT ![n] = m])
    BY <1>1, <2>1, ChangedTells
  <2>3. Describes(WithDType(s, t), WithDType(a, t))
    BY <1>1, WithDTypeDescribes
  <2>4. Describes(WithDims(WithDType(s, t), [s.dims EXCEPT ![n] = m]), WithDims(WithDType(a, t), [a.dims EXCEPT ![n] = m]))
    BY <2>2, <2>3, WithDimsDescribes DEF Describes, Covers
  <2> QED
    BY <2>4, AgreeOk DEF Ok1, Ok
<1>4. ASSUME NEW m \in Int
      PROVE  True(FFT(s, fftType, <<m>>), FFT(a, fftType, <<m>>))
  <2>1. /\ ComplexDType(s.dtype) \in DTypes /\ RealDType(s.dtype) \in DTypes
        /\ half(m) \in Int
    BY DEF ComplexDType, RealDType, DTypes
  <2>2. CASE 1 > n \/ m <= 0
    <3>1. FFT(s, fftType, <<m>>) = Error
      BY <1>2, <2>2
    <3> QED
      BY <3>1 DEF True, Error
  <2>3. CASE ~(1 > n \/ m <= 0) /\ fftType = "fft"
    BY <1>1, <1>2, <2>3, AgreeOk DEF True, Error, Guard, Agree
  <2>4. CASE ~(1 > n \/ m <= 0) /\ fftType = "rfft"
    <3>1. Agree(resized(s, ComplexDType(s.dtype), half(m)), resized(a, ComplexDType(a.dtype), half(m)))
      BY <1>1, <1>3, <2>1, <2>4
    <3> HIDE DEF resized, half
    <3> QED
      BY <1>1, <1>2, <2>4, <3>1 DEF True, Error, Guard, Agree
  <2>5. CASE ~(1 > n \/ m <= 0) /\ fftType = "irfft"
    <3>1. Agree(resized(s, RealDType(s.dtype), m), resized(a, RealDType(a.dtype), m))
      BY <1>1, <1>3, <2>1, <2>5
    <3> HIDE DEF resized, half
    <3> QED
      BY <1>1, <1>2, <2>5, <3>1 DEF True, Error, Guard, Agree
  <2> QED
    BY <2>2, <2>3, <2>4, <2>5
<1>5. CASE length = <<2>>
  BY <1>4, <1>5 DEF FFTOp
<1>6. CASE length = << >> /\ n = 0
  BY <1>1, <1>6 DEF FFTOp, IsScalar, True, Panic
<1>7. CASE length = << >> /\ n # 0
  <2> DEFINE m(v) == IF fftType = "irfft" THEN (v.dims[n] - 1) * 2 ELSE v.dims[n]
  <2>1. ASSUME NEW v, Rank(v) = n
        PROVE  FFTOp(v, fftType, length) = FFT(v, fftType, <<m(v)>>)
    BY <1>7, <2>1 DEF FFTOp, IsScalar, Last, Rank
  <2>2. n \in 1 .. n /\ s.dims[n] \in {DimUnknown, a.dims[n]} /\ a.dims[n] \in Int
    <3>1. n \in 1 .. n
      BY <1>1, <1>7
    <3> QED
      BY <3>1, OperandFacts
  <2>3. CASE s.dims[n] = a.dims[n]
    <3>1. m(s) = m(a) /\ m(s) \in Int
      BY <2>2, <2>3
    <3> QED
      BY <1>1, <1>4, <2>1, <3>1
  <2>4. CASE s.dims[n] = DimUnknown
    <3>1. m(s) \in Int /\ m(s) <= 0
      BY <2>4 DEF DimUnknown
    <3>2. FFT(s, fftType, <<m(s)>>) = Error
      BY <1>2, <3>1
    <3> QED
      BY <2>1, <3>2 DEF True, Error
  <2> QED
    BY <2>2, <2>3, <2>4
<1> QED
  BY <1>5, <1>6, <1>7

-------------------------------------------------------------------------------
(* The dimensions that remain without some axes. *)

UpTo(K, i) == {j \in K : j <= i}

\* Counting the numbers of a set up to each of them gives every rank.
LEMMA PlaceOfRank ==
    ASSUME NEW n \in Nat, NEW K \in SUBSET (1 .. n), NEW k \in 1 .. Cardinality(K)
    PROVE  \E i \in K : Cardinality(UpTo(K, i)) = k
<1> DEFINE N == Cardinality(K)
           f == [i \in K |-> Cardinality(UpTo(K, i))]
<1>1. IsFiniteSet(K) /\ N \in Nat
  <2>1. IsFiniteSet(1 .. n)
    BY FS_Interval
  <2> QED
    BY <2>1, FS_Subset, FS_CardinalityType
<1>2. \A i \in K : IsFiniteSet(UpTo(K, i)) /\ Cardinality(UpTo(K, i)) \in Nat /\ Cardinality(UpTo(K, i)) <= N
  <2> TAKE i \in K
  <2>1. UpTo(K, i) \subseteq K
    BY DEF UpTo
  <2>2. IsFiniteSet(UpTo(K, i)) /\ Cardinality(UpTo(K, i)) <= N
    BY <1>1, <2>1, FS_Subset
  <2> QED
    BY <2>2, FS_CardinalityType
<1>3. \A i \in K : Cardinality(UpTo(K, i)) >= 1
  <2> TAKE i \in K
  <2>1. i \in UpTo(K, i)
    BY DEF UpTo
  <2>2. UpTo(K, i) # {}
    BY <2>1
  <2>3. Cardinality(UpTo(K, i)) # 0
    BY <1>2, <2>2, FS_EmptySet
  <2> QED
    BY <1>2, <2>3
<1>4. ASSUME NEW i \in K, NEW j \in K, i < j
      PROVE  Cardinality(UpTo(K, i)) < Cardinality(UpTo(K, j))
  <2>1. UpTo(K, i) \subseteq UpTo(K, j) /\ j \in UpTo(K, j) /\ j \notin UpTo(K, i)
    <3>1. \A x \in K : x \in Nat
      OBVIOUS
    <3>2. \A x \in K : x <= i => x <= j
      BY <1>4, <3>1
    <3>3. j <= j /\ ~(j <= i)
      BY <1>4, <3>1
    <3> QED
      BY <3>2, <3>3 DEF UpTo
  <2>2. /\ Cardinality(UpTo(K, i)) <= Cardinality(UpTo(K, j))
        /\ Cardinality(UpTo(K, i)) = Cardinality(UpTo(K, j)) => UpTo(K, i) = UpTo(K, j)
    BY <1>2, <2>1, FS_Subset
  <2>3. Cardinality(UpTo(K, i)) # Cardinality(UpTo(K, j))
    BY <2>1, <2>2
  <2> QED
    BY <1>2, <2>2, <2>3
<1>5. f \in [K -> 1 .. N]
  BY <1>1, <1>2, <1>3
<1>6. ASSUME NEW i \in K, NEW j \in K, f[i] = f[j]
      PROVE  i = j
  <2>1. i \in Nat /\ j \in Nat
    OBVIOUS
  <2>2. Cardinality(UpTo(K, i)) = Cardinality(UpTo(K, j))
    BY <1>6
  <2>3. ~(i < j) /\ ~(j < i)
    BY <1>2, <1>4, <2>2
  <2> QED
    BY <2>1, <2>3
<1>7. f \in Injection(K, 1 .. N)
  BY <1>5, <1>6 DEF Injection, IsInjective
<1>8. IsFiniteSet(1 .. N) /\ Cardinality(1 .. N) = N
  BY <1>1, FS_Interval
<1> HIDE DEF f
<1>9. f \in Surjection(K, 1 .. N)
  BY <1>7, <1>8, FS_Injection
<1>10. \E i \in K : f[i] = k
  BY <1>9 DEF Surjection
<1> QED
  BY <1>10 DEF f

KeptAxes(n, axes) == {i \in 1 .. n : i - 1 \notin axes}

LEMMA WithoutTells ==
    ASSUME NEW d, NEW e, Tells(d, e), NEW axes
    PROVE  /\ Tells(Without(d, axes), Without(e, axes))
           /\ Len(Without(d, axes)) = Cardinality(KeptAxes(Len(d), axes)) /\ Len(Without(e, axes)) = Len(Without(d, axes))
<1> DEFINE n == Len(d)
           K == KeptAxes(n, axes)
           N == Cardinality(K)
           place(k) == CHOOSE i \in K : Cardinality(UpTo(K, i)) = k
<1>1. /\ n \in Nat /\ DOMAIN d = 1 .. n /\ DOMAIN e = 1 .. n /\ K \in SUBSET (1 .. n)
  BY DEF Tells, KeptAxes
<1>2. N \in Nat
  <2>1. IsFiniteSet(1 .. n)
    BY <1>1, FS_Interval
  <2> QED
    BY <1>1, <2>1, FS_Subset, FS_CardinalityType
<1>3. ASSUME NEW v, DOMAIN v = 1 .. n
      PROVE  Without(v, axes) = [k \in 1 .. N |-> v[place(k)]]
  <2> DEFINE Kept == {i \in DOMAIN v : i - 1 \notin axes}
             at(i) == Cardinality(UpTo(Kept, i))
  <2>1. Without(v, axes) = [k \in 1 .. Cardinality(Kept) |-> v[CHOOSE i \in Kept : at(i) = k]]
    BY DEF Without, UpTo
  <2>2. Kept = K
    BY <1>3 DEF KeptAxes
  <2> HIDE DEF Kept, K
  <2> QED
    BY <2>1, <2>2
<1>4. ASSUME NEW k \in 1 .. N
      PROVE  place(k) \in 1 .. n
  <2>1. \E i \in K : Cardinality(UpTo(K, i)) = k
    BY <1>1, PlaceOfRank
  <2> HIDE DEF K
  <2> QED
    BY <1>1, <2>1
<1> HIDE DEF place, N, K
<1> DEFINE f == [k \in 1 .. N |-> d[place(k)]]
           h == [k \in 1 .. N |-> e[place(k)]]
<1>5. \A k \in 1 .. N : h[k] \in Int /\ f[k] \in {DimUnknown, h[k]}
  <2> TAKE k \in 1 .. N
  <2>1. d[place(k)] \in {DimUnknown, e[place(k)]} /\ e[place(k)] \in Int
    BY <1>4, TellsAt
  <2> QED
    BY <2>1
<1>6. f = [k \in 1 .. N |-> f[k]] /\ h = [k \in 1 .. N |-> h[k]] /\ Len(f) = N /\ Len(h) = N
  BY <1>2
<1>7. Without(d, axes) = f /\ Without(e, axes) = h
  BY <1>1, <1>3
<1> HIDE DEF f, h
<1>8. Tells(f, h)
  BY <1>2, <1>5, <1>6, ListsTell
<1> QED
  BY <1>6, <1>7, <1>8 DEF N, K

LEMMA ArgMinMaxAgree ==
    ASSUME NEW s, NEW a, Operand(s, a), NEW axis \in Int, NEW t \in DTypes
    PROVE  Agree(ArgMinMax(s, axis, t), ArgMinMax(a, axis, t))
<1> DEFINE g(v) == IsInt(t) /\ (IsFloat(v.dtype) \/ IsInt(v.dtype)) /\ InRank(axis, Rank(v))
<1>1. s.dtype = a.dtype /\ Rank(s) = Rank(a) /\ Tells(s.dims, a.dims)
  BY OperandFacts, OperandTells
<1>2. Describes(Shape(t, Without(s.dims, {axis})), Shape(t, Without(a.dims, {axis})))
  BY <1>1, WithoutTells, ShapeDescribes
<1>3. g(s) \in BOOLEAN /\ g(s) = g(a)
  BY <1>1 DEF IsInt, IsFloat, InRank
<1>4. ASSUME NEW v
      PROVE  ArgMinMax(v, axis, t) = Guard(g(v), Ok1(Shape(t, Without(v.dims, {axis}))))
  BY DEF ArgMinMax, Guard
<1> HIDE DEF g
<1> QED
  BY <1>2, <1>3, <1>4, AgreeOne

LEMMA ReduceTrue ==
    ASSUME NEW xs, NEW ys, Operand(xs[1], ys[1]), Len(xs) = Len(ys), NEW is, NEW js, NEW ins, NEW ins2,
           NEW outs, NEW outs2, \A i \in 1 .. Len(xs) : outs[i].dtype \in DTypes /\ outs2[i].dtype = outs[i].dtype,
           NEW axes
    PROVE  True(Reduce(xs, is, ins, outs, axes), Reduce(ys, js, ins2, outs2, axes))
<1> DEFINE n == Len(xs)
           removed(v) == SetOf([i \in DOMAIN axes |-> AdjustAxis(axes[i], Rank(v))])
           out(v, ts) == [i \in 1 .. n |-> Shape(ts[i].dtype, Without(v.dims, removed(v)))]
           r == Reduce(xs, is, ins, outs, axes)
           c == Reduce(ys, js, ins2, outs2, axes)
<1>1. Rank(xs[1]) = Rank(ys[1]) /\ Tells(xs[1].dims, ys[1].dims)
  BY OperandFacts, OperandTells
<1>2. removed(xs[1]) = removed(ys[1])
  BY <1>1
<1>3. Tells(Without(xs[1].dims, removed(xs[1])), Without(ys[1].dims, removed(ys[1])))
  <2> HIDE DEF removed
  <2> QED
    BY <1>1, <1>2, WithoutTells
<1>4. (r.status = "ok" => r.shapes = out(xs[1], outs)) /\ (c.status = "ok" => c.shapes = out(ys[1], outs2))
  BY DEF Reduce, Guard, Ok, Error
<1> HIDE DEF r, c, removed
<1>5. \A k \in 1 .. n : Describes(out(xs[1], outs)[k], out(ys[1], outs2)[k])
  BY <1>3, ShapeDescribes
<1>6. DOMAIN out(xs[1], outs) = 1 .. n
  OBVIOUS
<1> HIDE DEF out
<1>7. True(r, c)
  BY <1>4, <1>5, <1>6 DEF True
<1> QED
  BY <1>7 DEF r, c

LEMMA ReduceAgree ==
    ASSUME NEW s, NEW a, NEW f, NEW b, Operand(s, a), Operand(f, b), NEW axes
    PROVE  True(Reduce(<<s>>, <<f>>, <<f, f>>, <<f>>, axes), Reduce(<<a>>, <<b>>, <<b, b>>, <<b>>, axes))
<1>1. f.dtype \in DTypes /\ b.dtype = f.dtype
  BY OperandFacts DEF Values
<1>2. /\ <<s>>[1] = s /\ <<a>>[1] = a /\ Len(<<s>>) = 1 /\ Len(<<a>>) = 1
      /\ \A i \in 1 .. 1 : <<f>>[i].dtype \in DTypes /\ <<b>>[i].dtype = <<f>>[i].dtype
  BY <1>1
<1> QED
  BY <1>2, ReduceTrue

LEMMA MultiReduceAgree ==
    ASSUME NEW s, NEW a, NEW t, NEW b, NEW f, NEW h, Operand(s, a), Operand(t, b), NEW axes
    PROVE  LET scalar(v) == Shape(v.dtype, << >>)
               closure(v, w) == <<scalar(v), scalar(w), scalar(v), scalar(w)>>
               reduced(v, w, z) == Reduce(<<v, w>>, <<z, z>>, closure(v, w), <<scalar(v), scalar(w)>>, axes)
           IN  True(reduced(s, t, f), reduced(a, b, h))
<1> DEFINE scalar(v) == Shape(v.dtype, << >>)
           closure(v, w) == <<scalar(v), scalar(w), scalar(v), scalar(w)>>
<1>1. s.dtype \in DTypes /\ a.dtype = s.dtype /\ t.dtype \in DTypes /\ b.dtype = t.dtype
  BY OperandFacts DEF Values
<1>2. /\ <<s, t>>[1] = s /\ <<a, b>>[1] = a /\ Len(<<s, t>>) = 2 /\ Len(<<a, b>>) = 2
      /\ \A i \in 1 .. 2 : /\ <<scalar(s), scalar(t)>>[i].dtype \in DTypes
                           /\ <<scalar(a), scalar(b)>>[i].dtype = <<scalar(s), scalar(t)>>[i].dtype
  BY <1>1 DEF Shape
<1> HIDE DEF scalar, closure
<1>3. True(Reduce(<<s, t>>, <<f, f>>, closure(s, t), <<scalar(s), scalar(t)>>, axes),
           Reduce(<<a, b>>, <<h, h>>, closure(a, b), <<scalar(a), scalar(b)>>, axes))
  BY <1>2, ReduceTrue
<1> QED
  BY <1>3 DEF scalar, closure

AxesOf(axes, n) == [i \in DOMAIN axes |-> AdjustAxis(axes[i], n)]
ValidAxes(axes, n) == \A i \in DOMAIN axes : InRankNeg(axes[i], n)
DotRefused(v, w, c) ==
    LET lc == AxesOf(c.lhsContracting, Rank(v))
        lb == AxesOf(c.lhsBatch, Rank(v))
        rc == AxesOf(c.rhsContracting, Rank(w))
        rb == AxesOf(c.rhsBatch, Rank(w))
    IN \/ v.dtype # w.dtype
       \/ Len(lc) # Len(rc)
       \/ ~(ValidAxes(c.lhsContracting, Rank(v)) /\ ValidAxes(c.lhsBatch, Rank(v)))
       \/ ~(ValidAxes(c.rhsContracting, Rank(w)) /\ ValidAxes(c.rhsBatch, Rank(w)))
       \/ \E i \in DOMAIN lc : ~SameDim(v.dims[lc[i] + 1], w.dims[rc[i] + 1])
       \/ \E i \in DOMAIN lb \cap DOMAIN rb : ~SameDim(v.dims[lb[i] + 1], w.dims[rb[i] + 1])
DotOverrun(v, w, c) ==
    LET lc == AxesOf(c.lhsContracting, Rank(v))
        lb == AxesOf(c.lhsBatch, Rank(v))
        rc == AxesOf(c.rhsContracting, Rank(w))
        rb == AxesOf(c.rhsBatch, Rank(w))
    IN \/ Len(lb) > Len(rb)
       \/ Len(lc) + Len(lb) > Rank(v) \/ Len(rc) + Len(rb) > Rank(w)
CrossDims(v, contracting, batch) == Without(v.dims, SetOf(AxesOf(contracting, Rank(v))) \cup SetOf(AxesOf(batch, Rank(v))))
BatchDims(v, w, c) ==
    [i \in DOMAIN AxesOf(c.lhsBatch, Rank(v)) |->
        Merge(v.dims[AxesOf(c.lhsBatch, Rank(v))[i] + 1], w.dims[AxesOf(c.rhsBatch, Rank(w))[i] + 1])]
DotDims(v, w, c) ==
    BatchDims(v, w, c) \o CrossDims(v, c.lhsContracting, c.lhsBatch) \o CrossDims(w, c.rhsContracting, c.rhsBatch)

LEMMA DotGeneralCases ==
    ASSUME NEW v, NEW w, NEW c, NEW t
    PROVE  DotGeneral(v, w, c, t) = IF DotRefused(v, w, c) THEN Error
                                    ELSE IF DotOverrun(v, w, c) THEN Panic
                                    ELSE Ok1(Shape(t, DotDims(v, w, c)))
  BY Zenon DEF DotGeneral, DotRefused, DotOverrun, DotDims, BatchDims, CrossDims, AxesOf, ValidAxes

LEMMA AxesFacts ==
    ASSUME NEW axes \in Seq(Int), NEW n \in Nat
    PROVE  /\ DOMAIN AxesOf(axes, n) = 1 .. Len(axes) /\ Len(AxesOf(axes, n)) = Len(axes) /\ Len(axes) \in Nat
           /\ DOMAIN axes = 1 .. Len(axes)
           /\ \A i \in 1 .. Len(axes) : ValidAxes(axes, n) => AxesOf(axes, n)[i] + 1 \in 1 .. n
<1>1. DOMAIN axes = 1 .. Len(axes) /\ Len(axes) \in Nat /\ \A i \in 1 .. Len(axes) : axes[i] \in Int
  OBVIOUS
<1>2. ASSUME NEW i \in 1 .. Len(axes), ValidAxes(axes, n)
      PROVE  AxesOf(axes, n)[i] + 1 \in 1 .. n
  BY <1>1, <1>2 DEF AxesOf, ValidAxes, InRankNeg, AdjustAxis
<1>3. DOMAIN AxesOf(axes, n) = 1 .. Len(axes) /\ Len(AxesOf(axes, n)) = Len(axes)
  BY <1>1 DEF AxesOf
<1> QED
  BY <1>1, <1>2, <1>3

LEMMA JoinTells ==
    ASSUME NEW d, NEW e, NEW d2, NEW e2, Tells(d, e), Tells(d2, e2)
    PROVE  Tells(d \o d2, e \o e2)
<1>1. /\ d \in Seq(Int) /\ e \in Seq(Int) /\ d2 \in Seq(Int) /\ e2 \in Seq(Int)
      /\ Len(d) = Len(e) /\ Len(d2) = Len(e2) /\ Len(d) \in Nat /\ Len(d2) \in Nat
  BY DEF Tells
<1>2. /\ d \o d2 \in Seq(Int) /\ e \o e2 \in Seq(Int) /\ Len(d \o d2) = Len(d) + Len(d2) /\ Len(e \o e2) = Len(d) + Len(d2)
  <2>1. ASSUME NEW x \in Seq(Int), NEW y \in Seq(Int)
        PROVE  x \o y \in Seq(Int) /\ Len(x \o y) = Len(x) + Len(y)
    BY SMTT(60)
  <2> QED
    BY <1>1, <2>1
<1>3. ASSUME NEW i \in 1 .. Len(d) + Len(d2)
      PROVE  (d \o d2)[i] \in {DimUnknown, (e \o e2)[i]}
  <2>1. CASE i <= Len(d)
    <3>1. i \in 1 .. Len(d) /\ (d \o d2)[i] = d[i] /\ (e \o e2)[i] = e[i]
      BY <1>1, <2>1
    <3> QED
      BY <3>1 DEF Tells
  <2>2. CASE i > Len(d)
    <3>1. i - Len(d) \in 1 .. Len(d2) /\ (d \o d2)[i] = d2[i - Len(d)] /\ (e \o e2)[i] = e2[i - Len(d)]
      BY <1>1, <2>2
    <3> QED
      BY <3>1 DEF Tells
  <2> QED
    BY <1>1, <2>1, <2>2
<1> QED
  BY <1>2, <1>3 DEF Tells

LEMMA DotGeneralAgree ==
    ASSUME NEW s, NEW a, NEW t, NEW b, Operand(s, a), Operand(t, b), NEW c \in DotArguments
    PROVE  Agree(DotGeneral(s, t, c, s.dtype), DotGeneral(a, b, c, a.dtype))
<1> DEFINE n == Rank(a)
           m == Rank(b)
           lc == AxesOf(c.lhsContracting, n)
           lb == AxesOf(c.lhsBatch, n)
           rc == AxesOf(c.rhsContracting, m)
           rb == AxesOf(c.rhsBatch, m)
           Sound == /\ Len(lc) = Len(rc)
                    /\ ValidAxes(c.lhsContracting, n) /\ ValidAxes(c.lhsBatch, n)
                    /\ ValidAxes(c.rhsContracting, m) /\ ValidAxes(c.rhsBatch, m)
<1>1. /\ Rank(s) = n /\ Rank(t) = m /\ n \in Nat /\ m \in Nat
      /\ s.dtype = a.dtype /\ t.dtype = b.dtype /\ s.dtype \in DTypes
      /\ Tells(s.dims, a.dims) /\ Tells(t.dims, b.dims)
  BY OperandFacts, OperandTells DEF Values
<1>2. /\ c.lhsContracting \in Seq(Int) /\ c.lhsBatch \in Seq(Int)
      /\ c.rhsContracting \in Seq(Int) /\ c.rhsBatch \in Seq(Int)
  BY DEF DotArguments
<1> HIDE DEF n, m
<1>3. ASSUME NEW i \in 1 .. n, NEW j \in 1 .. m
      PROVE  /\ s.dims[i] \in {DimUnknown, a.dims[i]} /\ t.dims[j] \in {DimUnknown, b.dims[j]}
             /\ a.dims[i] \in Int /\ b.dims[j] \in Int /\ a.dims[i] >= 1 /\ b.dims[j] >= 1
  BY <1>1, OperandFacts
<1>4. ASSUME Sound
      PROVE  /\ \A i \in DOMAIN lc : i \in DOMAIN rc /\ lc[i] + 1 \in 1 .. n /\ rc[i] + 1 \in 1 .. m
             /\ \A i \in DOMAIN lb : lb[i] + 1 \in 1 .. n
             /\ \A i \in DOMAIN rb : rb[i] + 1 \in 1 .. m
  BY <1>1, <1>2, <1>4, AxesFacts
<1>5. ASSUME ~DotRefused(a, b, c)
      PROVE  Sound /\ a.dtype = b.dtype
  BY <1>5 DEF DotRefused, n, m
<1> HIDE DEF lc, lb, rc, rb
<1>6. ASSUME ~DotRefused(a, b, c)
      PROVE  /\ \A i \in DOMAIN lc : SameDim(a.dims[lc[i] + 1], b.dims[rc[i] + 1])
             /\ \A i \in DOMAIN lb \cap DOMAIN rb : SameDim(a.dims[lb[i] + 1], b.dims[rb[i] + 1])
  BY <1>6 DEF DotRefused, lc, lb, rc, rb, n, m
<1>7. ASSUME NEW i \in 1 .. n, NEW j \in 1 .. m, SameDim(a.dims[i], b.dims[j])
      PROVE  SameDim(s.dims[i], t.dims[j]) /\ a.dims[i] = b.dims[j]
  BY <1>3, <1>7 DEF SameDim, DimUnknown
<1>8. ASSUME ~DotRefused(a, b, c)
      PROVE  ~DotRefused(s, t, c)
  <2>1. /\ \A i \in DOMAIN lc : SameDim(s.dims[lc[i] + 1], t.dims[rc[i] + 1])
        /\ \A i \in DOMAIN lb \cap DOMAIN rb : SameDim(s.dims[lb[i] + 1], t.dims[rb[i] + 1])
    BY <1>4, <1>5, <1>6, <1>7, <1>8
  <2> QED
    BY <1>1, <1>5, <1>8, <2>1 DEF DotRefused, lc, lb, rc, rb
<1>9. DotOverrun(s, t, c) <=> DotOverrun(a, b, c)
  BY <1>1 DEF DotOverrun, n, m
<1>10. ASSUME ~DotRefused(a, b, c), ~DotOverrun(a, b, c)
       PROVE  Tells(DotDims(s, t, c), DotDims(a, b, c))
  <2>1. Tells(BatchDims(s, t, c), BatchDims(a, b, c))
    <3>1. Len(lb) <= Len(rb)
      <4>1. ~(Len(lb) > Len(rb))
        BY <1>10 DEF DotOverrun, lb, rb, n, m
      <4>2. Len(lb) \in Nat /\ Len(rb) \in Nat
        BY <1>1, <1>2, AxesFacts DEF lb, rb
      <4> QED
        BY <4>1, <4>2
    <3>2. Len(lb) \in Nat /\ DOMAIN lb = 1 .. Len(lb) /\ \A i \in DOMAIN lb : i \in DOMAIN rb
      BY <1>1, <1>2, <3>1, AxesFacts DEF lb, rb
    <3> DEFINE d == BatchDims(s, t, c)
               e == BatchDims(a, b, c)
    <3>3. /\ d = [i \in 1 .. Len(lb) |-> Merge(s.dims[lb[i] + 1], t.dims[rb[i] + 1])]
          /\ e = [i \in 1 .. Len(lb) |-> Merge(a.dims[lb[i] + 1], b.dims[rb[i] + 1])]
      BY <1>1, <3>2 DEF BatchDims, lb, rb, n, m
    <3>4. ASSUME NEW i \in 1 .. Len(lb)
          PROVE  Merge(a.dims[lb[i] + 1], b.dims[rb[i] + 1]) \in Int
                 /\ Merge(s.dims[lb[i] + 1], t.dims[rb[i] + 1]) \in {DimUnknown, Merge(a.dims[lb[i] + 1], b.dims[rb[i] + 1])}
      <4> DEFINE x == lb[i] + 1
                 y == rb[i] + 1
      <4>1. x \in 1 .. n /\ y \in 1 .. m /\ SameDim(a.dims[x], b.dims[y])
        BY <1>4, <1>5, <1>6, <1>10, <3>2
      <4> HIDE DEF x, y
      <4>2. a.dims[x] = b.dims[y]
        BY <1>7, <4>1
      <4>3. Merge(a.dims[x], b.dims[y]) \in Int /\ Merge(s.dims[x], t.dims[y]) \in {DimUnknown, Merge(a.dims[x], b.dims[y])}
        BY <1>3, <4>1, <4>2 DEF Merge, DimUnknown
      <4> QED
        BY <4>3 DEF x, y
    <3> HIDE DEF d, e
    <3>5. d = [i \in 1 .. Len(lb) |-> d[i]] /\ e = [i \in 1 .. Len(lb) |-> e[i]]
      BY <3>3
    <3>6. \A i \in 1 .. Len(lb) : e[i] \in Int /\ d[i] \in {DimUnknown, e[i]}
      BY <3>3, <3>4
    <3>7. Tells(d, e)
      BY <3>2, <3>5, <3>6, ListsTell
    <3> QED
      BY <3>7 DEF d, e
  <2>2. Tells(CrossDims(s, c.lhsContracting, c.lhsBatch), CrossDims(a, c.lhsContracting, c.lhsBatch))
    BY <1>1, WithoutTells DEF CrossDims, n
  <2>3. Tells(CrossDims(t, c.rhsContracting, c.rhsBatch), CrossDims(b, c.rhsContracting, c.rhsBatch))
    BY <1>1, WithoutTells DEF CrossDims, m
  <2> QED
    BY <2>1, <2>2, <2>3, JoinTells DEF DotDims
<1>11. CASE DotRefused(a, b, c)
  BY <1>11, DotGeneralCases DEF Agree, Sure, True, Error
<1>12. CASE ~DotRefused(a, b, c) /\ DotOverrun(a, b, c)
  BY <1>8, <1>9, <1>12, DotGeneralCases DEF Agree, Sure, True, Panic
<1>13. CASE ~DotRefused(a, b, c) /\ ~DotOverrun(a, b, c)
  <2>1. Describes(Shape(s.dtype, DotDims(s, t, c)), Shape(a.dtype, DotDims(a, b, c)))
    BY <1>1, <1>10, <1>13, ShapeDescribes
  <2>2. /\ DotGeneral(s, t, c, s.dtype) = Ok1(Shape(s.dtype, DotDims(s, t, c)))
        /\ DotGeneral(a, b, c, a.dtype) = Ok1(Shape(a.dtype, DotDims(a, b, c)))
    BY <1>8, <1>9, <1>13, DotGeneralCases
  <2> QED
    BY <2>1, <2>2, AgreeOk
<1> QED
  BY <1>11, <1>12, <1>13

LEMMA DotAgree ==
    ASSUME NEW s, NEW a, NEW t, NEW b, Operand(s, a), Operand(t, b)
    PROVE  Agree(Dot(s, t), Dot(a, b))
<1> DEFINE c == [lhsContracting |-> <<1>>, lhsBatch |-> << >>, rhsContracting |-> <<0>>, rhsBatch |-> << >>]
<1>1. c \in DotArguments
  BY DEF DotArguments
<1>2. Rank(s) = Rank(a) /\ Rank(t) = Rank(b)
  BY OperandFacts
<1>3. /\ Dot(s, t) = Guard(Rank(s) = 2 /\ Rank(t) = 2, DotGeneral(s, t, c, s.dtype))
      /\ Dot(a, b) = Guard(Rank(a) = 2 /\ Rank(b) = 2, DotGeneral(a, b, c, a.dtype))
  BY Zenon DEF Dot
<1> HIDE DEF c
<1>4. Agree(DotGeneral(s, t, c, s.dtype), DotGeneral(a, b, c, a.dtype))
  BY <1>1, DotGeneralAgree
<1> QED
  BY <1>2, <1>3, <1>4 DEF Guard, Agree, Sure, True, Error

LEMMA FromZero ==
    ASSUME NEW n \in Nat
    PROVE  IsFiniteSet(0 .. n - 1) /\ Cardinality(0 .. n - 1) = n
<1>1. 0 \in Int /\ n - 1 \in Int
  OBVIOUS
<1>2. IsFiniteSet(0 .. n - 1) /\ Cardinality(0 .. n - 1) = IF 0 > n - 1 THEN 0 ELSE n - 1 - 0 + 1
  BY <1>1, FS_Interval
<1> QED
  BY <1>2

LEMMA UnionBound ==
    ASSUME NEW A, NEW B, IsFiniteSet(A), IsFiniteSet(B)
    PROVE  IsFiniteSet(A \cup B) /\ Cardinality(A \cup B) \in Nat /\ Cardinality(A \cup B) <= Cardinality(A) + Cardinality(B)
<1>1. Cardinality(A) \in Nat /\ Cardinality(B) \in Nat
  BY FS_CardinalityType
<1>2. IsFiniteSet(A \cup B) /\ Cardinality(A \cup B) = Cardinality(A) + Cardinality(B) - Cardinality(A \cap B)
  BY FS_Union
<1>3. IsFiniteSet(A \cap B)
  BY FS_Intersection
<1>4. Cardinality(A \cap B) \in Nat
  BY <1>3, FS_CardinalityType
<1>5. Cardinality(A \cup B) \in Nat
  BY <1>2, FS_CardinalityType
<1> QED
  BY <1>1, <1>2, <1>4, <1>5

LEMMA SetOfFacts ==
    ASSUME NEW q \in Seq(Int)
    PROVE  /\ IsFiniteSet(SetOf(q)) /\ Cardinality(SetOf(q)) \in Nat /\ Cardinality(SetOf(q)) <= Len(q) /\ Len(q) \in Nat
           /\ Distinct(q) => Cardinality(SetOf(q)) = Len(q)
<1> DEFINE S == 1 .. Len(q)
           T == SetOf(q)
<1>1. Len(q) \in Nat /\ DOMAIN q = S /\ q \in [S -> Int]
  OBVIOUS
<1>2. IsFiniteSet(S) /\ Cardinality(S) = Len(q)
  BY <1>1, FS_Interval
<1>3. q \in [S -> T] /\ \A x \in T : \E i \in S : q[i] = x
  <2>1. T = {q[i] : i \in S}
    BY <1>1 DEF SetOf
  <2> HIDE DEF T, S
  <2> QED
    BY <1>1, <2>1
<1>4. Distinct(q) => \A i, j \in S : q[i] = q[j] => i = j
  BY <1>1 DEF Distinct
<1> HIDE DEF S, T
<1>5. q \in Surjection(S, T)
  BY <1>3 DEF Surjection
<1>6. Distinct(q) => q \in Injection(S, T)
  BY <1>1, <1>3, <1>4 DEF Injection, IsInjective
<1>7. IsFiniteSet(T) /\ Cardinality(T) <= Cardinality(S) /\ (Cardinality(T) = Cardinality(S) <=> q \in Injection(S, T))
  BY <1>2, <1>5, FS_Surjection
<1>8. Cardinality(T) \in Nat
  BY <1>7, FS_CardinalityType
<1> QED
  BY <1>1, <1>2, <1>6, <1>7, <1>8 DEF T

GatherSizes(v, c) == [i \in DOMAIN c.sizes |-> IF c.sizes[i] = DimUnknown THEN v.dims[i] ELSE c.sizes[i]]
GatherRemoved(c) == SetOf(c.collapsed) \cup SetOf(c.operandBatching)
GatherBatch(x, c) == Without(x.dims, {c.indexVectorAxis})
GatherRank(x, c) == Len(GatherBatch(x, c)) + Len(c.offset)
GatherOffset(v, c) == Without(GatherSizes(v, c), GatherRemoved(c))
GatherBefore(c, axis) == Cardinality({b \in 0 .. axis : (b \in SetOf(c.offset)) = (axis \in SetOf(c.offset))})
GatheredDims(v, x, c) ==
    [i \in 1 .. GatherRank(x, c) |->
        IF i - 1 \in SetOf(c.offset) THEN GatherOffset(v, c)[GatherBefore(c, i - 1)]
                                     ELSE GatherBatch(x, c)[GatherBefore(c, i - 1)]]
GatherFits(v, x, c) ==
    /\ AllInRank(c.collapsed, Rank(v)) /\ AllInRank(c.operandBatching, Rank(v))
    /\ Len(c.sizes) = Rank(v) /\ Rank(v) = Len(c.offset) + Len(c.collapsed) + Len(c.operandBatching)
    /\ AllInRank(c.offset, GatherRank(x, c)) /\ Distinct(c.offset)

LEMMA GatherOk ==
    ASSUME NEW v, NEW x, NEW c, Gather(v, x, c).status = "ok"
    PROVE  Gather(v, x, c).shapes = <<Shape(v.dtype, GatheredDims(v, x, c))>> /\ GatherFits(v, x, c)
<1> DEFINE r == Gather(v, x, c)
<1>1. r = Ok1(Shape(v.dtype, GatheredDims(v, x, c))) \/ r = Error \/ r = Panic
  BY Zenon DEF Gather, Guard, GatheredDims, GatherRank, GatherOffset, GatherBatch, GatherSizes, GatherRemoved, GatherBefore
<1>2. GatherFits(v, x, c) \/ r = Error \/ r = Panic
  BY Zenon DEF Gather, Guard, GatherFits, GatherRank, GatherBatch
<1> HIDE DEF r
<1>3. r = Ok1(Shape(v.dtype, GatheredDims(v, x, c))) /\ GatherFits(v, x, c)
  BY <1>1, <1>2 DEF Error, Panic, r
<1> QED
  BY <1>3 DEF Ok1, Ok, r

\* The places of the axes among those that hold offsets, or among the others.
LEMMA GatherPlaces ==
    ASSUME NEW v, NEW x, NEW c \in GatherArguments, Rank(v) \in Nat, Len(GatherBatch(x, c)) \in Nat, GatherFits(v, x, c),
           NEW i \in 1 .. GatherRank(x, c)
    PROVE  LET p == GatherBefore(c, i - 1)
           IN  IF i - 1 \in SetOf(c.offset) THEN p \in 1 .. Cardinality(KeptAxes(Rank(v), GatherRemoved(c)))
                                            ELSE p \in 1 .. Len(GatherBatch(x, c))
<1> DEFINE n == Rank(v)
           N == GatherRank(x, c)
           O == SetOf(c.offset)
           R == GatherRemoved(c)
           K == KeptAxes(n, R)
           axis == i - 1
           P == {b \in 0 .. axis : (b \in O) = (axis \in O)}
<1>1. /\ c.offset \in Seq(Int) /\ c.collapsed \in Seq(Int) /\ c.operandBatching \in Seq(Int)
  BY DEF GatherArguments
<1>2. /\ IsFiniteSet(O) /\ Cardinality(O) = Len(c.offset) /\ Len(c.offset) \in Nat
  BY <1>1, SetOfFacts DEF GatherFits
<1>3. /\ IsFiniteSet(R) /\ Cardinality(R) \in Nat /\ Cardinality(R) <= Len(c.collapsed) + Len(c.operandBatching)
      /\ Len(c.collapsed) \in Nat /\ Len(c.operandBatching) \in Nat
  <2> DEFINE A == SetOf(c.collapsed)
             B == SetOf(c.operandBatching)
  <2>1. /\ IsFiniteSet(A) /\ IsFiniteSet(B) /\ Cardinality(A) \in Nat /\ Cardinality(B) \in Nat
        /\ Cardinality(A) <= Len(c.collapsed) /\ Cardinality(B) <= Len(c.operandBatching)
        /\ Len(c.collapsed) \in Nat /\ Len(c.operandBatching) \in Nat
    BY <1>1, SetOfFacts
  <2>2. R = A \cup B
    BY DEF GatherRemoved
  <2> HIDE DEF A, B, R
  <2>3. IsFiniteSet(R) /\ Cardinality(R) \in Nat /\ Cardinality(R) <= Cardinality(A) + Cardinality(B)
    BY <2>1, <2>2, UnionBound
  <2> DEFINE p == Cardinality(A)
             q == Cardinality(B)
             l == Len(c.collapsed)
             b == Len(c.operandBatching)
             r == Cardinality(R)
  <2>4. p \in Nat /\ q \in Nat /\ l \in Nat /\ b \in Nat /\ p <= l /\ q <= b /\ r \in Nat /\ r <= p + q
    BY <2>1, <2>3
  <2> HIDE DEF p, q, l, b, r
  <2>5. r <= l + b
    BY <2>4
  <2> QED
    BY <2>1, <2>3, <2>5 DEF l, b, r
<1>4. n \in Nat /\ N = Len(GatherBatch(x, c)) + Len(c.offset) /\ N \in Nat /\ axis \in 0 .. N - 1
  BY <1>2 DEF GatherRank
<1>5. O \subseteq 0 .. N - 1 /\ R \subseteq 0 .. n - 1
  BY DEF GatherFits, AllInRank, InRank, SetOf, GatherRemoved
<1>6. n = Len(c.offset) + Len(c.collapsed) + Len(c.operandBatching)
  BY DEF GatherFits
<1> HIDE DEF O, R, n, N
<1>7. IsFiniteSet(K) /\ Cardinality(K) = n - Cardinality(R)
  <2> DEFINE L == (0 .. n - 1) \ R
             f == [j \in L |-> j + 1]
  <2>1. IsFiniteSet(0 .. n - 1) /\ Cardinality(0 .. n - 1) = n
    BY <1>4, FromZero
  <2>2. IsFiniteSet(L) /\ Cardinality(L) = n - Cardinality((0 .. n - 1) \cap R)
    BY <2>1, FS_Difference
  <2>3. (0 .. n - 1) \cap R = R
    BY <1>5
  <2>4. f \in [L -> K]
    BY <1>4 DEF KeptAxes
  <2>5. \A j, k \in L : f[j] = f[k] => j = k
    OBVIOUS
  <2>6. \A k \in K : k - 1 \in L /\ f[k - 1] = k
    BY <1>4 DEF KeptAxes
  <2>7. f \in Bijection(L, K)
    <3> HIDE DEF f, L, K
    <3> QED
      BY <2>4, <2>5, <2>6 DEF Bijection, Injection, Surjection, IsInjective
  <2>8. ExistsBijection(L, K)
    BY <2>7 DEF ExistsBijection
  <2>9. IsFiniteSet(K) /\ Cardinality(K) = Cardinality(L)
    BY <2>2, <2>8, FS_Bijection
  <2> QED
    BY <2>2, <2>3, <2>9
<1>8. IsFiniteSet(P) /\ Cardinality(P) \in Nat /\ Cardinality(P) >= 1
  <2>1. IsFiniteSet(0 .. axis)
    BY <1>4, FS_Interval
  <2>2. P \subseteq 0 .. axis /\ axis \in P
    BY <1>4
  <2> HIDE DEF P
  <2>3. IsFiniteSet(P) /\ Cardinality(P) \in Nat
    BY <2>1, <2>2, FS_Subset, FS_CardinalityType
  <2>4. Cardinality(P) # 0
    BY <2>2, <2>3, FS_EmptySet
  <2> QED
    BY <2>3, <2>4
<1>9. Cardinality(P) = GatherBefore(c, axis)
  BY DEF GatherBefore, O
<1>10. CASE axis \in O
  <2>1. P \subseteq O
    BY <1>10
  <2>2. Cardinality(P) <= Cardinality(O)
    BY <1>2, <2>1, FS_Subset
  <2> HIDE DEF P, K
  <2>3. Cardinality(P) <= Cardinality(K) /\ Cardinality(K) \in Nat
    <3> DEFINE p == Cardinality(P)
               o == Len(c.offset)
               r == Cardinality(R)
               k == Cardinality(K)
               l == Len(c.collapsed)
               b == Len(c.operandBatching)
    <3>1. /\ p \in Nat /\ p <= o /\ o \in Nat /\ r \in Nat /\ l \in Nat /\ b \in Nat
          /\ r <= l + b /\ n = o + l + b /\ k = n - r
      BY <1>2, <1>3, <1>6, <1>7, <1>8, <2>2
    <3> HIDE DEF p, o, r, k, l, b
    <3>2. p <= k /\ k \in Nat
      BY <1>4, <3>1
    <3> QED
      BY <3>2 DEF p, k
  <2> QED
    BY <1>8, <1>9, <1>10, <2>3 DEF O, K, R, n
<1>11. CASE axis \notin O
  <2> DEFINE Q == (0 .. N - 1) \ O
  <2>1. P \subseteq Q
    BY <1>4, <1>11
  <2>2. IsFiniteSet(0 .. N - 1) /\ Cardinality(0 .. N - 1) = N
    BY <1>4, FromZero
  <2>3. IsFiniteSet(Q) /\ Cardinality(Q) = N - Cardinality((0 .. N - 1) \cap O)
    BY <2>2, FS_Difference
  <2>4. (0 .. N - 1) \cap O = O
    BY <1>5
  <2>5. Cardinality(P) <= Cardinality(Q)
    BY <2>1, <2>3, FS_Subset
  <2> HIDE DEF P, Q
  <2>6. Cardinality(P) <= Len(GatherBatch(x, c))
    <3> DEFINE p == Cardinality(P)
               q == Cardinality(Q)
               o == Len(c.offset)
               b == Len(GatherBatch(x, c))
    <3>1. p \in Nat /\ o \in Nat /\ b \in Nat /\ N = b + o /\ q = N - o /\ p <= q
      BY <1>2, <1>4, <1>8, <2>3, <2>4, <2>5
    <3> HIDE DEF p, q, o, b
    <3>2. p <= b
      BY <1>4, <3>1
    <3> QED
      BY <3>2 DEF p, b
  <2> QED
    BY <1>8, <1>9, <1>11, <2>6 DEF O
<1> QED
  BY <1>10, <1>11

LEMMA GatherAgree ==
    ASSUME NEW s, NEW a, NEW u, NEW w, Operand(s, a), Operand(u, w), NEW c \in GatherArguments
    PROVE  True(Gather(s, u, c), Gather(a, w, c))
<1> SUFFICES ASSUME Gather(s, u, c).status = "ok", Gather(a, w, c).status = "ok"
             PROVE  Describes(Shape(s.dtype, GatheredDims(s, u, c)), Shape(a.dtype, GatheredDims(a, w, c)))
  BY GatherOk DEF True
<1> DEFINE n == Rank(a)
           N == GatherRank(w, c)
           K == Cardinality(KeptAxes(n, GatherRemoved(c)))
           d == GatheredDims(s, u, c)
           e == GatheredDims(a, w, c)
<1>1. /\ s.dtype = a.dtype /\ s.dtype \in DTypes /\ n \in Nat /\ Rank(s) = n /\ Tells(s.dims, a.dims) /\ Tells(u.dims, w.dims)
      /\ Len(s.dims) = n /\ Len(a.dims) = n
  BY OperandFacts, OperandTells DEF Values
<1>2. GatherFits(a, w, c) /\ c.sizes \in Seq(Int) /\ Len(c.sizes) = n
  <2>1. GatherFits(a, w, c)
    BY GatherOk
  <2> QED
    BY <2>1 DEF GatherFits, GatherArguments
<1>3. Tells(GatherBatch(u, c), GatherBatch(w, c)) /\ Len(GatherBatch(u, c)) = Len(GatherBatch(w, c))
      /\ Len(GatherBatch(w, c)) \in Nat
  <2>1. Tells(GatherBatch(u, c), GatherBatch(w, c))
    BY <1>1, WithoutTells DEF GatherBatch
  <2> QED
    BY <2>1 DEF Tells
<1>4. Tells(GatherSizes(s, c), GatherSizes(a, c)) /\ Len(GatherSizes(s, c)) = n
  <2> DEFINE f == GatherSizes(s, c)
             h == GatherSizes(a, c)
  <2>1. DOMAIN c.sizes = 1 .. n
    BY <1>2
  <2>2. f = [i \in 1 .. n |-> f[i]] /\ h = [i \in 1 .. n |-> h[i]] /\ Len(f) = n
    BY <1>1, <2>1 DEF GatherSizes
  <2>3. ASSUME NEW i \in 1 .. n
        PROVE  h[i] \in Int /\ f[i] \in {DimUnknown, h[i]}
    <3>1. /\ f[i] = (IF c.sizes[i] = DimUnknown THEN s.dims[i] ELSE c.sizes[i])
          /\ h[i] = (IF c.sizes[i] = DimUnknown THEN a.dims[i] ELSE c.sizes[i])
      BY <2>1 DEF GatherSizes
    <3>2. s.dims[i] \in {DimUnknown, a.dims[i]} /\ a.dims[i] \in Int /\ c.sizes[i] \in Int
      BY <1>1, <1>2, <2>1, TellsAt
    <3> QED
      BY <3>1, <3>2
  <2> HIDE DEF f, h
  <2>4. Tells(f, h)
    BY <1>1, <2>2, <2>3, ListsTell
  <2> QED
    BY <2>2, <2>4 DEF f, h
<1>5. Tells(GatherOffset(s, c), GatherOffset(a, c)) /\ Len(GatherOffset(s, c)) = K
  BY <1>4, WithoutTells DEF GatherOffset
<1> HIDE DEF n, K
<1>6. N \in Nat /\ GatherRank(u, c) = N
  <2>1. c.offset \in Seq(Int)
    BY DEF GatherArguments
  <2> QED
    BY <1>3, <2>1 DEF GatherRank
<1>7. ASSUME NEW i \in 1 .. N
      PROVE  e[i] \in Int /\ d[i] \in {DimUnknown, e[i]}
  <2> DEFINE p == GatherBefore(c, i - 1)
  <2>1. /\ d[i] = (IF i - 1 \in SetOf(c.offset) THEN GatherOffset(s, c)[p] ELSE GatherBatch(u, c)[p])
        /\ e[i] = (IF i - 1 \in SetOf(c.offset) THEN GatherOffset(a, c)[p] ELSE GatherBatch(w, c)[p])
    BY <1>6 DEF GatheredDims
  <2>2. IF i - 1 \in SetOf(c.offset) THEN p \in 1 .. K ELSE p \in 1 .. Len(GatherBatch(w, c))
    BY <1>1, <1>2, <1>3, GatherPlaces DEF n, K
  <2> HIDE DEF p
  <2>3. CASE i - 1 \in SetOf(c.offset)
    <3>1. GatherOffset(s, c)[p] \in {DimUnknown, GatherOffset(a, c)[p]} /\ GatherOffset(a, c)[p] \in Int
      BY <1>5, <2>2, <2>3, TellsAt
    <3> QED
      BY <2>1, <2>3, <3>1
  <2>4. CASE i - 1 \notin SetOf(c.offset)
    <3>1. GatherBatch(u, c)[p] \in {DimUnknown, GatherBatch(w, c)[p]} /\ GatherBatch(w, c)[p] \in Int
      BY <1>3, <2>2, <2>4, TellsAt
    <3> QED
      BY <2>1, <2>4, <3>1
  <2> QED
    BY <2>3, <2>4
<1>8. d = [i \in 1 .. N |-> d[i]] /\ e = [i \in 1 .. N |-> e[i]]
  BY <1>6 DEF GatheredDims
<1> HIDE DEF d, e, N
<1>9. Tells(d, e)
  BY <1>6, <1>7, <1>8, ListsTell
<1> QED
  BY <1>1, <1>9, ShapeDescribes DEF d, e

-------------------------------------------------------------------------------
(* Windows and convolutions. *)

LEMMA DefaultFacts ==
    ASSUME NEW S, NEW x \in S, NEW list \in Seq(S), NEW n \in Nat
    PROVE  /\ OrDefault(list, Repeat(x, n)) \in Seq(S)
           /\ \A i \in 1 .. n : OrDefault(list, Repeat(x, n))[i] = Last0(list, i, x)
<1>1. Repeat(x, n) \in Seq(S) /\ \A i \in 1 .. n : Repeat(x, n)[i] = x
  BY DEF Repeat
<1> QED
  BY <1>1 DEF OrDefault, Last0

\* The number of places where a window fits.
LEMMA PlacesCount ==
    ASSUME NEW dim \in Nat, dim >= 1, NEW dilation \in Nat, dilation >= 1, NEW low \in Int, NEW high \in Int,
           NEW window \in Nat, window >= 1, NEW windowDilation \in Nat, windowDilation >= 1, NEW stride \in Nat, stride >= 1,
           Dilated(window, windowDilation) <= Dilated(dim, dilation) + low + high
    PROVE  /\ Placed(low + high + Spread(dim, dilation), Spread(window, windowDilation), stride)
                = WindowDim(Dilated(dim, dilation) + low + high, Dilated(window, windowDilation), stride)
           /\ WindowDim(Dilated(dim, dilation) + low + high, Dilated(window, windowDilation), stride) \in Nat
<1> DEFINE d == Dilated(dim, dilation)
           w == Dilated(window, windowDilation)
<1>1. Spread(dim, dilation) = d /\ Spread(window, windowDilation) = w
  BY SpreadCount DEF Dilated
<1>2. d \in Nat /\ w \in Nat
  <2>1. dim - 1 \in Nat /\ window - 1 \in Nat
    OBVIOUS
  <2>2. (dim - 1) * dilation \in Nat /\ (window - 1) * windowDilation \in Nat
    BY <2>1, TimesMonotone
  <2> QED
    BY <2>2 DEF Dilated
<1> HIDE DEF d, w
<1>3. d + low + high \in Nat /\ w <= d + low + high /\ low + high + d = d + low + high
  BY <1>2 DEF d, w
<1>4. stride \in Nat \ {0}
  OBVIOUS
<1>5. Placed(d + low + high, w, stride) = WindowDim(d + low + high, w, stride) /\ WindowDim(d + low + high, w, stride) \in Nat
  BY <1>2, <1>3, <1>4, PlacedCount
<1>6. Placed(low + high + Spread(dim, dilation), Spread(window, windowDilation), stride) = Placed(d + low + high, w, stride)
  BY <1>1, <1>3
<1> QED
  BY <1>5, <1>6 DEF d, w

WindowResolved(c, n) ==
    LET window == OrDefault(c.window, Repeat(1, n))
    IN [window |-> window, strides |-> OrDefault(c.strides, window),
        inputDilations |-> OrDefault(c.inputDilations, Repeat(1, n)),
        windowDilations |-> OrDefault(c.windowDilations, Repeat(1, n)),
        paddings |-> OrDefault(c.paddings, Repeat(<<0, 0>>, n))]
WindowPadded(v, c, i) == Dilated(v.dims[i], c.inputDilations[i]) + c.paddings[i][1] + c.paddings[i][2]
WindowSize(c, i) == Dilated(c.window[i], c.windowDilations[i])
WindowFits(v, f, c) ==
    /\ f.dtype = v.dtype /\ IsScalar(f) /\ IsPromotableTo(v.dtype, f.dtype)
    /\ {Len(c.window), Len(c.strides), Len(c.paddings), Len(c.inputDilations), Len(c.windowDilations)} = {Rank(v)}
    /\ \A i \in DOMAIN v.dims :
          /\ c.window[i] >= 1 /\ c.strides[i] >= 1
          /\ c.paddings[i][1] >= 0 /\ c.paddings[i][2] >= 0
          /\ c.inputDilations[i] >= 1 /\ c.windowDilations[i] >= 1
          /\ v.dims[i] # DimUnknown => WindowSize(c, i) <= WindowPadded(v, c, i)
WindowDims(v, c) ==
    [i \in DOMAIN v.dims |-> IF v.dims[i] = DimUnknown THEN DimUnknown
                             ELSE WindowDim(WindowPadded(v, c, i), WindowSize(c, i), c.strides[i])]

LEMMA ReduceWindowOfOne ==
    ASSUME NEW v, NEW f, NEW c
    PROVE  LET cc == WindowResolved(c, Rank(v))
           IN  ReduceWindowOp(v, f, c) = Guard(WindowFits(v, f, cc),
                                               Ok1(IF Rank(v) = 0 THEN v ELSE Shape(f.dtype, WindowDims(v, cc))))
<1> DEFINE cc == WindowResolved(c, Rank(v))
           vs == <<v>>
           fs == <<f>>
           ins == <<f, f>>
<1>1. /\ Len(vs) = 1 /\ vs[1] = v /\ DOMAIN vs = {1} /\ Len(fs) = 1 /\ DOMAIN fs = {1} /\ fs[1] = f
      /\ Len(ins) = 2 /\ ins[1] = f /\ ins[2] = f
  OBVIOUS
<1> HIDE DEF vs, fs, ins
<1>2. ReduceWindowOp(v, f, c) = ReduceWindow(vs, fs, ins, fs, cc)
  BY <1>1 DEF ReduceWindowOp, MultiReduceWindow, WindowResolved, vs, fs, ins
<1> HIDE DEF cc
<1>3. 1 .. 1 = {1}
  OBVIOUS
<1>4. SameTypes(1, ins, fs)
  BY <1>1, <1>3 DEF SameTypes
<1>5. Promotable(vs, ins) <=> IsPromotableTo(v.dtype, f.dtype)
  BY <1>1 DEF Promotable
<1>6. ~ \E i \in 1 .. Len(vs) : ~CheckDims(vs[i], vs[1].dims)
  BY <1>1, <1>3 DEF CheckDims, Compatible, SameDim
<1>7. (\E i \in DOMAIN fs \cap 1 .. Len(vs) : fs[i].dtype # vs[i].dtype \/ ~IsScalar(fs[i]))
        <=> ~(f.dtype = v.dtype /\ IsScalar(f))
  BY <1>1, <1>3
<1>8. ~(Len(fs) > Len(vs)) /\ Len(ins) = 2 * Len(vs) /\ Len(fs) = Len(vs)
  BY <1>1
<1> DEFINE g == /\ Len(ins) = 2 * Len(vs) /\ Len(fs) = Len(vs)
                /\ SameTypes(Len(vs), ins, fs) /\ Promotable(vs, ins)
                /\ {Len(cc.window), Len(cc.strides), Len(cc.paddings), Len(cc.inputDilations),
                    Len(cc.windowDilations)} = {Rank(vs[1])}
                /\ \A i \in DOMAIN vs[1].dims :
                      /\ cc.window[i] >= 1 /\ cc.strides[i] >= 1
                      /\ cc.paddings[i][1] >= 0 /\ cc.paddings[i][2] >= 0
                      /\ cc.inputDilations[i] >= 1 /\ cc.windowDilations[i] >= 1
                      /\ vs[1].dims[i] # DimUnknown => WindowSize(cc, i) <= WindowPadded(vs[1], cc, i)
           out == IF Rank(vs[1]) = 0 THEN Ok(vs)
                  ELSE Ok([k \in 1 .. Len(vs) |-> Shape(fs[k].dtype, WindowDims(vs[1], cc))])
<1>9. ReduceWindow(vs, fs, ins, fs, cc) =
        IF \E i \in 1 .. Len(vs) : ~CheckDims(vs[i], vs[1].dims) THEN Error
        ELSE IF \E i \in DOMAIN fs \cap 1 .. Len(vs) : fs[i].dtype # vs[i].dtype \/ ~IsScalar(fs[i]) THEN Error
        ELSE IF Len(fs) > Len(vs) THEN Panic
        ELSE Guard(g, out)
  BY Zenon DEF ReduceWindow, WindowDims, WindowPadded, WindowSize
<1>10. g <=> /\ IsPromotableTo(v.dtype, f.dtype)
             /\ {Len(cc.window), Len(cc.strides), Len(cc.paddings), Len(cc.inputDilations),
                 Len(cc.windowDilations)} = {Rank(v)}
             /\ \A i \in DOMAIN v.dims :
                      /\ cc.window[i] >= 1 /\ cc.strides[i] >= 1
                      /\ cc.paddings[i][1] >= 0 /\ cc.paddings[i][2] >= 0
                      /\ cc.inputDilations[i] >= 1 /\ cc.windowDilations[i] >= 1
                      /\ v.dims[i] # DimUnknown => WindowSize(cc, i) <= WindowPadded(v, cc, i)
  BY <1>1, <1>4, <1>5, <1>8
<1>11. out = Ok1(IF Rank(v) = 0 THEN v ELSE Shape(f.dtype, WindowDims(v, cc)))
  <2>1. vs = <<v>> /\ [k \in 1 .. Len(vs) |-> Shape(fs[k].dtype, WindowDims(vs[1], cc))] = <<Shape(f.dtype, WindowDims(v, cc))>>
    BY <1>1 DEF vs
  <2> QED
    BY <1>1, <2>1 DEF Ok1
<1>12. g /\ f.dtype = v.dtype /\ IsScalar(f) <=> WindowFits(v, f, cc)
  BY <1>10 DEF WindowFits
<1> HIDE DEF g, out
<1>13. ReduceWindow(vs, fs, ins, fs, cc) = Guard(WindowFits(v, f, cc), out)
  BY <1>6, <1>7, <1>8, <1>9, <1>12 DEF Guard
<1> QED
  BY <1>2, <1>11, <1>13 DEF cc

LEMMA PairAt ==
    ASSUME NEW q \in Seq(Int \X Int), NEW i \in 1 .. Len(q)
    PROVE  q[i][1] \in Int /\ q[i][2] \in Int
<1> DEFINE S == Int \X Int
<1>1. \A x \in S : x[1] \in Int /\ x[2] \in Int
  OBVIOUS
<1> HIDE DEF S
<1>2. q \in Seq(S)
  BY DEF S
<1>3. q[i] \in S
  BY <1>2
<1> QED
  BY <1>1, <1>3

LEMMA WindowResolvedFacts ==
    ASSUME NEW c \in WindowArguments, NEW n \in Nat
    PROVE  LET cc == WindowResolved(c, n)
           IN  /\ cc.window \in Seq(Int) /\ cc.strides \in Seq(Int) /\ cc.inputDilations \in Seq(Int)
               /\ cc.windowDilations \in Seq(Int) /\ cc.paddings \in Seq(Int \X Int)
               /\ \A i \in 1 .. n : /\ cc.window[i] = Last0(c.window, i, 1)
                                    /\ cc.strides[i] = Last0(c.strides, i, Last0(c.window, i, 1))
                                    /\ cc.inputDilations[i] = Last0(c.inputDilations, i, 1)
                                    /\ cc.windowDilations[i] = Last0(c.windowDilations, i, 1)
                                    /\ cc.paddings[i] = Last0(c.paddings, i, <<0, 0>>)
<1> DEFINE cc == WindowResolved(c, n)
           window == OrDefault(c.window, Repeat(1, n))
<1>1. /\ c.window \in Seq(Int) /\ c.strides \in Seq(Int) /\ c.inputDilations \in Seq(Int)
      /\ c.windowDilations \in Seq(Int) /\ c.paddings \in Seq(Int \X Int) /\ 1 \in Int /\ <<0, 0>> \in Int \X Int
  BY DEF WindowArguments
<1>2. /\ cc.window = window /\ cc.strides = OrDefault(c.strides, window)
      /\ cc.inputDilations = OrDefault(c.inputDilations, Repeat(1, n))
      /\ cc.windowDilations = OrDefault(c.windowDilations, Repeat(1, n))
      /\ cc.paddings = OrDefault(c.paddings, Repeat(<<0, 0>>, n))
  BY DEF WindowResolved
<1> HIDE DEF cc
<1>3. window \in Seq(Int) /\ \A i \in 1 .. n : window[i] = Last0(c.window, i, 1)
  BY <1>1, DefaultFacts
<1> HIDE DEF window
<1>4. cc.strides \in Seq(Int) /\ \A i \in 1 .. n : cc.strides[i] = Last0(c.strides, i, Last0(c.window, i, 1))
  BY <1>1, <1>2, <1>3 DEF OrDefault, Last0
<1>5. /\ cc.inputDilations \in Seq(Int)
      /\ \A i \in 1 .. n : cc.inputDilations[i] = Last0(c.inputDilations, i, 1)
  <2>1. /\ OrDefault(c.inputDilations, Repeat(1, n)) \in Seq(Int)
        /\ \A i \in 1 .. n : OrDefault(c.inputDilations, Repeat(1, n))[i] = Last0(c.inputDilations, i, 1)
    BY <1>1, DefaultFacts
  <2> QED
    BY <1>2, <2>1
<1>6. /\ cc.windowDilations \in Seq(Int)
      /\ \A i \in 1 .. n : cc.windowDilations[i] = Last0(c.windowDilations, i, 1)
  <2>1. /\ OrDefault(c.windowDilations, Repeat(1, n)) \in Seq(Int)
        /\ \A i \in 1 .. n : OrDefault(c.windowDilations, Repeat(1, n))[i] = Last0(c.windowDilations, i, 1)
    BY <1>1, DefaultFacts
  <2> QED
    BY <1>2, <2>1
<1>7. /\ cc.paddings \in Seq(Int \X Int)
      /\ \A i \in 1 .. n : cc.paddings[i] = Last0(c.paddings, i, <<0, 0>>)
  <2>1. /\ OrDefault(c.paddings, Repeat(<<0, 0>>, n)) \in Seq(Int \X Int)
        /\ \A i \in 1 .. n : OrDefault(c.paddings, Repeat(<<0, 0>>, n))[i] = Last0(c.paddings, i, <<0, 0>>)
    BY <1>1, DefaultFacts
  <2> QED
    BY <1>2, <2>1
<1> QED
  BY <1>2, <1>3, <1>4, <1>5, <1>6, <1>7 DEF cc

\* The counted places of a window along an axis.
WindowPlaces(x, c, i) ==
    LET size == Last0(c.window, i, 1)
        pads == Last0(c.paddings, i, <<0, 0>>)
    IN Placed(pads[1] + pads[2] + Spread(x.dims[i], Last0(c.inputDilations, i, 1)),
              Spread(size, Last0(c.windowDilations, i, 1)), Last0(c.strides, i, size))

LEMMA ReducedWindowCounted ==
    ASSUME NEW x, NEW fill, NEW c
    PROVE  ReducedWindow(x, fill, c) = Counted(ReduceWindowOp(x, fill, c), [i \in DOMAIN x.dims |-> WindowPlaces(x, c, i)])
<1> DEFINE accepted == ReduceWindowOp(x, fill, c)
           e == [i \in DOMAIN x.dims |-> WindowPlaces(x, c, i)]
<1>1. ReducedWindow(x, fill, c) = IF accepted.status = "ok" THEN Counted(accepted, e) ELSE accepted
  BY Zenon DEF ReducedWindow, WindowPlaces
<1> HIDE DEF accepted, e
<1>2. accepted.status # "ok" => Counted(accepted, e) = accepted
  BY DEF Counted
<1> QED
  BY <1>1, <1>2 DEF accepted, e

LEMMA WindowPlacesTold ==
    ASSUME NEW s, NEW a, NEW b, Operand(s, a), NEW c \in WindowArguments, NEW i \in 1 .. Rank(a),
           WindowFits(a, b, WindowResolved(c, Rank(a)))
    PROVE  /\ WindowPlaces(a, c, i) \in Int
           /\ WindowDims(s, WindowResolved(c, Rank(a)))[i] \in {DimUnknown, WindowPlaces(a, c, i)}
<1> DEFINE n == Rank(a)
           cc == WindowResolved(c, n)
           dim == a.dims[i]
           dilation == cc.inputDilations[i]
           low == cc.paddings[i][1]
           high == cc.paddings[i][2]
           window == cc.window[i]
           windowDilation == cc.windowDilations[i]
           stride == cc.strides[i]
           count == WindowDim(Dilated(dim, dilation) + low + high, Dilated(window, windowDilation), stride)
<1>1. /\ n \in Nat /\ DOMAIN s.dims = 1 .. n /\ DOMAIN a.dims = 1 .. n
      /\ s.dims[i] \in {DimUnknown, a.dims[i]} /\ dim \in Int /\ dim >= 1 /\ dim # DimUnknown
  BY OperandFacts DEF DimUnknown
<1> HIDE DEF n
<1>2. /\ cc.window \in Seq(Int) /\ cc.strides \in Seq(Int) /\ cc.inputDilations \in Seq(Int)
      /\ cc.windowDilations \in Seq(Int) /\ cc.paddings \in Seq(Int \X Int)
      /\ window = Last0(c.window, i, 1)
      /\ stride = Last0(c.strides, i, Last0(c.window, i, 1))
      /\ dilation = Last0(c.inputDilations, i, 1)
      /\ windowDilation = Last0(c.windowDilations, i, 1)
      /\ cc.paddings[i] = Last0(c.paddings, i, <<0, 0>>)
  BY <1>1, WindowResolvedFacts DEF n
<1> HIDE DEF cc
<1>3. /\ Len(cc.window) = n /\ Len(cc.strides) = n /\ Len(cc.paddings) = n /\ Len(cc.inputDilations) = n
      /\ Len(cc.windowDilations) = n
      /\ window >= 1 /\ stride >= 1 /\ low >= 0 /\ high >= 0 /\ dilation >= 1 /\ windowDilation >= 1
      /\ Dilated(window, windowDilation) <= Dilated(dim, dilation) + low + high
  BY <1>1 DEF WindowFits, WindowSize, WindowPadded, cc, n
<1>4. /\ window \in Int /\ stride \in Int /\ dilation \in Int /\ windowDilation \in Int /\ low \in Int /\ high \in Int
  <2>1. i \in 1 .. n
    BY DEF n
  <2>2. low \in Int /\ high \in Int
    BY <1>1, <1>2, <1>3, <2>1, PairAt
  <2>3. window \in Int /\ stride \in Int /\ dilation \in Int /\ windowDilation \in Int
    <3>1. \A q \in Seq(Int) : Len(q) = n => q[i] \in Int
      BY <2>1
    <3>2. /\ cc.window \in Seq(Int) /\ cc.strides \in Seq(Int) /\ cc.inputDilations \in Seq(Int)
          /\ cc.windowDilations \in Seq(Int)
          /\ Len(cc.window) = n /\ Len(cc.strides) = n /\ Len(cc.inputDilations) = n /\ Len(cc.windowDilations) = n
      BY <1>2, <1>3
    <3> QED
      BY <3>1, <3>2, Zenon
  <2> QED
    BY <2>2, <2>3
<1>5. WindowPlaces(a, c, i) = Placed(low + high + Spread(dim, dilation), Spread(window, windowDilation), stride)
  BY <1>2 DEF WindowPlaces
<1>6. WindowDims(s, cc)[i] = IF s.dims[i] = DimUnknown THEN DimUnknown
                             ELSE WindowDim(Dilated(s.dims[i], dilation) + low + high, Dilated(window, windowDilation), stride)
  BY <1>1 DEF WindowDims, WindowPadded, WindowSize, n
<1> HIDE DEF dim, dilation, low, high, window, windowDilation, stride
<1>7. /\ Placed(low + high + Spread(dim, dilation), Spread(window, windowDilation), stride) = count /\ count \in Nat
  BY <1>1, <1>3, <1>4, PlacesCount
<1> HIDE DEF count
<1>8. WindowDims(s, cc)[i] \in {DimUnknown, count}
  BY <1>1, <1>6 DEF count, dim
<1> QED
  BY <1>5, <1>7, <1>8 DEF cc, n

LEMMA ReduceWindowAgree ==
    ASSUME NEW s, NEW a, NEW f, NEW b, Operand(s, a), Operand(f, b), NEW c \in WindowArguments
    PROVE  Agree(ReduceWindowOp(s, f, c), ReducedWindow(a, b, c))
<1> DEFINE n == Rank(a)
           cc == WindowResolved(c, n)
           out(v, x) == IF n = 0 THEN v ELSE Shape(x.dtype, WindowDims(v, cc))
           g == WindowFits(s, f, cc)
           h == WindowFits(a, b, cc)
           e == [i \in DOMAIN a.dims |-> WindowPlaces(a, c, i)]
<1>1. /\ n \in Nat /\ Rank(s) = n /\ DOMAIN s.dims = 1 .. n /\ DOMAIN a.dims = 1 .. n
      /\ s.dtype = a.dtype /\ f.dtype = b.dtype /\ f.dtype \in DTypes /\ Rank(f) = Rank(b)
      /\ s \in Values /\ a \in Values
  BY OperandFacts DEF Values
<1>2. ReduceWindowOp(s, f, c) = Guard(g, Ok1(out(s, f)))
  BY <1>1, ReduceWindowOfOne
<1>3. ReduceWindowOp(a, b, c) = Guard(h, Ok1(out(a, b)))
  BY ReduceWindowOfOne
<1>4. h => g
  <2> SUFFICES ASSUME h
               PROVE  g
    OBVIOUS
  <2> HIDE DEF cc
  <2>1. \A i \in 1 .. n : s.dims[i] # DimUnknown => s.dims[i] = a.dims[i] /\ a.dims[i] # DimUnknown
    BY <1>1, OperandFacts
  <2>2. \A i \in 1 .. n : s.dims[i] # DimUnknown => WindowSize(cc, i) <= WindowPadded(s, cc, i)
    BY <1>1, <2>1 DEF WindowFits, WindowPadded
  <2>3. IsScalar(f)
    BY <1>1 DEF WindowFits, IsScalar
  <2> QED
    BY <1>1, <2>2, <2>3 DEF WindowFits
<1>5. g \in BOOLEAN /\ h \in BOOLEAN
  BY DEF WindowFits
<1>6. ReducedWindow(a, b, c) = Guard(h, Ok1(WithDims(out(a, b), e)))
  BY <1>3, <1>5, ReducedWindowCounted, CountedGuard
<1>7. e = [i \in 1 .. n |-> e[i]] /\ \A i \in 1 .. n : e[i] = WindowPlaces(a, c, i)
  BY <1>1
<1> HIDE DEF e
<1>8. ASSUME h
      PROVE  Describes(out(s, f), WithDims(out(a, b), e))
  <2>1. CASE n = 0
    <3>1. e \in Seq(Int) /\ Len(e) = 0
      <4>1. 1 .. 0 = {}
        OBVIOUS
      <4>2. e = << >>
        BY <1>7, <2>1, <4>1
      <4> QED
        BY <4>2
    <3>2. WithDims(a, e) \in Values /\ WithDims(a, e).dims = e /\ WithDims(a, e).dtype = a.dtype
      BY <1>1, <3>1 DEF Values, WithDims
    <3>3. Describes(s, WithDims(a, e))
      BY <1>1, <2>1, <3>1, <3>2 DEF Describes, Covers, Rank
    <3> QED
      BY <2>1, <3>3
  <2>2. CASE n # 0
    <3> DEFINE d == WindowDims(s, cc)
    <3>1. d = [i \in 1 .. n |-> d[i]]
      BY <1>1 DEF WindowDims
    <3>2. \A i \in 1 .. n : e[i] \in Int /\ d[i] \in {DimUnknown, e[i]}
      BY <1>7, <1>8, WindowPlacesTold
    <3> HIDE DEF d
    <3>3. Tells(d, e)
      BY <1>1, <1>7, <3>1, <3>2, ListsTell
    <3>4. Describes(Shape(f.dtype, d), Shape(b.dtype, e))
      BY <1>1, <3>3, ShapeDescribes
    <3>5. WithDims(Shape(b.dtype, WindowDims(a, cc)), e) = Shape(b.dtype, e)
      BY DEF WithDims, Shape
    <3> QED
      BY <2>2, <3>4, <3>5 DEF d
  <2> QED
    BY <2>1, <2>2
<1> HIDE DEF g, h, out
<1> QED
  BY <1>2, <1>4, <1>5, <1>6, <1>8, AgreeOne

ConvAdjusted(axes, n) ==
    <<AdjustAxis(axes[1], n), AdjustAxis(axes[2], n), [k \in DOMAIN axes[3] |-> AdjustAxis(axes[3][k], n)]>>
ConvResolved(c, n) ==
    [c EXCEPT !.strides = OrDefault(@, Repeat(1, n - 2)), !.paddings = OrDefault(@, Repeat(<<0, 0>>, n - 2)),
              !.inputDilations = OrDefault(@, Repeat(1, n - 2)), !.kernelDilations = OrDefault(@, Repeat(1, n - 2)),
              !.input = ConvAdjusted(@, n), !.kernel = ConvAdjusted(@, n), !.output = ConvAdjusted(@, n)]
ConvIn(v, c, k) == v.dims[c.input[3][k] + 1]
ConvKernel(w, c, k) == w.dims[c.kernel[3][k] + 1]
ConvUnknown(v, w, c, k) == DimUnknown \in {ConvIn(v, c, k), ConvKernel(w, c, k)}
ConvPadded(v, c, k) == Dilated(ConvIn(v, c, k), c.inputDilations[k]) + c.paddings[k][1] + c.paddings[k][2]
ConvWindow(w, c, k) == Dilated(ConvKernel(w, c, k), c.kernelDilations[k])
ConvSpatial(v, w, c, k) ==
    IF ConvUnknown(v, w, c, k) THEN DimUnknown ELSE WindowDim(ConvPadded(v, c, k), ConvWindow(w, c, k), c.strides[k])
ConvShaped(c, n) ==
    /\ n >= 3
    /\ AxesConfig(c.input, n) /\ AxesConfig(c.kernel, n) /\ AxesConfig(c.output, n)
    /\ {Len(c.strides), Len(c.paddings), Len(c.inputDilations), Len(c.kernelDilations)} = {n - 2}
    /\ \A k \in 1 .. n - 2 : c.inputDilations[k] >= 1 /\ c.kernelDilations[k] >= 1
    /\ c.channelGroups >= 1 /\ c.batchGroups >= 1 /\ 1 \in {c.channelGroups, c.batchGroups}
ConvSized(v, w, c) ==
    LET channels == v.dims[c.input[2] + 1]
        outChannels == w.dims[c.kernel[2] + 1]
        kernelChannels == w.dims[c.kernel[1] + 1]
    IN /\ Divides(c.channelGroups, channels) /\ Divides(c.channelGroups, outChannels)
       /\ SameDim(channels, kernelChannels * (IF kernelChannels = DimUnknown THEN 1 ELSE c.channelGroups))
       /\ Divides(c.batchGroups, v.dims[c.input[1] + 1]) /\ Divides(c.batchGroups, outChannels)
       /\ \A k \in 1 .. Rank(v) - 2 :
             c.strides[k] >= 1 /\ (ConvUnknown(v, w, c, k) \/ ConvWindow(w, c, k) <= ConvPadded(v, c, k))
ConvBatch(v, c) ==
    IF v.dims[c.input[1] + 1] = DimUnknown THEN DimUnknown ELSE v.dims[c.input[1] + 1] \div c.batchGroups
ConvDims(v, w, c) ==
    [i \in 1 .. Rank(v) |->
        IF i = c.output[1] + 1 THEN ConvBatch(v, c)
        ELSE IF i = c.output[2] + 1 THEN w.dims[c.kernel[2] + 1]
        ELSE ConvSpatial(v, w, c, CHOOSE k \in 1 .. Rank(v) - 2 : c.output[3][k] = i - 1)]
ConvPanics(v, c) == Rank(v) < 2
ConvNamed(c, n) == \A axes \in ConvolutionAxes(c) : \A i \in DOMAIN AllAxes(axes) : InRankNeg(AllAxes(axes)[i], n)
ConvAccepts(v, w, c) ==
    LET cc == ConvResolved(c, Rank(v))
    IN ConvNamed(c, Rank(v)) /\ Rank(w) = Rank(v) /\ ConvShaped(cc, Rank(v)) /\ ConvSized(v, w, cc)

\* The places of the kernel along an axis, and the dimensions with them.
ConvAxis(axes, n, k) == AdjustAxis(axes[3][k], n) + 1
ConvPlaces(x, y, c, k) ==
    LET pads == Last0(c.paddings, k, <<0, 0>>)
    IN Placed(pads[1] + pads[2] + Spread(x.dims[ConvAxis(c.input, Rank(x), k)], Last0(c.inputDilations, k, 1)),
              Spread(y.dims[ConvAxis(c.kernel, Rank(x), k)], Last0(c.kernelDilations, k, 1)), Last0(c.strides, k, 1))
ConvCounts(x, y, c, d) ==
    [i \in DOMAIN d |->
        IF \E k \in DOMAIN c.output[3] : ConvAxis(c.output, Rank(x), k) = i
        THEN ConvPlaces(x, y, c, CHOOSE k \in DOMAIN c.output[3] : ConvAxis(c.output, Rank(x), k) = i) ELSE d[i]]

LEMMA ConvolutionCases ==
    ASSUME NEW v, NEW w, NEW c
    PROVE  Convolution(v, w, c) = IF ConvPanics(v, c) THEN Panic
                                  ELSE Guard(ConvAccepts(v, w, c), Ok1(WithDims(v, ConvDims(v, w, ConvResolved(c, Rank(v))))))
<1> DEFINE cc == ConvResolved(c, Rank(v))
           out == Ok1(WithDims(v, ConvDims(v, w, cc)))
           g == Rank(w) = Rank(v) /\ ConvShaped(cc, Rank(v)) /\ ConvSized(v, w, cc)
<1>1. Convolution(v, w, c) = IF ConvPanics(v, c) THEN Panic ELSE Guard(ConvNamed(c, Rank(v)), Convolve(v, w, cc))
  BY Zenon DEF Convolution, ConvPanics, ConvNamed, ConvResolved, ConvAdjusted
<1> HIDE DEF cc
<1> DEFINE check == /\ Rank(v) >= 3 /\ Rank(w) = Rank(v)
                    /\ AxesConfig(cc.input, Rank(v)) /\ AxesConfig(cc.kernel, Rank(v)) /\ AxesConfig(cc.output, Rank(v))
                    /\ {Len(cc.strides), Len(cc.paddings), Len(cc.inputDilations), Len(cc.kernelDilations)} = {Rank(v) - 2}
                    /\ \A k \in 1 .. Rank(v) - 2 : cc.inputDilations[k] >= 1 /\ cc.kernelDilations[k] >= 1
                    /\ cc.channelGroups >= 1 /\ cc.batchGroups >= 1 /\ 1 \in {cc.channelGroups, cc.batchGroups}
                    /\ Divides(cc.channelGroups, v.dims[cc.input[2] + 1]) /\ Divides(cc.channelGroups, w.dims[cc.kernel[2] + 1])
                    /\ SameDim(v.dims[cc.input[2] + 1],
                               w.dims[cc.kernel[1] + 1] * (IF w.dims[cc.kernel[1] + 1] = DimUnknown THEN 1 ELSE cc.channelGroups))
                    /\ Divides(cc.batchGroups, v.dims[cc.input[1] + 1]) /\ Divides(cc.batchGroups, w.dims[cc.kernel[2] + 1])
                    /\ \A k \in 1 .. Rank(v) - 2 :
                          cc.strides[k] >= 1 /\ (ConvUnknown(v, w, cc, k) \/ ConvWindow(w, cc, k) <= ConvPadded(v, cc, k))
<1>2. Convolve(v, w, cc) = Guard(check, out)
  BY Zenon DEF Convolve, ConvDims, ConvSpatial, ConvBatch, ConvUnknown, ConvWindow, ConvPadded, ConvIn, ConvKernel
<1>3. check <=> g
  BY Zenon DEF ConvShaped, ConvSized
<1> HIDE DEF check, out
<1>4. Guard(ConvNamed(c, Rank(v)), Guard(check, out)) = Guard(ConvNamed(c, Rank(v)) /\ check, out)
  BY DEF Guard
<1>5. ConvNamed(c, Rank(v)) /\ check <=> ConvAccepts(v, w, c)
  BY <1>3 DEF ConvAccepts, cc
<1>6. Guard(ConvNamed(c, Rank(v)) /\ check, out) = Guard(ConvAccepts(v, w, c), out)
  BY <1>5 DEF Guard
<1> QED
  BY <1>1, <1>2, <1>4, <1>6 DEF out, cc

LEMMA ConvolvedCases ==
    ASSUME NEW x, NEW y, NEW c
    PROVE  LET d == ConvDims(x, y, ConvResolved(c, Rank(x)))
           IN  Convolved(x, y, c) = IF ConvPanics(x, c) THEN Panic
                                    ELSE Guard(ConvAccepts(x, y, c), Ok1(WithDims(WithDims(x, d), ConvCounts(x, y, c, WithDims(x, d).dims))))
<1> DEFINE d == ConvDims(x, y, ConvResolved(c, Rank(x)))
           z == WithDims(x, d)
           e == ConvCounts(x, y, c, z.dims)
           accepted == Convolution(x, y, c)
<1>1. Convolved(x, y, c) = IF accepted.status = "ok" THEN Counted(accepted, ConvCounts(x, y, c, accepted.shapes[1].dims)) ELSE accepted
  BY Zenon DEF Convolved, ConvCounts, ConvPlaces, ConvAxis
<1>2. accepted = IF ConvPanics(x, c) THEN Panic ELSE Guard(ConvAccepts(x, y, c), Ok1(z))
  BY ConvolutionCases
<1> HIDE DEF accepted, z
<1>3. CASE ConvPanics(x, c)
  BY <1>1, <1>2, <1>3 DEF Panic
<1>4. CASE ~ConvPanics(x, c) /\ ~ConvAccepts(x, y, c)
  BY <1>1, <1>2, <1>4 DEF Error, Guard
<1>5. CASE ~ConvPanics(x, c) /\ ConvAccepts(x, y, c)
  <2>1. accepted = Ok1(z) /\ accepted.status = "ok" /\ accepted.shapes[1] = z
    BY <1>2, <1>5 DEF Guard, Ok1, Ok
  <2> HIDE DEF e
  <2>2. Counted(Guard(TRUE, Ok1(z)), e) = Guard(TRUE, Ok1(WithDims(z, e)))
    BY CountedGuard
  <2>3. Counted(Ok1(z), e) = Ok1(WithDims(z, e))
    BY <2>2 DEF Guard
  <2>4. Convolved(x, y, c) = Ok1(WithDims(z, e))
    BY <1>1, <2>1, <2>3 DEF e
  <2> QED
    BY <1>5, <2>4 DEF Guard, z, e
<1> QED
  BY <1>3, <1>4, <1>5 DEF z, e

\* The axes of a convolution are all different, for there is one for each place.
LEMMA ConvAxesFacts ==
    ASSUME NEW x \in ConvAxes, NEW n \in Nat, n >= 3, AxesConfig(ConvAdjusted(x, n), n)
    PROVE  LET axes == ConvAdjusted(x, n)
           IN  /\ axes[1] + 1 \in 1 .. n /\ axes[2] + 1 \in 1 .. n /\ DOMAIN x[3] = 1 .. n - 2
               /\ \A k \in 1 .. n - 2 : /\ axes[3][k] + 1 \in 1 .. n /\ axes[3][k] + 1 = ConvAxis(x, n, k)
                                        /\ axes[3][k] # axes[1] /\ axes[3][k] # axes[2]
               /\ \A i \in 1 .. n : i = axes[1] + 1 \/ i = axes[2] + 1 \/ \E k \in 1 .. n - 2 : axes[3][k] = i - 1
<1> DEFINE axes == ConvAdjusted(x, n)
           q == axes[3]
           T == SetOf(q)
<1>1. x[1] \in Int /\ x[2] \in Int /\ x[3] \in Seq(Int)
  BY DEF ConvAxes
<1>2. /\ axes[1] = AdjustAxis(x[1], n) /\ axes[2] = AdjustAxis(x[2], n)
      /\ q = [k \in DOMAIN x[3] |-> AdjustAxis(x[3][k], n)]
  BY DEF ConvAdjusted
<1>3. \A j \in Int : AdjustAxis(j, n) \in Int
  BY DEF AdjustAxis
<1>4. q \in Seq(Int) /\ Len(q) = Len(x[3]) /\ Len(x[3]) \in Nat /\ DOMAIN x[3] = 1 .. Len(x[3]) /\ DOMAIN q = 1 .. Len(x[3])
  <2> DEFINE y == x[3]
  <2>1. y \in Seq(Int)
    BY <1>1
  <2>2. q = [k \in DOMAIN y |-> AdjustAxis(y[k], n)]
    BY <1>2
  <2> HIDE DEF y, q
  <2>3. DOMAIN y = 1 .. Len(y) /\ Len(y) \in Nat /\ \A k \in 1 .. Len(y) : AdjustAxis(y[k], n) \in Int
    <3>1. DOMAIN y = 1 .. Len(y) /\ Len(y) \in Nat /\ \A k \in 1 .. Len(y) : y[k] \in Int
      BY <2>1
    <3> QED
      BY <1>3, <3>1
  <2>4. q \in Seq(Int) /\ Len(q) = Len(y) /\ DOMAIN q = 1 .. Len(y)
    BY <2>2, <2>3
  <2> QED
    BY <2>3, <2>4 DEF y
<1>5. Len(q) = n - 2 /\ {axes[1], axes[2]} \cup T = 0 .. n - 1
  BY DEF AxesConfig
<1> HIDE DEF axes
<1>6. DOMAIN x[3] = 1 .. n - 2 /\ DOMAIN q = 1 .. n - 2
  BY <1>4, <1>5
<1> HIDE DEF q
<1>7. T = {q[k] : k \in 1 .. n - 2}
  BY <1>6 DEF SetOf
<1>8. IsFiniteSet(T) /\ Cardinality(T) \in Nat /\ Cardinality(T) <= n - 2
  BY <1>4, <1>5, SetOfFacts
<1> HIDE DEF T
<1>9. ASSUME NEW j \in {axes[1], axes[2]}, j \in T
      PROVE  FALSE
  <2> DEFINE other == IF j = axes[1] THEN axes[2] ELSE axes[1]
             U == T \cup {other}
  <2>1. U = 0 .. n - 1
    BY <1>5, <1>9
  <2>2. Cardinality(0 .. n - 1) = n
    BY FromZero
  <2>3. Cardinality(U) <= Cardinality(T) + 1
    <3>1. IsFiniteSet({other}) /\ Cardinality({other}) = 1
      BY FS_Singleton
    <3> HIDE DEF other
    <3>2. Cardinality(T \cup {other}) <= Cardinality(T) + Cardinality({other})
      BY <1>8, <3>1, UnionBound
    <3> QED
      BY <3>1, <3>2
  <2> HIDE DEF U
  <2> QED
    BY <1>8, <2>1, <2>2, <2>3
<1>10. axes[1] \in 0 .. n - 1 /\ axes[2] \in 0 .. n - 1
  BY <1>5
<1>11. ASSUME NEW k \in 1 .. n - 2
       PROVE  q[k] \in 0 .. n - 1 /\ q[k] + 1 = ConvAxis(x, n, k) /\ q[k] # axes[1] /\ q[k] # axes[2]
  <2>1. q[k] \in T
    BY <1>7
  <2>2. q[k] \in 0 .. n - 1
    BY <1>5, <2>1
  <2>3. q[k] # axes[1] /\ q[k] # axes[2]
    BY <1>9, <2>1
  <2>4. q[k] + 1 = ConvAxis(x, n, k)
    BY <1>2, <1>6 DEF ConvAxis
  <2> QED
    BY <2>2, <2>3, <2>4
<1>12. ASSUME NEW i \in 1 .. n
       PROVE  i = axes[1] + 1 \/ i = axes[2] + 1 \/ \E k \in 1 .. n - 2 : q[k] = i - 1
  <2>1. i - 1 \in {axes[1], axes[2]} \cup T
    BY <1>5
  <2>2. i - 1 = axes[1] \/ i - 1 = axes[2] \/ \E k \in 1 .. n - 2 : q[k] = i - 1
    BY <1>7, <2>1
  <2> QED
    BY <1>10, <2>2
<1>13. \A k \in 1 .. n - 2 : q[k] + 1 \in 1 .. n
  BY <1>11
<1>14. axes[1] + 1 \in 1 .. n /\ axes[2] + 1 \in 1 .. n
  BY <1>10
<1> QED
  BY <1>6, <1>11, <1>12, <1>13, <1>14 DEF q, axes

LEMMA ConvResolvedFacts ==
    ASSUME NEW c \in ConvArguments, NEW n \in Nat, n >= 3
    PROVE  LET cc == ConvResolved(c, n)
           IN  /\ cc.strides \in Seq(Int) /\ cc.inputDilations \in Seq(Int)
               /\ cc.kernelDilations \in Seq(Int) /\ cc.paddings \in Seq(Int \X Int)
               /\ cc.channelGroups \in Int /\ cc.batchGroups \in Int
               /\ cc.input = ConvAdjusted(c.input, n) /\ cc.kernel = ConvAdjusted(c.kernel, n)
               /\ cc.output = ConvAdjusted(c.output, n)
               /\ c.input \in ConvAxes /\ c.kernel \in ConvAxes /\ c.output \in ConvAxes
               /\ \A k \in 1 .. n - 2 : /\ cc.strides[k] = Last0(c.strides, k, 1)
                                        /\ cc.inputDilations[k] = Last0(c.inputDilations, k, 1)
                                        /\ cc.kernelDilations[k] = Last0(c.kernelDilations, k, 1)
                                        /\ cc.paddings[k] = Last0(c.paddings, k, <<0, 0>>)
<1> DEFINE cc == ConvResolved(c, n)
           m == n - 2
<1>1. /\ c.strides \in Seq(Int) /\ c.inputDilations \in Seq(Int) /\ c.kernelDilations \in Seq(Int)
      /\ c.paddings \in Seq(Int \X Int) /\ c.channelGroups \in Int /\ c.batchGroups \in Int
      /\ c.input \in ConvAxes /\ c.kernel \in ConvAxes /\ c.output \in ConvAxes
      /\ 1 \in Int /\ <<0, 0>> \in Int \X Int /\ m \in Nat
  BY DEF ConvArguments
<1>2. /\ cc.strides = OrDefault(c.strides, Repeat(1, m)) /\ cc.inputDilations = OrDefault(c.inputDilations, Repeat(1, m))
      /\ cc.kernelDilations = OrDefault(c.kernelDilations, Repeat(1, m))
      /\ cc.paddings = OrDefault(c.paddings, Repeat(<<0, 0>>, m))
      /\ cc.channelGroups = c.channelGroups /\ cc.batchGroups = c.batchGroups
      /\ cc.input = ConvAdjusted(c.input, n) /\ cc.kernel = ConvAdjusted(c.kernel, n)
      /\ cc.output = ConvAdjusted(c.output, n)
  BY DEF ConvResolved, ConvArguments
<1> HIDE DEF m, cc
<1>3. 1 \in Int /\ m \in Nat /\ c.strides \in Seq(Int) /\ c.inputDilations \in Seq(Int) /\ c.kernelDilations \in Seq(Int)
  BY <1>1
<1>4. ASSUME NEW list \in Seq(Int)
      PROVE  /\ OrDefault(list, Repeat(1, m)) \in Seq(Int)
             /\ \A k \in 1 .. m : OrDefault(list, Repeat(1, m))[k] = Last0(list, k, 1)
  BY <1>3, DefaultFacts
<1>5. ASSUME NEW list \in {c.strides, c.inputDilations, c.kernelDilations}
      PROVE  /\ OrDefault(list, Repeat(1, m)) \in Seq(Int)
             /\ \A k \in 1 .. m : OrDefault(list, Repeat(1, m))[k] = Last0(list, k, 1)
  BY <1>3, <1>4
<1>6. /\ OrDefault(c.paddings, Repeat(<<0, 0>>, m)) \in Seq(Int \X Int)
      /\ \A k \in 1 .. m : OrDefault(c.paddings, Repeat(<<0, 0>>, m))[k] = Last0(c.paddings, k, <<0, 0>>)
  BY <1>1, DefaultFacts
<1> QED
  BY <1>1, <1>2, <1>5, <1>6 DEF cc, m

\* What an accepted convolution says of its operands and arguments.
LEMMA ConvFacts ==
    ASSUME NEW s, NEW a, NEW t, NEW b, Operand(s, a), Operand(t, b), NEW c \in ConvArguments, ConvAccepts(a, b, c)
    PROVE  LET n == Rank(a)
               cc == ConvResolved(c, n)
           IN  /\ n \in Nat /\ n >= 3 /\ Rank(s) = n /\ Rank(b) = n /\ Rank(t) = n
               /\ cc.input[1] + 1 \in 1 .. n /\ cc.input[2] + 1 \in 1 .. n
               /\ cc.kernel[1] + 1 \in 1 .. n /\ cc.kernel[2] + 1 \in 1 .. n
               /\ cc.channelGroups \in Nat /\ cc.channelGroups >= 1 /\ cc.batchGroups \in Nat /\ cc.batchGroups >= 1
               /\ \A j \in 1 .. n : /\ s.dims[j] \in {DimUnknown, a.dims[j]} /\ a.dims[j] \in Nat /\ a.dims[j] >= 1
                                    /\ t.dims[j] \in {DimUnknown, b.dims[j]} /\ b.dims[j] \in Nat /\ b.dims[j] >= 1
                                    /\ a.dims[j] # DimUnknown /\ b.dims[j] # DimUnknown
               /\ \A k \in 1 .. n - 2 :
                     /\ cc.input[3][k] + 1 \in 1 .. n /\ cc.input[3][k] + 1 = ConvAxis(c.input, n, k)
                     /\ cc.kernel[3][k] + 1 \in 1 .. n /\ cc.kernel[3][k] + 1 = ConvAxis(c.kernel, n, k)
                     /\ cc.strides[k] \in Nat /\ cc.strides[k] >= 1 /\ cc.strides[k] = Last0(c.strides, k, 1)
                     /\ cc.inputDilations[k] \in Nat /\ cc.inputDilations[k] >= 1
                     /\ cc.inputDilations[k] = Last0(c.inputDilations, k, 1)
                     /\ cc.kernelDilations[k] \in Nat /\ cc.kernelDilations[k] >= 1
                     /\ cc.kernelDilations[k] = Last0(c.kernelDilations, k, 1)
                     /\ cc.paddings[k][1] \in Int /\ cc.paddings[k][2] \in Int
                     /\ cc.paddings[k] = Last0(c.paddings, k, <<0, 0>>)
<1> DEFINE n == Rank(a)
           cc == ConvResolved(c, n)
<1>1. n \in Nat /\ Rank(s) = n /\ Rank(b) = n /\ Rank(t) = n /\ ConvShaped(cc, n) /\ ConvSized(a, b, cc)
  BY OperandFacts DEF ConvAccepts
<1>2. n >= 3
  BY <1>1 DEF ConvShaped
<1>3. \A j \in 1 .. n : /\ s.dims[j] \in {DimUnknown, a.dims[j]} /\ a.dims[j] \in Nat /\ a.dims[j] >= 1
                        /\ t.dims[j] \in {DimUnknown, b.dims[j]} /\ b.dims[j] \in Nat /\ b.dims[j] >= 1
                        /\ a.dims[j] # DimUnknown /\ b.dims[j] # DimUnknown
  BY <1>1, OperandFacts DEF DimUnknown
<1> HIDE DEF n
<1>4. /\ cc.strides \in Seq(Int) /\ cc.inputDilations \in Seq(Int)
      /\ cc.kernelDilations \in Seq(Int) /\ cc.paddings \in Seq(Int \X Int)
      /\ cc.channelGroups \in Int /\ cc.batchGroups \in Int
      /\ cc.input = ConvAdjusted(c.input, n) /\ cc.kernel = ConvAdjusted(c.kernel, n)
      /\ c.input \in ConvAxes /\ c.kernel \in ConvAxes
      /\ \A k \in 1 .. n - 2 : /\ cc.strides[k] = Last0(c.strides, k, 1)
                               /\ cc.inputDilations[k] = Last0(c.inputDilations, k, 1)
                               /\ cc.kernelDilations[k] = Last0(c.kernelDilations, k, 1)
                               /\ cc.paddings[k] = Last0(c.paddings, k, <<0, 0>>)
  BY <1>1, <1>2, ConvResolvedFacts
<1> HIDE DEF cc
<1>5. /\ Len(cc.strides) = n - 2 /\ Len(cc.paddings) = n - 2 /\ Len(cc.inputDilations) = n - 2 /\ Len(cc.kernelDilations) = n - 2
      /\ \A k \in 1 .. n - 2 : cc.inputDilations[k] >= 1 /\ cc.kernelDilations[k] >= 1
      /\ AxesConfig(cc.input, n) /\ AxesConfig(cc.kernel, n)
      /\ cc.channelGroups >= 1 /\ cc.batchGroups >= 1
  BY <1>1 DEF ConvShaped
<1>6. \A k \in 1 .. n - 2 : cc.strides[k] >= 1
  BY <1>1 DEF ConvSized, n
<1>6a. /\ n \in Nat /\ n >= 3 /\ c.input \in ConvAxes /\ c.kernel \in ConvAxes
       /\ AxesConfig(ConvAdjusted(c.input, n), n) /\ AxesConfig(ConvAdjusted(c.kernel, n), n)
       /\ cc.input = ConvAdjusted(c.input, n) /\ cc.kernel = ConvAdjusted(c.kernel, n)
  BY <1>1, <1>2, <1>4, <1>5
<1>7. /\ cc.input[1] + 1 \in 1 .. n /\ cc.input[2] + 1 \in 1 .. n
      /\ \A k \in 1 .. n - 2 : cc.input[3][k] + 1 \in 1 .. n /\ cc.input[3][k] + 1 = ConvAxis(c.input, n, k)
  BY <1>6a, ConvAxesFacts
<1>8. /\ cc.kernel[1] + 1 \in 1 .. n /\ cc.kernel[2] + 1 \in 1 .. n
      /\ \A k \in 1 .. n - 2 : cc.kernel[3][k] + 1 \in 1 .. n /\ cc.kernel[3][k] + 1 = ConvAxis(c.kernel, n, k)
  BY <1>6a, ConvAxesFacts
<1>9. ASSUME NEW k \in 1 .. n - 2
      PROVE  cc.paddings[k][1] \in Int /\ cc.paddings[k][2] \in Int
  BY <1>4, <1>5, PairAt
<1>10. ASSUME NEW k \in 1 .. n - 2
       PROVE  cc.strides[k] \in Int /\ cc.inputDilations[k] \in Int /\ cc.kernelDilations[k] \in Int
  <2>1. \A q \in Seq(Int) : Len(q) = n - 2 => q[k] \in Int
    OBVIOUS
  <2> QED
    BY <1>4, <1>5, <2>1, Zenon
<1>11. \A k \in 1 .. n - 2 : cc.strides[k] \in Nat /\ cc.inputDilations[k] \in Nat /\ cc.kernelDilations[k] \in Nat
  BY <1>5, <1>6, <1>10
<1>12. cc.channelGroups \in Nat /\ cc.batchGroups \in Nat
  BY <1>4, <1>5
<1> QED
  BY <1>1, <1>2, <1>3, <1>4, <1>5, <1>6, <1>7, <1>8, <1>9, <1>11, <1>12 DEF cc, n

LEMMA ConvAccepted ==
    ASSUME NEW s, NEW a, NEW t, NEW b, Operand(s, a), Operand(t, b), NEW c \in ConvArguments, ConvAccepts(a, b, c)
    PROVE  ConvAccepts(s, t, c)
<1> DEFINE n == Rank(a)
           cc == ConvResolved(c, n)
<1>1. /\ n \in Nat /\ n >= 3 /\ Rank(s) = n /\ Rank(b) = n /\ Rank(t) = n
      /\ cc.input[1] + 1 \in 1 .. n /\ cc.input[2] + 1 \in 1 .. n
      /\ cc.kernel[1] + 1 \in 1 .. n /\ cc.kernel[2] + 1 \in 1 .. n
      /\ cc.channelGroups \in Nat
  BY ConvFacts
<1>2. \A j \in 1 .. n : /\ s.dims[j] \in {DimUnknown, a.dims[j]} /\ a.dims[j] \in Nat
                        /\ t.dims[j] \in {DimUnknown, b.dims[j]} /\ b.dims[j] \in Nat
                        /\ a.dims[j] # DimUnknown /\ b.dims[j] # DimUnknown
  BY ConvFacts
<1>3. \A k \in 1 .. n - 2 : cc.input[3][k] + 1 \in 1 .. n /\ cc.kernel[3][k] + 1 \in 1 .. n
  BY ConvFacts
<1>4. ConvNamed(c, n) /\ ConvShaped(cc, n) /\ ConvSized(a, b, cc)
  BY DEF ConvAccepts
<1> HIDE DEF cc, n
<1>5. \A g, j : j \in 1 .. n /\ Divides(g, a.dims[j]) => Divides(g, s.dims[j])
  BY <1>2 DEF Divides
<1>6. \A g, j : j \in 1 .. n /\ Divides(g, b.dims[j]) => Divides(g, t.dims[j])
  BY <1>2 DEF Divides
<1>7. SameDim(s.dims[cc.input[2] + 1],
              t.dims[cc.kernel[1] + 1] * (IF t.dims[cc.kernel[1] + 1] = DimUnknown THEN 1 ELSE cc.channelGroups))
  <2> DEFINE x == s.dims[cc.input[2] + 1]
             x2 == a.dims[cc.input[2] + 1]
             y == t.dims[cc.kernel[1] + 1]
             y2 == b.dims[cc.kernel[1] + 1]
  <2>1. SameDim(x2, y2 * (IF y2 = DimUnknown THEN 1 ELSE cc.channelGroups))
    BY <1>4 DEF ConvSized
  <2>2. x \in {DimUnknown, x2} /\ y \in {DimUnknown, y2} /\ x2 \in Nat /\ y2 \in Nat /\ x2 # DimUnknown /\ y2 # DimUnknown
    BY <1>1, <1>2
  <2> HIDE DEF x, x2, y, y2
  <2>3. y2 * cc.channelGroups \in Nat
    BY <1>1, <2>2, TimesMonotone
  <2>4. x2 = y2 * cc.channelGroups
    BY <2>1, <2>2, <2>3 DEF SameDim, DimUnknown
  <2>5. CASE y = DimUnknown
    BY <2>5 DEF SameDim, DimUnknown, x, y
  <2>6. CASE x = DimUnknown
    BY <2>6 DEF SameDim, x
  <2>7. CASE x = x2 /\ y = y2
    BY <2>2, <2>4, <2>7 DEF SameDim, x, y
  <2> QED
    BY <2>2, <2>5, <2>6, <2>7
<1>8. ASSUME NEW k \in 1 .. n - 2
      PROVE  cc.strides[k] >= 1 /\ (ConvUnknown(s, t, cc, k) \/ ConvWindow(t, cc, k) <= ConvPadded(s, cc, k))
  <2>1. cc.strides[k] >= 1 /\ (ConvUnknown(a, b, cc, k) \/ ConvWindow(b, cc, k) <= ConvPadded(a, cc, k))
    BY <1>4 DEF ConvSized, n
  <2>2. ~ConvUnknown(a, b, cc, k)
    BY <1>2, <1>3 DEF ConvUnknown, ConvIn, ConvKernel
  <2>3. ConvUnknown(s, t, cc, k) \/ (ConvIn(s, cc, k) = ConvIn(a, cc, k) /\ ConvKernel(t, cc, k) = ConvKernel(b, cc, k))
    BY <1>2, <1>3 DEF ConvUnknown, ConvIn, ConvKernel
  <2> QED
    BY <2>1, <2>2, <2>3 DEF ConvWindow, ConvPadded
<1>9. ConvSized(s, t, cc)
  <2>1. /\ Divides(cc.channelGroups, a.dims[cc.input[2] + 1]) /\ Divides(cc.channelGroups, b.dims[cc.kernel[2] + 1])
        /\ Divides(cc.batchGroups, a.dims[cc.input[1] + 1]) /\ Divides(cc.batchGroups, b.dims[cc.kernel[2] + 1])
    BY <1>4 DEF ConvSized
  <2>2. /\ Divides(cc.channelGroups, s.dims[cc.input[2] + 1]) /\ Divides(cc.channelGroups, t.dims[cc.kernel[2] + 1])
        /\ Divides(cc.batchGroups, s.dims[cc.input[1] + 1]) /\ Divides(cc.batchGroups, t.dims[cc.kernel[2] + 1])
    BY <1>1, <1>5, <1>6, <2>1
  <2> QED
    BY <1>1, <1>7, <1>8, <2>2 DEF ConvSized
<1> QED
  BY <1>1, <1>4, <1>9 DEF ConvAccepts, cc, n

\* The dimension along an axis of the kernel.
LEMMA ConvSpatialTold ==
    ASSUME NEW s, NEW a, NEW t, NEW b, Operand(s, a), Operand(t, b), NEW c \in ConvArguments, ConvAccepts(a, b, c),
           NEW k \in 1 .. Rank(a) - 2
    PROVE  LET cc == ConvResolved(c, Rank(a))
           IN  ConvPlaces(a, b, c, k) \in Int /\ ConvSpatial(s, t, cc, k) \in {DimUnknown, ConvPlaces(a, b, c, k)}
<1> DEFINE n == Rank(a)
           cc == ConvResolved(c, n)
           i == cc.input[3][k] + 1
           j == cc.kernel[3][k] + 1
           dim == a.dims[i]
           dilation == cc.inputDilations[k]
           low == cc.paddings[k][1]
           high == cc.paddings[k][2]
           window == b.dims[j]
           windowDilation == cc.kernelDilations[k]
           stride == cc.strides[k]
           count == WindowDim(Dilated(dim, dilation) + low + high, Dilated(window, windowDilation), stride)
<1>1. n \in Nat /\ k \in 1 .. n - 2
  BY OperandFacts
<1>2. /\ i \in 1 .. n /\ i = ConvAxis(c.input, n, k) /\ j \in 1 .. n /\ j = ConvAxis(c.kernel, n, k)
      /\ stride \in Nat /\ stride >= 1 /\ stride = Last0(c.strides, k, 1)
      /\ dilation \in Nat /\ dilation >= 1 /\ dilation = Last0(c.inputDilations, k, 1)
      /\ windowDilation \in Nat /\ windowDilation >= 1 /\ windowDilation = Last0(c.kernelDilations, k, 1)
      /\ low \in Int /\ high \in Int /\ cc.paddings[k] = Last0(c.paddings, k, <<0, 0>>)
  BY <1>1, ConvFacts
<1>3. /\ s.dims[i] \in {DimUnknown, dim} /\ dim \in Nat /\ dim >= 1 /\ dim # DimUnknown
      /\ t.dims[j] \in {DimUnknown, window} /\ window \in Nat /\ window >= 1 /\ window # DimUnknown
  <2>1. i \in 1 .. n /\ j \in 1 .. n
    BY <1>2
  <2> HIDE DEF i, j
  <2> QED
    BY <2>1, ConvFacts
<1> HIDE DEF n
<1>4. ConvPlaces(a, b, c, k) = Placed(low + high + Spread(dim, dilation), Spread(window, windowDilation), stride)
  BY <1>2 DEF ConvPlaces, n
<1>5. Dilated(window, windowDilation) <= Dilated(dim, dilation) + low + high
  <2>1. ConvSized(a, b, cc)
    BY DEF ConvAccepts, n
  <2>2. ConvUnknown(a, b, cc, k) \/ ConvWindow(b, cc, k) <= ConvPadded(a, cc, k)
    BY <1>1, <2>1 DEF ConvSized, n
  <2>3. ~ConvUnknown(a, b, cc, k)
    BY <1>3 DEF ConvUnknown, ConvIn, ConvKernel
  <2> QED
    BY <2>2, <2>3 DEF ConvWindow, ConvPadded, ConvIn, ConvKernel
<1>6. ConvSpatial(s, t, cc, k) = IF DimUnknown \in {s.dims[i], t.dims[j]} THEN DimUnknown
                                 ELSE WindowDim(Dilated(s.dims[i], dilation) + low + high, Dilated(t.dims[j], windowDilation), stride)
  BY DEF ConvSpatial, ConvUnknown, ConvIn, ConvKernel, ConvPadded, ConvWindow
<1> HIDE DEF cc, i, j, dim, dilation, low, high, window, windowDilation, stride
<1>7. Placed(low + high + Spread(dim, dilation), Spread(window, windowDilation), stride) = count /\ count \in Nat
  BY <1>2, <1>3, <1>5, PlacesCount
<1>8. ConvSpatial(s, t, cc, k) \in {DimUnknown, count}
  BY <1>3, <1>6
<1> HIDE DEF count
<1> QED
  BY <1>4, <1>7, <1>8 DEF cc, n

LEMMA ConvCountsTold ==
    ASSUME NEW s, NEW a, NEW t, NEW b, Operand(s, a), Operand(t, b), NEW c \in ConvArguments, ConvAccepts(a, b, c)
    PROVE  LET cc == ConvResolved(c, Rank(a))
           IN  Tells(ConvDims(s, t, cc), ConvCounts(a, b, c, ConvDims(a, b, cc)))
<1> DEFINE n == Rank(a)
           cc == ConvResolved(c, n)
           d == ConvDims(s, t, cc)
           f == ConvDims(a, b, cc)
           e == ConvCounts(a, b, c, f)
           At(i, k) == cc.output[3][k] = i - 1
           Chosen(i) == CHOOSE k \in 1 .. n - 2 : At(i, k)
           named(i) == \E k \in DOMAIN c.output[3] : ConvAxis(c.output, n, k) = i
           pick(i) == CHOOSE k \in DOMAIN c.output[3] : ConvAxis(c.output, n, k) = i
<1>1. n \in Nat /\ n >= 3 /\ Rank(s) = n
  BY ConvFacts
<1>2. /\ cc.output[1] + 1 \in 1 .. n /\ cc.output[2] + 1 \in 1 .. n /\ DOMAIN c.output[3] = 1 .. n - 2
      /\ \A k \in 1 .. n - 2 : /\ cc.output[3][k] + 1 \in 1 .. n /\ cc.output[3][k] + 1 = ConvAxis(c.output, n, k)
                               /\ cc.output[3][k] # cc.output[1] /\ cc.output[3][k] # cc.output[2]
      /\ \A i \in 1 .. n : i = cc.output[1] + 1 \/ i = cc.output[2] + 1 \/ \E k \in 1 .. n - 2 : At(i, k)
  <2>1. cc.output = ConvAdjusted(c.output, n) /\ c.output \in ConvAxes
    BY <1>1, ConvResolvedFacts
  <2>2. AxesConfig(cc.output, n)
    BY DEF ConvAccepts, ConvShaped
  <2> HIDE DEF n, cc
  <2> QED
    BY <1>1, <2>1, <2>2, ConvAxesFacts
<1> DEFINE o == cc.output
<1> HIDE DEF o
<1>3. /\ \A k \in 1 .. n - 2 : o[3][k] + 1 \in 1 .. n /\ o[3][k] + 1 = ConvAxis(c.output, n, k) /\ o[3][k] # o[1] /\ o[3][k] # o[2]
      /\ o[1] + 1 \in 1 .. n /\ o[2] + 1 \in 1 .. n
  BY <1>2 DEF o
<1>4. o[1] \in Int /\ o[2] \in Int /\ \A k \in 1 .. n - 2 : o[3][k] \in Int
  <2>0. o[1] \in Int /\ o[2] \in Int
    <3>1. c.output \in ConvAxes /\ cc.output = ConvAdjusted(c.output, n)
      BY <1>1, ConvResolvedFacts
    <3>2. c.output[1] \in Int /\ c.output[2] \in Int
      BY <3>1 DEF ConvAxes
    <3>3. o[1] = AdjustAxis(c.output[1], n) /\ o[2] = AdjustAxis(c.output[2], n)
      BY <3>1 DEF o, ConvAdjusted
    <3> QED
      BY <1>1, <3>2, <3>3 DEF AdjustAxis
  <2>1. ASSUME NEW k \in 1 .. n - 2
        PROVE  o[3][k] \in Int
    <3>1. c.output \in ConvAxes /\ cc.output = ConvAdjusted(c.output, n)
      BY <1>1, ConvResolvedFacts
    <3>2. c.output[3] \in Seq(Int) /\ k \in DOMAIN c.output[3]
      BY <1>2, <3>1 DEF ConvAxes
    <3>3. c.output[3][k] \in Int
      BY <3>2
    <3>4. o[3][k] = AdjustAxis(c.output[3][k], n)
      BY <3>1, <3>2 DEF o, ConvAdjusted
    <3> QED
      BY <1>1, <3>3, <3>4 DEF AdjustAxis
  <2> QED
    BY <2>0, <2>1
<1>5. \A i \in 1 .. n, k \in 1 .. n - 2 : At(i, k) <=> ConvAxis(c.output, n, k) = i
  BY <1>3, <1>4 DEF o
<1>5a. \A i \in 1 .. n, k \in 1 .. n - 2 : At(i, k) => i # o[1] + 1 /\ i # o[2] + 1
  BY <1>3, <1>4 DEF o
<1>6. /\ d = [i \in 1 .. n |-> IF i = o[1] + 1 THEN ConvBatch(s, cc) ELSE IF i = o[2] + 1 THEN t.dims[cc.kernel[2] + 1]
                               ELSE ConvSpatial(s, t, cc, Chosen(i))]
      /\ f = [i \in 1 .. n |-> IF i = o[1] + 1 THEN ConvBatch(a, cc) ELSE IF i = o[2] + 1 THEN b.dims[cc.kernel[2] + 1]
                               ELSE ConvSpatial(a, b, cc, Chosen(i))]
  BY <1>1 DEF ConvDims, o
<1> HIDE DEF At, f
<1>7. e = [i \in 1 .. n |-> IF named(i) THEN ConvPlaces(a, b, c, pick(i)) ELSE f[i]]
  <2>1. DOMAIN f = 1 .. n
    BY <1>6
  <2> QED
    BY <2>1, Zenon DEF ConvCounts
<1>8. ASSUME NEW i \in 1 .. n
      PROVE  e[i] \in Int /\ d[i] \in {DimUnknown, e[i]}
  <2>1. e[i] = IF named(i) THEN ConvPlaces(a, b, c, pick(i)) ELSE f[i]
    BY <1>7
  <2>2. named(i) <=> \E k \in 1 .. n - 2 : At(i, k)
    BY <1>2, <1>5
  <2> HIDE DEF e, d, cc
  <2>3. CASE i = o[1] + 1
    <3>1. ~named(i)
      BY <1>5a, <2>2, <2>3
    <3>2. e[i] = ConvBatch(a, cc) /\ d[i] = ConvBatch(s, cc)
      BY <1>6, <2>1, <2>3, <3>1
    <3>3. /\ cc.input[1] + 1 \in 1 .. n /\ cc.batchGroups \in Nat /\ cc.batchGroups >= 1
      BY ConvFacts DEF cc
    <3>4. /\ s.dims[cc.input[1] + 1] \in {DimUnknown, a.dims[cc.input[1] + 1]} /\ a.dims[cc.input[1] + 1] \in Nat
          /\ a.dims[cc.input[1] + 1] # DimUnknown
      BY <3>3, ConvFacts
    <3>5. a.dims[cc.input[1] + 1] \div cc.batchGroups \in Int
      BY <3>3, <3>4, DivisionFacts
    <3> QED
      BY <3>2, <3>4, <3>5 DEF ConvBatch
  <2>4. CASE i # o[1] + 1 /\ i = o[2] + 1
    <3>1. ~named(i)
      BY <1>5a, <2>2, <2>4
    <3>2. e[i] = b.dims[cc.kernel[2] + 1] /\ d[i] = t.dims[cc.kernel[2] + 1]
      BY <1>6, <2>1, <2>4, <3>1
    <3>3. cc.kernel[2] + 1 \in 1 .. n
      BY ConvFacts DEF cc
    <3>4. t.dims[cc.kernel[2] + 1] \in {DimUnknown, b.dims[cc.kernel[2] + 1]} /\ b.dims[cc.kernel[2] + 1] \in Nat
      BY <3>3, ConvFacts
    <3> QED
      BY <3>2, <3>4
  <2>5. CASE i # o[1] + 1 /\ i # o[2] + 1
    <3>1. \E k \in 1 .. n - 2 : At(i, k)
      BY <1>2, <2>5 DEF o
    <3>2. pick(i) = Chosen(i)
      <4>1. {k \in DOMAIN c.output[3] : ConvAxis(c.output, n, k) = i} = {k \in 1 .. n - 2 : At(i, k)}
        BY <1>2, <1>5
      <4>2. \A k : (k \in DOMAIN c.output[3] /\ ConvAxis(c.output, n, k) = i) <=> (k \in 1 .. n - 2 /\ At(i, k))
        BY <1>2, <1>5
      <4> QED
        BY <4>2, Zenon
    <3>3. Chosen(i) \in 1 .. n - 2
      BY <3>1
    <3> DEFINE k == Chosen(i)
    <3>4. e[i] = ConvPlaces(a, b, c, k) /\ d[i] = ConvSpatial(s, t, cc, k)
      BY <1>6, <2>1, <2>2, <2>5, <3>1, <3>2
    <3>5. k \in 1 .. n - 2
      BY <3>3
    <3> HIDE DEF k
    <3> QED
      BY <3>4, <3>5, ConvSpatialTold DEF cc
  <2> QED
    BY <2>3, <2>4, <2>5
<1>9. d = [i \in 1 .. n |-> d[i]] /\ e = [i \in 1 .. n |-> e[i]]
  BY <1>6, <1>7
<1> HIDE DEF d, e, n
<1>10. Tells(d, e)
  BY <1>1, <1>8, <1>9, ListsTell
<1> QED
  BY <1>10 DEF d, e, f, cc, n

LEMMA ConvolutionAgree ==
    ASSUME NEW s, NEW a, NEW t, NEW b, Operand(s, a), Operand(t, b), NEW c \in ConvArguments
    PROVE  Agree(Convolution(s, t, c), Convolved(a, b, c))
<1> DEFINE cc == ConvResolved(c, Rank(a))
           d == ConvDims(s, t, cc)
           f == ConvDims(a, b, cc)
           g == ConvAccepts(s, t, c)
           h == ConvAccepts(a, b, c)
           e == ConvCounts(a, b, c, f)
<1>1. Rank(s) = Rank(a) /\ s.dtype = a.dtype /\ s \in Values /\ a \in Values
  BY OperandFacts
<1>2. ConvPanics(s, c) <=> ConvPanics(a, c)
  BY <1>1 DEF ConvPanics
<1>3. Convolution(s, t, c) = IF ConvPanics(s, c) THEN Panic ELSE Guard(g, Ok1(WithDims(s, d)))
  BY <1>1, ConvolutionCases
<1>4. Convolved(a, b, c) = IF ConvPanics(a, c) THEN Panic ELSE Guard(h, Ok1(WithDims(WithDims(a, f), ConvCounts(a, b, c, WithDims(a, f).dims))))
  BY ConvolvedCases
<1>5. WithDims(a, f).dims = f /\ WithDims(WithDims(a, f), e) = WithDims(a, e)
  BY <1>1 DEF WithDims, Values
<1>6. g \in BOOLEAN /\ h \in BOOLEAN
  BY DEF ConvAccepts, ConvNamed, ConvShaped
<1>7. h => g
  BY ConvAccepted
<1>8. ASSUME h
      PROVE  Describes(WithDims(s, d), WithDims(a, e))
  <2>1. Tells(d, e)
    BY <1>8, ConvCountsTold
  <2> QED
    BY <1>1, <2>1, WithDimsDescribes
<1>9. CASE ConvPanics(a, c)
  BY <1>2, <1>3, <1>4, <1>9 DEF Agree, Sure, True, Panic
<1>10. CASE ~ConvPanics(a, c)
  <2>1. Convolved(a, b, c) = Guard(h, Ok1(WithDims(a, e))) /\ Convolution(s, t, c) = Guard(g, Ok1(WithDims(s, d)))
    BY <1>2, <1>3, <1>4, <1>5, <1>10
  <2> HIDE DEF g, h, d, e
  <2> QED
    BY <1>6, <1>7, <1>8, <2>1, AgreeOne
<1> QED
  BY <1>9, <1>10

-------------------------------------------------------------------------------
(* Shapes known at run time, and control flow. *)

LEMMA BoundedAgree ==
    ASSUME NEW t \in DTypes, NEW bounds \in Bounds, MaxDim \in Nat, NEW s \in Within(t, bounds)
    PROVE  Agree(Ok1(Bounded(t, bounds)), Ok1(s))
<1> DEFINE n == Len(bounds)
<1>1. bounds \in Seq(Int) /\ n \in Nat
  <2>1. bounds = <<2>> \/ bounds = <<2, 3>> \/ bounds = <<4>> \/ bounds = <<1, 2, 5>>
    BY DEF Bounds
  <2>2. CASE bounds = <<2>>
    BY <2>2
  <2>3. CASE bounds = <<2, 3>>
    BY <2>3
  <2>4. CASE bounds = <<4>>
    BY <2>4
  <2>5. CASE bounds = <<1, 2, 5>>
    BY <2>5
  <2> QED
    BY <2>1, <2>2, <2>3, <2>4, <2>5
<1>2. PICK e \in Dims(n) : s = Shape(t, e)
  BY DEF Within
<1> HIDE DEF n
<1>3. e \in [1 .. n -> Int]
  BY <1>2 DEF Dims
<1> DEFINE d == Repeat(DimUnknown, n)
<1>4. d = [i \in 1 .. n |-> d[i]] /\ e = [i \in 1 .. n |-> e[i]]
  BY <1>1, <1>3 DEF Repeat
<1>5. \A i \in 1 .. n : e[i] \in Int /\ d[i] \in {DimUnknown, e[i]}
  BY <1>1, <1>3, RepeatFacts
<1> HIDE DEF d
<1>6. Tells(d, e)
  BY <1>1, <1>4, <1>5, ListsTell
<1>7. Describes(Bounded(t, bounds), Shape(t, e))
  BY <1>1, <1>6 DEF Describes, Covers, CoversDim, Values, Shape, Rank, Tells, Bounded, d, n
<1> QED
  BY <1>2, <1>7, AgreeOk

LEMMA DynamicSliceAgree ==
    ASSUME NEW s, NEW a, Operand(s, a), NEW sizes \in [DOMAIN a.dims -> {1, 2}], NEW h \in BOOLEAN
    PROVE  Agree(DynamicSlice(s, sizes), IF h THEN Ok1(Shape(a.dtype, sizes)) ELSE Error)
<1> DEFINE n == Rank(a)
           d == [i \in DOMAIN s.dims |-> IF i \in DOMAIN sizes THEN sizes[i] ELSE s.dims[i]]
<1>1. /\ n \in Nat /\ DOMAIN s.dims = 1 .. n /\ DOMAIN a.dims = 1 .. n /\ s.dtype = a.dtype /\ s.dtype \in DTypes
      /\ s \in Values /\ a \in Values
  BY OperandFacts DEF Values
<1>2. d = sizes /\ sizes = [i \in 1 .. n |-> sizes[i]] /\ \A i \in 1 .. n : sizes[i] \in Int
  BY <1>1
<1>3. Tells(sizes, sizes)
  BY <1>1, <1>2, ListsTell
<1>4. Describes(WithDims(s, sizes), WithDims(Shape(a.dtype, sizes), sizes))
  <2>1. Shape(a.dtype, sizes) \in Values /\ Shape(a.dtype, sizes).dtype = s.dtype
    BY <1>1, <1>3 DEF Shape, Values, Tells
  <2> QED
    BY <1>1, <1>3, <2>1, WithDimsDescribes
<1>5. WithDims(Shape(a.dtype, sizes), sizes) = Shape(a.dtype, sizes)
  BY DEF WithDims, Shape
<1>6. DynamicSlice(s, sizes) = Ok1(WithDims(s, sizes))
  BY <1>2 DEF DynamicSlice
<1>7. Agree(Ok1(WithDims(s, sizes)), Ok1(Shape(a.dtype, sizes)))
  BY <1>4, <1>5, AgreeOk
<1> QED
  BY <1>6, <1>7 DEF Agree, Sure, True, Error

LEMMA OneCompatible ==
    ASSUME NEW v, NEW w
    PROVE  AllCompatible(<<v>>, <<w>>) <=> ShapesCompatible(v, w)
  BY DEF AllCompatible

\* Both branches, or a loop and its body, return values of one inferred shape.
LEMMA IfAgree ==
    ASSUME NEW p, NEW q, NEW s, NEW a, NEW b, Operand(p, q), Operand(s, a), Operand(s, b), NEW v \in {a, b}
    PROVE  Agree(If(p, << >>, <<s>>, << >>, <<s>>),
                 IF IsScalar(q) /\ q.dtype = "bool" /\ a.dtype = b.dtype THEN Ok1(v) ELSE Error)
<1> DEFINE g == IsScalar(p) /\ p.dtype = "bool" /\ AllCompatible(<<s>>, <<s>>)
           h == IsScalar(q) /\ q.dtype = "bool" /\ a.dtype = b.dtype
           out == WithDims(s, MergeDims(s.dims, s.dims))
<1>1. Operand(s, v) /\ p.dtype = q.dtype /\ Rank(p) = Rank(q)
  BY OperandFacts
<1>2. AllCompatible(<<s>>, <<s>>)
  BY OneCompatible DEF ShapesCompatible, Compatible, SameDim
<1>3. If(p, << >>, <<s>>, << >>, <<s>>) = Guard(g, Ok1(out))
  <2> DEFINE ss == <<s>>
  <2>1. [i \in DOMAIN ss |-> WithDims(ss[i], MergeDims(ss[i].dims, ss[i].dims))] = <<out>>
    OBVIOUS
  <2>2. If(p, << >>, ss, << >>, ss) =
          Guard(/\ IsScalar(p) /\ p.dtype = "bool" /\ << >> = << >> /\ << >> = << >> /\ AllCompatible(ss, ss),
                Ok([i \in DOMAIN ss |-> WithDims(ss[i], MergeDims(ss[i].dims, ss[i].dims))]))
    BY DEF If
  <2> QED
    BY <2>1, <2>2 DEF Guard, Ok1
<1>4. Describes(out, v)
  <2>1. /\ s \in Values /\ v \in Values /\ s.dtype = v.dtype /\ Tells(s.dims, v.dims)
        /\ \A i \in 1 .. Len(v.dims) : v.dims[i] >= 1
    BY <1>1, OperandFacts, OperandTells
  <2>2. Tells(MergeDims(s.dims, s.dims), v.dims)
    BY <2>1, MergeTells
  <2>3. Describes(WithDims(s, MergeDims(s.dims, s.dims)), WithDims(v, v.dims))
    BY <2>1, <2>2, WithDimsDescribes
  <2>4. WithDims(v, v.dims) = v
    BY <2>1 DEF WithDims, Values
  <2> QED
    BY <2>3, <2>4
<1>5. h => g
  BY <1>1, <1>2 DEF IsScalar
<1>6. g \in BOOLEAN /\ h \in BOOLEAN
  BY DEF AllCompatible
<1> HIDE DEF g, h, out
<1>7. Agree(Guard(g, Ok1(out)), Guard(h, Ok1(v)))
  BY <1>4, <1>5, <1>6, AgreeOne
<1> QED
  BY <1>3, <1>7 DEF Guard, h

LEMMA WhileAgree ==
    ASSUME NEW p, NEW q, NEW s, NEW a, NEW b, Operand(p, q), Operand(s, a), Operand(s, b), NEW v \in {a, b}
    PROVE  Agree(While(<<s>>, <<s>>, <<p>>, <<s>>, <<s>>),
                 IF IsScalar(q) /\ q.dtype = "bool" /\ a.dtype = b.dtype THEN Ok1(v) ELSE Error)
<1> DEFINE g == IsScalar(p) /\ p.dtype = "bool"
           h == IsScalar(q) /\ q.dtype = "bool" /\ a.dtype = b.dtype
<1>1. Operand(s, v) /\ p.dtype = q.dtype /\ Rank(p) = Rank(q)
  BY OperandFacts
<1>2. AllCompatible(<<s>>, <<s>>)
  BY OneCompatible DEF ShapesCompatible, Compatible, SameDim
<1>3. While(<<s>>, <<s>>, <<p>>, <<s>>, <<s>>) = Guard(g, Ok1(s))
  <2> DEFINE ss == <<s>>
             ps == <<p>>
  <2>1. ss # << >> /\ Len(ps) = 1 /\ ps[1] = p
    OBVIOUS
  <2> HIDE DEF ss, ps
  <2>2. AllCompatible(ss, ss)
    BY <1>2 DEF ss
  <2>3. While(ss, ss, ps, ss, ss) = Guard(g, Ok(ss))
    BY <2>1, <2>2 DEF While, Guard
  <2> QED
    BY <2>3 DEF ss, ps, Ok1
<1>4. Describes(s, v)
  BY <1>1 DEF Operand
<1>5. h => g
  BY <1>1 DEF IsScalar
<1>6. g \in BOOLEAN /\ h \in BOOLEAN
  OBVIOUS
<1> HIDE DEF g, h
<1>7. Agree(Guard(g, Ok1(s)), Guard(h, Ok1(v)))
  BY <1>4, <1>5, <1>6, AgreeOne
<1> QED
  BY <1>3, <1>7 DEF Guard, h

LEMMA CallAgree ==
    ASSUME NEW s, NEW a, NEW t, NEW b, NEW u, NEW v, Operand(s, a), Operand(t, b), Operand(u, v)
    PROVE  Agree(Call(<<s>>, <<t>>, <<u>>), Call(<<a>>, <<b>>, <<v>>))
<1> DEFINE g == ShapesCompatible(s, t)
           h == ShapesCompatible(a, b)
<1>1. Call(<<s>>, <<t>>, <<u>>) = Guard(g, Ok1(u)) /\ Call(<<a>>, <<b>>, <<v>>) = Guard(h, Ok1(v))
  BY OneCompatible DEF Call, Ok1, Guard
<1>2. h => g
  BY OperandFacts, CompatibleCovers DEF ShapesCompatible
<1>3. g \in BOOLEAN /\ h \in BOOLEAN
  BY DEF ShapesCompatible, Compatible
<1>4. Describes(u, v)
  BY DEF Operand
<1> HIDE DEF g, h
<1> QED
  BY <1>1, <1>2, <1>3, <1>4, AgreeOne

-------------------------------------------------------------------------------
(* The steps of a program. *)

\* The operations that are only wrong to refuse when they need not know more.
Fine(op, r, c) == True(r, c) /\ (op \in NeedKnown \/ Sure(r, c))
ProgramInv ==
    /\ Direct
    /\ Operand(input.inferred, input.actual) /\ Operand(value.inferred, value.actual)
    /\ NoSpuriousReject

LEMMA AgreeFine ==
    ASSUME NEW op, NEW r, NEW c, Agree(r, c)
    PROVE  Fine(op, r, c)
  BY DEF Agree, Fine

LEMMA EmitKeeps ==
    ASSUME ProgramInv, NEW op, NEW r, NEW c, Fine(op, r, c), Emit(op, r, c)
    PROVE  ProgramInv'
<1>1. /\ api' = api /\ input' = input
      /\ IF r.status = "ok" /\ c.status = "ok"
         THEN /\ \E k \in DOMAIN r.shapes \cap DOMAIN c.shapes :
                    WithinBounds(c.shapes[k]) /\ value' = Pair(r.shapes[k], c.shapes[k])
              /\ stopped' = stopped
         ELSE /\ stopped' = [op |-> op, inferred |-> r.status, actual |-> c.status]
              /\ value' = value
  BY DEF Emit, EmitIf
<1>2. Direct' /\ Operand(input.inferred, input.actual)'
  BY <1>1 DEF ProgramInv, Direct, Operand
<1>3. CASE r.status = "ok" /\ c.status = "ok"
  <2>1. PICK k \in DOMAIN r.shapes \cap DOMAIN c.shapes :
             WithinBounds(c.shapes[k]) /\ value' = Pair(r.shapes[k], c.shapes[k])
    BY <1>1, <1>3
  <2>2. Describes(r.shapes[k], c.shapes[k])
    BY <1>3, <2>1 DEF Fine, True
  <2>3. value'.inferred = r.shapes[k] /\ value'.actual = c.shapes[k]
    BY <2>1 DEF Pair
  <2>4. Operand(value.inferred, value.actual)'
    BY <2>1, <2>2, <2>3 DEF Operand, WithinBounds
  <2> QED
    BY <1>1, <1>2, <1>3, <2>4 DEF ProgramInv, NoSpuriousReject
<1>4. CASE ~(r.status = "ok" /\ c.status = "ok")
  <2>1. Operand(value.inferred, value.actual)'
    BY <1>1, <1>4 DEF ProgramInv, Operand
  <2>2. stopped'.op = op /\ stopped'.inferred = r.status /\ stopped'.actual = c.status
    BY <1>1, <1>4
  <2>3. NoSpuriousReject'
    BY <2>2 DEF Fine, Sure, NoSpuriousReject
  <2> QED
    BY <1>2, <2>1, <2>3 DEF ProgramInv
<1> QED
  BY <1>3, <1>4

LEMMA AgreeKeeps ==
    ASSUME ProgramInv, NEW op, NEW r, NEW c, Agree(r, c), Emit(op, r, c)
    PROVE  ProgramInv'
  BY AgreeFine, EmitKeeps

LEMMA GivenOperand ==
    ASSUME NEW p \in Given
    PROVE  Operand(p.inferred, p.actual)
  BY ProgramAssumption DEF ProgramArguments, Operand, Describes

LEMMA ProgramOperands ==
    ASSUME ProgramInv
    PROVE  /\ \A x \in Recent : Operand(x.inferred, x.actual)
           /\ \A x \in Operands : Operand(x.inferred, x.actual)
           /\ \A x \in Scalars : Operand(x.inferred, x.actual)
           /\ \A x \in Indices : Operand(x.inferred, x.actual)
           /\ \A x \in Taken(Targets) : Operand(x.inferred, x.actual)
           /\ \A x \in Taken(Indices) : Operand(x.inferred, x.actual)
<1>1. \A x \in Scalars \cup Targets \cup Indices : Operand(x.inferred, x.actual)
  BY GivenOperand DEF Given
<1>2. \A x \in {value, input} : Operand(x.inferred, x.actual)
  BY DEF ProgramInv
<1>3. \A x \in Recent : x \in {value, input}
  BY DEF Recent
<1>4. \A x \in Operands : x \in {value, input} \/ x \in Scalars
  BY DEF Operands
<1> QED
  BY <1>1, <1>2, <1>3, <1>4 DEF Taken

LEMMA ElementwiseKeep ==
    ASSUME ProgramInv, AddUnary \/ AddIsFinite \/ AddReal \/ AddConvert \/ AddBitcastConvert
    PROVE  ProgramInv'
<1>1. CASE AddUnary
  <2>1. PICK x \in Recent, op \in StandardUnaryOperations : Emit(op, UnaryOp(op, x.inferred), UnaryOp(op, x.actual))
    BY <1>1 DEF AddUnary, On
  <2> QED
    BY <2>1, ProgramOperands, UnaryAgree, AgreeKeeps
<1>2. CASE AddIsFinite
  <2>1. PICK x \in Recent : Emit("IsFinite", IsFinite(x.inferred), IsFinite(x.actual))
    BY <1>2 DEF AddIsFinite, On
  <2> QED
    BY <2>1, ProgramOperands, PartsAgree, AgreeKeeps
<1>3. CASE AddReal
  <2>1. PICK x \in Recent : Emit("Real", RealOrImag(x.inferred), RealOrImag(x.actual))
    BY <1>3 DEF AddReal, On
  <2> QED
    BY <2>1, ProgramOperands, PartsAgree, AgreeKeeps
<1>4. CASE AddConvert
  <2>1. PICK x \in Recent, t \in {"i32", "f32", "bool"} :
             Emit("Convert", ConvertOp(x.inferred, t), ConvertOp(x.actual, t))
    BY <1>4 DEF AddConvert, On
  <2>2. t \in DTypes
    BY DEF DTypes
  <2> QED
    BY <2>1, <2>2, ProgramOperands, ConvertAgree, AgreeKeeps
<1>5. CASE AddBitcastConvert
  <2>1. PICK x \in Recent, t \in {"u8", "i32", "f64"} :
             Emit("BitcastConvert", BitcastConvert(x.inferred, t), BitcastConvert(x.actual, t))
    BY <1>5 DEF AddBitcastConvert, On
  <2>2. t \in DTypes
    BY DEF DTypes
  <2> QED
    BY <2>1, <2>2, ProgramOperands, BitcastAgree, AgreeKeeps
<1> QED
  BY <1>1, <1>2, <1>3, <1>4, <1>5

LEMMA BinaryKeep ==
    ASSUME ProgramInv, AddBinary \/ AddCompare \/ AddComplex \/ AddSelect \/ AddClamp
    PROVE  ProgramInv'
<1>1. CASE AddBinary
  <2>1. PICK x \in Operands, y \in Operands, op \in StandardBinaryOperations :
             Emit(op, BinaryOp(op, x.inferred, y.inferred), BinaryOp(op, x.actual, y.actual))
    BY <1>1 DEF AddBinary, On2
  <2> QED
    BY <2>1, ProgramOperands, BinaryDescribing, DescribingAgree, AgreeKeeps
<1>2. CASE AddCompare
  <2>1. PICK x \in Operands, y \in Operands, t \in {"float", "signed", "unsigned"} :
             Emit("Compare", Compare(x.inferred, y.inferred, t), Compare(x.actual, y.actual, t))
    BY <1>2 DEF AddCompare, On2
  <2> QED
    BY <2>1, ProgramOperands, CompareAgree, AgreeKeeps
<1>3. CASE AddComplex
  <2>1. PICK x \in Operands, y \in Operands :
             Emit("Complex", Complex(x.inferred, y.inferred), Complex(x.actual, y.actual))
    BY <1>3 DEF AddComplex, On2
  <2> QED
    BY <2>1, ProgramOperands, ComplexAgree, AgreeKeeps
<1>4. CASE AddSelect
  <2>1. PICK x \in Operands, y \in Operands, z \in Operands :
             Emit("Select", Select(x.inferred, y.inferred, z.inferred), Select(x.actual, y.actual, z.actual))
    BY <1>4 DEF AddSelect, On3
  <2> QED
    BY <2>1, ProgramOperands, SelectAgree, AgreeKeeps
<1>5. CASE AddClamp
  <2>1. PICK x \in Operands, y \in Operands, z \in Operands :
             Emit("Clamp", Clamp(x.inferred, y.inferred, z.inferred), Clamp(x.actual, y.actual, z.actual))
    BY <1>5 DEF AddClamp, On3
  <2> QED
    BY <2>1, ProgramOperands, ClampAgree, AgreeKeeps
<1> QED
  BY <1>1, <1>2, <1>3, <1>4, <1>5

LEMMA EachIsList ==
    ASSUME ProgramInv, NEW x \in Recent, NEW S \in SUBSET Int, NEW axes \in Each(S, x)
    PROVE  axes \in Seq(Int) /\ axes \in [DOMAIN x.actual.dims -> S]
<1>1. DOMAIN x.actual.dims = 1 .. Rank(x.inferred) /\ Rank(x.inferred) \in Nat
  BY ProgramOperands, OperandFacts
<1>2. axes \in [1 .. Rank(x.inferred) -> Int]
  BY <1>1 DEF Each
<1> QED
  BY <1>1, <1>2 DEF Each

LEMMA MovesKeep ==
    ASSUME ProgramInv, AddTranspose \/ AddReverse \/ AddReshape \/ AddBroadcastInDim \/ AddSort
    PROVE  ProgramInv'
<1>1. CASE AddTranspose
  <2>1. PICK x \in Recent : \E axes \in Each(Axes(x), x) :
             Emit("Transpose", Transpose(x.inferred, axes), Transpose(x.actual, axes))
    BY <1>1 DEF AddTranspose, On
  <2>2. PICK axes \in Each(Axes(x), x) : Emit("Transpose", Transpose(x.inferred, axes), Transpose(x.actual, axes))
    BY <2>1
  <2>3. Axes(x) \subseteq Int
    BY DEF Axes
  <2>4. axes \in Seq(Int)
    BY <2>3, EachIsList
  <2> QED
    BY <2>2, <2>4, ProgramOperands, TransposeAgree, AgreeKeeps
<1>2. CASE AddReverse
  <2>1. PICK x \in Recent : \E axis \in Axes(x) :
             Emit("Reverse", ReverseOp(x.inferred, <<axis, -1>>), ReverseOp(x.actual, <<axis, -1>>))
    BY <1>2 DEF AddReverse, On
  <2>2. \A axis \in Axes(x) : axis \in Int
    BY DEF Axes
  <2> QED
    BY <2>1, <2>2, ProgramOperands, SameAgree, AgreeKeeps
<1>3. CASE AddReshape
  <2>1. PICK x \in Recent, t \in Taken(Targets) :
             Emit("Reshape", ReshapeOp(x.inferred, t.inferred), ReshapeOp(x.actual, t.actual))
    BY <1>3 DEF AddReshape, On2
  <2> QED
    BY <2>1, ProgramOperands, ReshapeAgree, AgreeKeeps
<1>4. CASE AddBroadcastInDim
  <2>1. PICK x \in Recent, t \in Taken(Targets) : \E axes \in Each(-1 .. 1, x) :
             Emit("BroadcastInDim", BroadcastInDim(x.inferred, t.inferred, axes), BroadcastInDim(x.actual, t.actual, axes))
    BY <1>4 DEF AddBroadcastInDim, On2
  <2>2. PICK axes \in Each(-1 .. 1, x) :
             Emit("BroadcastInDim", BroadcastInDim(x.inferred, t.inferred, axes), BroadcastInDim(x.actual, t.actual, axes))
    BY <2>1
  <2>3. -1 .. 1 \subseteq Int
    OBVIOUS
  <2>4. axes \in Seq(Int)
    BY <2>3, EachIsList
  <2> QED
    BY <2>2, <2>4, ProgramOperands, BroadcastAgree, AgreeKeeps
<1>5. CASE AddSort
  <2>1. PICK x \in Recent, y \in Recent, axis \in -1 .. 1 :
             Emit("Sort", SortOp(<<x.inferred, y.inferred>>, axis), SortOp(<<x.actual, y.actual>>, axis))
    BY <1>5 DEF AddSort, On2
  <2> QED
    BY <2>1, ProgramOperands, SortAgree, AgreeKeeps
<1> QED
  BY <1>1, <1>2, <1>3, <1>4, <1>5

LEMMA ConcatenateKeeps ==
    ASSUME ProgramInv, AddConcatenate
    PROVE  ProgramInv'
<1>1. PICK x \in Recent, y \in Recent, axis \in -1 .. 1 :
           \/ Emit("Concatenate", ConcatenateOp(<<x.inferred, y.inferred>>, axis), ConcatenateOp(<<x.actual, y.actual>>, axis))
           \/ Emit("Concatenate", ConcatenateOp(<<x.inferred>>, axis), ConcatenateOp(<<x.actual>>, axis))
  BY DEF AddConcatenate, On, On2
<1>2. /\ Agree(ConcatenateOp(<<x.inferred>>, axis), ConcatenateOp(<<x.actual>>, axis))
      /\ Agree(ConcatenateOp(<<x.inferred, y.inferred>>, axis), ConcatenateOp(<<x.actual, y.actual>>, axis))
  BY ProgramOperands, ConcatenateAgree
<1> QED
  BY <1>1, <1>2, AgreeKeeps

LEMMA SliceKeeps ==
    ASSUME ProgramInv, AddSlice
    PROVE  ProgramInv'
<1>1. PICK x \in Recent :
           \E starts \in Each({0, 1}, x), limits \in Each({2, 3}, x), strides \in {<< >>, Uniform(2, x)} :
               LET step == IF strides = << >> THEN 1 ELSE 2
               IN  Emit("Slice", SliceOp(x.inferred, starts, limits, strides),
                        Counted(SliceOp(x.actual, starts, limits, strides),
                                [i \in DOMAIN x.actual.dims |-> Selected(starts[i], limits[i], step)]))
  BY DEF AddSlice
<1>2. PICK starts \in Each({0, 1}, x), limits \in Each({2, 3}, x), strides \in {<< >>, Uniform(2, x)} :
           LET step == IF strides = << >> THEN 1 ELSE 2
           IN  Emit("Slice", SliceOp(x.inferred, starts, limits, strides),
                    Counted(SliceOp(x.actual, starts, limits, strides),
                            [i \in DOMAIN x.actual.dims |-> Selected(starts[i], limits[i], step)]))
  BY <1>1
<1> DEFINE step == IF strides = << >> THEN 1 ELSE 2
<1>3. /\ starts \in [DOMAIN x.actual.dims -> {0, 1}] /\ limits \in [DOMAIN x.actual.dims -> {2, 3}]
      /\ strides \in {<< >>, Repeat(2, Rank(x.actual))}
  BY DEF Each, Uniform
<1>4. Operand(x.inferred, x.actual) /\ MaxDim \in Nat
  BY ProgramOperands, ProgramAssumption DEF ProgramArguments
<1>5. PICK n : n = step
  OBVIOUS
<1>6. Agree(SliceOp(x.inferred, starts, limits, strides),
            Counted(SliceOp(x.actual, starts, limits, strides),
                    [i \in DOMAIN x.actual.dims |-> Selected(starts[i], limits[i], n)]))
  BY <1>3, <1>4, <1>5, SliceAgree
<1> QED
  BY <1>2, <1>5, <1>6, AgreeKeeps

LEMMA PadKeeps ==
    ASSUME ProgramInv, AddPad
    PROVE  ProgramInv'
<1> DEFINE pad(x, v, f, low, high, interior) ==
               PadOp(v, f, Repeat(low, Rank(x.actual)), Repeat(high, Rank(x.actual)), Repeat(interior, Rank(x.actual)))
           counted(x, low, high, interior) ==
               [i \in DOMAIN x.actual.dims |-> low + high + Spread(x.actual.dims[i], interior + 1)]
           result(x, f, low, high, interior) ==
               IF \E i \in DOMAIN counted(x, low, high, interior) : counted(x, low, high, interior)[i] < 0 THEN Error
               ELSE Counted(pad(x, x.actual, f, low, high, interior), counted(x, low, high, interior))
<1>1. PICK x \in Recent, fill \in Scalars, low \in -2 .. 1, high \in {0, 1}, interior \in {0, 1} :
           Emit("Pad", pad(x, x.inferred, fill.inferred, low, high, interior), result(x, fill.actual, low, high, interior))
  BY DEF AddPad, Uniform
<1>2. Operand(x.inferred, x.actual) /\ Operand(fill.inferred, fill.actual)
  BY ProgramOperands
<1>3. Agree(pad(x, x.inferred, fill.inferred, low, high, interior), result(x, fill.actual, low, high, interior))
  <2> DEFINE n == Rank(x.actual)
             padded(v, f) == PadOp(v, f, Repeat(low, n), Repeat(high, n), Repeat(interior, n))
             count == [i \in DOMAIN x.actual.dims |-> low + high + Spread(x.actual.dims[i], interior + 1)]
  <2>1. Agree(padded(x.inferred, fill.inferred),
              IF \E i \in DOMAIN count : count[i] < 0 THEN Error ELSE Counted(padded(x.actual, fill.actual), count))
    BY <1>2, PadAgree, ZenonT(60)
  <2> QED
    BY <2>1, Zenon DEF pad, counted, result
<1> HIDE DEF pad, result
<1> QED
  BY <1>1, <1>3, AgreeKeeps

LEMMA FFTKeeps ==
    ASSUME ProgramInv, AddFFT
    PROVE  ProgramInv'
<1>1. PICK x \in Recent, fftType \in {"fft", "rfft", "irfft"}, length \in {<< >>, <<2>>} :
           Emit("FFT", FFTOp(x.inferred, fftType, length), FFTOp(x.actual, fftType, length))
  BY DEF AddFFT, On
<1>2. Fine("FFT", FFTOp(x.inferred, fftType, length), FFTOp(x.actual, fftType, length))
  BY ProgramOperands, FFTAgree DEF Fine, NeedKnown
<1> QED
  BY <1>1, <1>2, EmitKeeps

LEMMA ProductsKeep ==
    ASSUME ProgramInv, AddArgMinMax \/ AddReduceWindow \/ AddSelectAndScatter \/ AddConvolution \/ AddDot \/ AddDotGeneral
    PROVE  ProgramInv'
<1>1. CASE AddArgMinMax
  <2>1. PICK x \in Recent, axis \in -1 .. 1 :
             Emit("ArgMinMax", ArgMinMax(x.inferred, axis, "i32"), ArgMinMax(x.actual, axis, "i32"))
    BY <1>1 DEF AddArgMinMax, On
  <2>2. "i32" \in DTypes
    BY DEF DTypes
  <2> QED
    BY <2>1, <2>2, ProgramOperands, ArgMinMaxAgree, AgreeKeeps
<1>2. CASE AddReduceWindow
  <2>1. PICK x \in Recent, fill \in Scalars, c \in Windows :
             Emit("ReduceWindow", ReduceWindowOp(x.inferred, fill.inferred, c), ReducedWindow(x.actual, fill.actual, c))
    BY <1>2 DEF AddReduceWindow
  <2>2. c \in WindowArguments
    BY ProgramAssumption DEF ProgramArguments
  <2> QED
    BY <2>1, <2>2, ProgramOperands, ReduceWindowAgree, AgreeKeeps
<1>3. CASE AddSelectAndScatter
  <2>1. PICK x \in Recent :
             Emit("SelectAndScatter", SelectAndScatter(x.inferred), SelectAndScatter(x.actual))
    BY <1>3 DEF AddSelectAndScatter, On
  <2>2. Operand(x.inferred, x.actual)
    BY ProgramOperands
  <2>3. Agree(SelectAndScatter(x.inferred), SelectAndScatter(x.actual))
    BY <2>2, SameAgree, 0 \in Int
  <2> QED
    BY <2>1, <2>3, AgreeKeeps
<1>4. CASE AddConvolution
  <2>1. PICK x \in Recent, y \in Recent, c \in Convolutions :
             Emit("Convolution", Convolution(x.inferred, y.inferred, c), Convolved(x.actual, y.actual, c))
    BY <1>4 DEF AddConvolution
  <2>2. c \in ConvArguments
    BY ProgramAssumption DEF ProgramArguments
  <2> QED
    BY <2>1, <2>2, ProgramOperands, ConvolutionAgree, AgreeKeeps
<1>5. CASE AddDot
  <2>1. PICK x \in Recent, y \in Recent :
             Emit("Dot", Dot(x.inferred, y.inferred), Dot(x.actual, y.actual))
    BY <1>5 DEF AddDot, On2
  <2> QED
    BY <2>1, ProgramOperands, DotAgree, AgreeKeeps
<1>6. CASE AddDotGeneral
  <2>1. PICK x \in Recent, y \in Recent, c \in Dots :
             Emit("DotGeneral", DotGeneral(x.inferred, y.inferred, c, x.inferred.dtype), DotGeneral(x.actual, y.actual, c, x.actual.dtype))
    BY <1>6 DEF AddDotGeneral, On2
  <2>2. c \in DotArguments
    BY ProgramAssumption DEF ProgramArguments
  <2> QED
    BY <2>1, <2>2, ProgramOperands, DotGeneralAgree, AgreeKeeps
<1> QED
  BY <1>1, <1>2, <1>3, <1>4, <1>5, <1>6

LEMMA OutputsKeep ==
    ASSUME ProgramInv, AddBatchNormInference \/ AddBatchNormTraining \/ AddBatchNormGradient \/ AddGetDimensionSize \/ AddOptimizationBarrier \/ AddRNGBitGenerator
    PROVE  ProgramInv'
<1>1. CASE AddBatchNormInference
  <2>1. PICK x \in Recent, axis \in -1 .. 1 :
             Emit("BatchNormInference", BatchNormInference(x.inferred, axis), BatchNormInference(x.actual, axis))
    BY <1>1 DEF AddBatchNormInference, On
  <2>2. Operand(x.inferred, x.actual) /\ axis \in Int
    BY ProgramOperands
  <2>3. Agree(BatchNormInference(x.inferred, axis), BatchNormInference(x.actual, axis))
    BY <2>2, SameAgree
  <2> QED
    BY <2>1, <2>3, AgreeKeeps
<1>2. CASE AddBatchNormTraining
  <2>1. PICK x \in Recent, axis \in -1 .. 1 :
             Emit("BatchNormTraining", BatchNormTraining(x.inferred, axis), BatchNormTraining(x.actual, axis))
    BY <1>2 DEF AddBatchNormTraining, On
  <2> QED
    BY <2>1, ProgramOperands, BatchNormAgree, AgreeKeeps
<1>3. CASE AddBatchNormGradient
  <2>1. PICK x \in Recent, axis \in -1 .. 1 :
             Emit("BatchNormGradient", BatchNormGradient(x.inferred, axis), BatchNormGradient(x.actual, axis))
    BY <1>3 DEF AddBatchNormGradient, On
  <2> QED
    BY <2>1, ProgramOperands, BatchNormAgree, AgreeKeeps
<1>4. CASE AddGetDimensionSize
  <2>1. PICK x \in Recent, axis \in -1 .. 1 :
             Emit("GetDimensionSize", GetDimensionSize(x.inferred, axis), GetDimensionSize(x.actual, axis))
    BY <1>4 DEF AddGetDimensionSize, On
  <2>2. Operand(x.inferred, x.actual) /\ axis \in Int
    BY ProgramOperands
  <2>3. Agree(GetDimensionSize(x.inferred, axis), GetDimensionSize(x.actual, axis))
    BY <2>2, SameAgree
  <2> QED
    BY <2>1, <2>3, AgreeKeeps
<1>5. CASE AddOptimizationBarrier
  <2>1. PICK x \in Recent, y \in Recent :
             Emit("OptimizationBarrier", OptimizationBarrier(<<x.inferred, y.inferred>>), OptimizationBarrier(<<x.actual, y.actual>>))
    BY <1>5 DEF AddOptimizationBarrier, On2
  <2> QED
    BY <2>1, ProgramOperands, ListsAgree, AgreeKeeps
<1>6. CASE AddRNGBitGenerator
  <2>1. PICK x \in Recent, y \in Recent :
             Emit("RNGBitGenerator", RNGBitGenerator(x.inferred, y.inferred), RNGBitGenerator(x.actual, y.actual))
    BY <1>6 DEF AddRNGBitGenerator, On2
  <2> QED
    BY <2>1, ProgramOperands, ListsAgree, AgreeKeeps
<1> QED
  BY <1>1, <1>2, <1>3, <1>4, <1>5, <1>6

LEMMA AllReduceKeeps ==
    ASSUME ProgramInv, AddAllReduce
    PROVE  ProgramInv'
<1> DEFINE scalar(v) == Shape(v.dtype, << >>)
           reduced(v, w, groups) == AllReduce(<<v, w>>, <<scalar(v), scalar(v)>>, <<scalar(v)>>, groups)
<1>1. PICK x \in Recent, y \in Recent, groups \in {Replicas, << >>} :
           Emit("AllReduce", reduced(x.inferred, y.inferred, groups), reduced(x.actual, y.actual, groups))
  BY DEF AddAllReduce, On2
<1>2. Operand(x.inferred, x.actual) /\ Operand(y.inferred, y.actual)
  BY ProgramOperands
<1>3. Agree(reduced(x.inferred, y.inferred, groups), reduced(x.actual, y.actual, groups))
  BY <1>2, AllReduceAgree, Zenon
<1> QED
  BY <1>1, <1>3, AgreeKeeps

LEMMA GatherKeeps ==
    ASSUME ProgramInv, AddGather
    PROVE  ProgramInv'
<1>1. PICK x \in Recent, indices \in Taken(Indices), c \in TakenGathers :
           Emit("Gather", Gather(x.inferred, indices.inferred, c), Gather(x.actual, indices.actual, c))
  BY DEF AddGather, On2
<1>2. c \in GatherArguments
  BY ProgramAssumption DEF ProgramArguments, TakenGathers
<1>3. Fine("Gather", Gather(x.inferred, indices.inferred, c), Gather(x.actual, indices.actual, c))
  BY <1>2, ProgramOperands, GatherAgree DEF Fine, NeedKnown
<1> QED
  BY <1>1, <1>3, EmitKeeps

LEMMA ScatterKeeps ==
    ASSUME ProgramInv, AddScatter
    PROVE  ProgramInv'
<1> DEFINE scattered(v, u, c, t) ==
               Scatter(<<v>>, u, <<Shape(v.dtype, u.dims)>>, c, <<Shape(t, << >>), Shape(t, << >>)>>, <<Shape(t, << >>)>>)
<1>1. PICK x \in Recent, indices \in Indices, c \in Scatters :
           \E t \in {x.actual.dtype, "f32"} :
               Emit("Scatter", scattered(x.inferred, indices.inferred, c, t), scattered(x.actual, indices.actual, c, t))
  BY DEF AddScatter, On2
<1>2. PICK t \in {x.actual.dtype, "f32"} :
           Emit("Scatter", scattered(x.inferred, indices.inferred, c, t), scattered(x.actual, indices.actual, c, t))
  BY <1>1
<1>3. Operand(x.inferred, x.actual) /\ Operand(indices.inferred, indices.actual)
  BY ProgramOperands
<1>4. t \in DTypes
  BY <1>3, OperandFacts DEF DTypes, Values
<1>5. Agree(scattered(x.inferred, indices.inferred, c, t), scattered(x.actual, indices.actual, c, t))
  BY <1>3, <1>4, ScatterAgree, Zenon
<1> QED
  BY <1>2, <1>5, AgreeKeeps

LEMMA ReductionsKeep ==
    ASSUME ProgramInv, AddReduce \/ AddMultiReduce
    PROVE  ProgramInv'
<1>1. CASE AddReduce
  <2> DEFINE reduced(v, f, axes) == Reduce(<<v>>, <<f>>, <<f, f>>, <<f>>, axes)
  <2>1. PICK x \in Recent, fill \in Scalars, axes \in ReducedAxes :
             Emit("Reduce", reduced(x.inferred, fill.inferred, axes), reduced(x.actual, fill.actual, axes))
    BY <1>1 DEF AddReduce, On2
  <2>2. Operand(x.inferred, x.actual) /\ Operand(fill.inferred, fill.actual)
    BY ProgramOperands
  <2>3. True(reduced(x.inferred, fill.inferred, axes), reduced(x.actual, fill.actual, axes))
    BY <2>2, ReduceAgree, Zenon
  <2>4. Fine("Reduce", reduced(x.inferred, fill.inferred, axes), reduced(x.actual, fill.actual, axes))
    BY <2>3 DEF Fine, NeedKnown
  <2> QED
    BY <2>1, <2>4, EmitKeeps
<1>2. CASE AddMultiReduce
  <2> DEFINE scalar(v) == Shape(v.dtype, << >>)
             closure(v, w) == <<scalar(v), scalar(w), scalar(v), scalar(w)>>
             reduced(v, w, f, axes) == Reduce(<<v, w>>, <<f, f>>, closure(v, w), <<scalar(v), scalar(w)>>, axes)
  <2>1. PICK x \in Recent, y \in Recent, fill \in Scalars, axes \in ReducedAxes :
             Emit("Reduce", reduced(x.inferred, y.inferred, fill.inferred, axes), reduced(x.actual, y.actual, fill.actual, axes))
    BY <1>2 DEF AddMultiReduce, On3
  <2>2. Operand(x.inferred, x.actual) /\ Operand(y.inferred, y.actual) /\ Operand(fill.inferred, fill.actual)
    BY ProgramOperands
  <2>3. True(reduced(x.inferred, y.inferred, fill.inferred, axes), reduced(x.actual, y.actual, fill.actual, axes))
    BY <2>2, MultiReduceAgree, Zenon
  <2>4. Fine("Reduce", reduced(x.inferred, y.inferred, fill.inferred, axes), reduced(x.actual, y.actual, fill.actual, axes))
    BY <2>3 DEF Fine, NeedKnown
  <2> QED
    BY <2>1, <2>4, EmitKeeps
<1> QED
  BY <1>1, <1>2

LEMMA Refusals ==
    ASSUME NEW x, NEW y
    PROVE  Agree(Guard(FALSE, x), Guard(FALSE, y))
  BY DEF Agree, Sure, True, Guard, Error

LEMMA CollectivesKeep ==
    ASSUME ProgramInv, AddCollectiveBroadcast \/ AddCollectivePermute \/ AddAllGather \/ AddAllToAll
    PROVE  ProgramInv'
<1>1. CASE AddCollectiveBroadcast
  <2>1. PICK x \in Recent, groups \in {Replicas, << >>} :
             Emit("CollectiveBroadcast", CollectiveBroadcast(x.inferred, groups), CollectiveBroadcast(x.actual, groups))
    BY <1>1 DEF AddCollectiveBroadcast, On
  <2> QED
    BY <2>1, ProgramOperands, CollectivesAgree, AgreeKeeps
<1>2. CASE AddCollectivePermute
  <2>1. PICK x \in Recent, groups \in {Replicas, << >>} :
             Emit("CollectivePermute", CollectivePermute(x.inferred, groups), CollectivePermute(x.actual, groups))
    BY <1>2 DEF AddCollectivePermute, On
  <2> QED
    BY <2>1, ProgramOperands, CollectivesAgree, AgreeKeeps
<1>3. CASE AddAllGather
  <2>1. PICK x \in Recent, groups \in {Replicas, << >>}, axis \in 0 .. 1 :
             Emit("AllGather", AllGather(x.inferred, groups, axis), AllGather(x.actual, groups, axis))
    BY <1>3 DEF AddAllGather, On
  <2>2. Operand(x.inferred, x.actual) /\ axis \in Int
    BY ProgramOperands
  <2>3. CASE groups = Replicas
    <3>1. Len(groups[1]) \in Nat \ {0}
      BY <2>3 DEF Replicas
    <3> QED
      BY <2>1, <2>2, <3>1, AllGatherAgree, AgreeKeeps
  <2>4. CASE groups = << >>
    <3>1. Agree(AllGather(x.inferred, groups, axis), AllGather(x.actual, groups, axis))
      BY <2>4, Refusals DEF AllGather
    <3> QED
      BY <2>1, <3>1, AgreeKeeps
  <2> QED
    BY <2>3, <2>4
<1>4. CASE AddAllToAll
  <2>1. PICK x \in Recent, groups \in {Replicas, << >>}, split \in 0 .. 1, axis \in 0 .. 1 :
             Emit("AllToAll", AllToAll(x.inferred, groups, split, axis, 2), AllToAll(x.actual, groups, split, axis, 2))
    BY <1>4 DEF AddAllToAll, On
  <2> QED
    BY <2>1, ProgramOperands, AllToAllAgree, AgreeKeeps
<1> QED
  BY <1>1, <1>2, <1>3, <1>4

\* What is emitted when the output has any shape of type t within bounds.
EmittedWithin(op, r, bounds) ==
    IF r.status # "ok" THEN Emit(op, r, Error) ELSE \E s \in Within(r.shapes[1].dtype, bounds) : Emit(op, r, Ok1(s))

LEMMA BoundedKeeps ==
    ASSUME ProgramInv, NEW op, NEW g, g \in BOOLEAN, NEW t \in DTypes, NEW bounds \in Bounds,
           EmittedWithin(op, Guard(g, Ok1(Bounded(t, bounds))), bounds)
    PROVE  ProgramInv'
<1> DEFINE r == Guard(g, Ok1(Bounded(t, bounds)))
<1>1. CASE ~g
  <2>1. r = Error /\ Error.status # "ok"
    BY <1>1 DEF Guard, Error
  <2>2. Agree(r, Error) /\ Emit(op, r, Error)
    BY <2>1 DEF Agree, Sure, True, EmittedWithin
  <2> QED
    BY <2>2, AgreeKeeps
<1>2. CASE g
  <2>1. r = Ok1(Bounded(t, bounds))
    BY <1>2 DEF Guard
  <2>2. r.shapes[1].dtype = t /\ r.status = "ok"
    BY <2>1 DEF Ok1, Ok, Bounded
  <2>3. PICK s \in Within(t, bounds) : Emit(op, r, Ok1(s))
    BY <2>2 DEF EmittedWithin
  <2>4. Agree(r, Ok1(s))
    BY <2>1, BoundedAgree, ProgramAssumption DEF ProgramArguments
  <2> QED
    BY <2>3, <2>4, AgreeKeeps
<1> QED
  BY <1>1, <1>2

LEMMA DynamicKeep ==
    ASSUME ProgramInv, AddDynamicReshape \/ AddDynamicIota \/ AddDynamicBroadcastInDim \/ AddDynamicGather
                         \/ AddDynamicPad \/ AddDynamicConv
    PROVE  ProgramInv'
<1>1. ASSUME NEW x \in Recent
      PROVE  x.inferred.dtype \in DTypes
  BY ProgramOperands, OperandFacts DEF Values
<1>2. CASE AddDynamicReshape
  <2>1. PICK x \in Recent, tensor \in ShapeTensors, bounds \in Bounds :
             EmittedWithin("DynamicReshape", DynamicReshape(x.inferred, tensor, bounds), bounds)
    BY <1>2 DEF AddDynamicReshape, EmitDynamic, EmittedWithin
  <2> DEFINE g == IsShapeTensor(tensor) /\ Len(bounds) = tensor.dims[1]
  <2>2. DynamicReshape(x.inferred, tensor, bounds) = Guard(g, Ok1(Bounded(x.inferred.dtype, bounds)))
    BY DEF DynamicReshape
  <2>3. g \in BOOLEAN
    BY DEF IsShapeTensor
  <2> HIDE DEF g
  <2> QED
    BY <1>1, <2>1, <2>2, <2>3, BoundedKeeps
<1>3. CASE AddDynamicIota
  <2>1. PICK tensor \in ShapeTensors, bounds \in Bounds :
             EmittedWithin("DynamicIota", DynamicIota("f32", tensor, 0, bounds), bounds)
    BY <1>3 DEF AddDynamicIota, EmitDynamic, EmittedWithin
  <2> DEFINE g == IsShapeTensor(tensor) /\ Len(bounds) = tensor.dims[1]
             h == InRank(0, Len(bounds))
  <2>2. DynamicIota("f32", tensor, 0, bounds) = Guard(h, Guard(g, Ok1(Bounded("f32", bounds))))
    BY DEF DynamicIota, DynamicReshape, Shape
  <2>3. Guard(h, Guard(g, Ok1(Bounded("f32", bounds)))) = Guard(g /\ h, Ok1(Bounded("f32", bounds)))
    BY DEF Guard
  <2>4. (g /\ h) \in BOOLEAN /\ "f32" \in DTypes
    BY DEF DTypes
  <2> HIDE DEF g, h
  <2> QED
    BY <2>1, <2>2, <2>3, <2>4, BoundedKeeps
<1>4. CASE AddDynamicBroadcastInDim
  <2>1. PICK x \in Recent, tensor \in ShapeTensors, bounds \in Bounds :
             EmittedWithin("DynamicBroadcastInDim", DynamicBroadcastInDim(x.inferred, tensor, <<0>>, bounds), bounds)
    BY <1>4 DEF AddDynamicBroadcastInDim, EmitDynamic, EmittedWithin
  <2> DEFINE g == IsShapeTensor(tensor) /\ Len(bounds) = tensor.dims[1]
             h == Len(<<0>>) = Rank(x.inferred)
             t == x.inferred.dtype
  <2>2. DynamicBroadcastInDim(x.inferred, tensor, <<0>>, bounds) = Guard(h, Guard(g, Ok1(Bounded(t, bounds))))
    BY DEF DynamicBroadcastInDim, DynamicReshape
  <2>3. Guard(h, Guard(g, Ok1(Bounded(t, bounds)))) = Guard(g /\ h, Ok1(Bounded(t, bounds)))
    BY DEF Guard
  <2>4. (g /\ h) \in BOOLEAN /\ t \in DTypes
    BY <1>1
  <2> HIDE DEF g, h, t
  <2> QED
    BY <2>1, <2>2, <2>3, <2>4, BoundedKeeps
<1>5. CASE AddDynamicGather
  <2> DEFINE r(x, indices, tensor, c, bounds) == DynamicGather(x.inferred, indices.inferred, tensor, c, bounds)
  <2>1. PICK x \in Recent, tensor \in ShapeTensors, bounds \in Bounds, indices \in Indices, c \in Gathers :
             EmittedWithin("DynamicGather", r(x, indices, tensor, c, bounds), bounds)
    BY <1>5 DEF AddDynamicGather, EmitDynamic, EmittedWithin
  <2> DEFINE g == /\ IsShapeTensor(tensor) /\ tensor.dims[1] = Rank(x.inferred) /\ bounds # << >>
                  /\ Len(bounds) = Len(c.offset) + Rank(indices.inferred) - 1 + Len(c.startBatching)
  <2>2. r(x, indices, tensor, c, bounds) = Guard(g, Ok1(Bounded(x.inferred.dtype, bounds)))
    BY DEF DynamicGather
  <2>3. g \in BOOLEAN
    OBVIOUS
  <2> HIDE DEF g, r
  <2> QED
    BY <1>1, <2>1, <2>2, <2>3, BoundedKeeps
<1>6. CASE AddDynamicPad
  <2> DEFINE r(x, fill, tensor, bounds) == DynamicPad(x.inferred, fill.inferred, {tensor}, bounds)
  <2>1. PICK x \in Recent, tensor \in ShapeTensors, bounds \in Bounds, fill \in Scalars :
             EmittedWithin("DynamicPad", r(x, fill, tensor, bounds), bounds)
    BY <1>6 DEF AddDynamicPad, EmitDynamic, EmittedWithin
  <2> DEFINE s == x.inferred
             f == fill.inferred
             g == /\ IsScalar(f) /\ f.dtype = s.dtype
                  /\ \A u \in {tensor} : IsShapeTensor(u) /\ u.dims[1] = Rank(s)
                  /\ Len(bounds) = Rank(s)
  <2>2. r(x, fill, tensor, bounds) = Guard(g, Ok1(Bounded(x.inferred.dtype, bounds)))
    BY Zenon DEF DynamicPad
  <2>3. g \in BOOLEAN
    OBVIOUS
  <2> HIDE DEF g, r
  <2> QED
    BY <1>1, <2>1, <2>2, <2>3, BoundedKeeps
<1>7. CASE AddDynamicConv
  <2> DEFINE r(x, tensor, c, bounds) == DynamicConv(x.inferred, tensor, c, bounds)
  <2>1. PICK x \in Recent, tensor \in ShapeTensors, bounds \in Bounds, c \in Convolutions :
             EmittedWithin("DynamicConv", r(x, tensor, c, bounds), bounds)
    BY <1>7 DEF AddDynamicConv, EmitDynamic, EmittedWithin
  <2> DEFINE n == Rank(x.inferred)
             g == /\ tensor.dims = <<n - 2, 2>>
                  /\ \A axes \in ConvolutionAxes(c) : \A i \in DOMAIN AllAxes(axes) : InRankNeg(AllAxes(axes)[i], n)
                  /\ Len(bounds) = n
  <2>2. r(x, tensor, c, bounds) = Guard(g, Ok1(Bounded(x.inferred.dtype, bounds)))
    BY Zenon DEF DynamicConv
  <2>3. g \in BOOLEAN
    OBVIOUS
  <2> HIDE DEF g, r
  <2> QED
    BY <1>1, <2>1, <2>2, <2>3, BoundedKeeps
<1> QED
  BY <1>2, <1>3, <1>4, <1>5, <1>6, <1>7

LEMMA DynamicSlicesKeep ==
    ASSUME ProgramInv, AddDynamicSlice \/ AddDynamicUpdateSlice
    PROVE  ProgramInv'
<1>1. CASE AddDynamicSlice
  <2> DEFINE fits(x, sizes) == \A i \in DOMAIN sizes : sizes[i] <= x.actual.dims[i]
             result(x, sizes) == IF fits(x, sizes) THEN Ok1(Shape(x.actual.dtype, sizes)) ELSE Error
  <2>1. PICK x \in Recent :
             \E sizes \in Each({1, 2}, x) : Emit("DynamicSlice", DynamicSlice(x.inferred, sizes), result(x, sizes))
    BY <1>1 DEF AddDynamicSlice
  <2>2. PICK sizes \in Each({1, 2}, x) : Emit("DynamicSlice", DynamicSlice(x.inferred, sizes), result(x, sizes))
    BY <2>1
  <2>3. sizes \in [DOMAIN x.actual.dims -> {1, 2}] /\ Operand(x.inferred, x.actual)
    BY ProgramOperands DEF Each
  <2>4. fits(x, sizes) \in BOOLEAN
    OBVIOUS
  <2> HIDE DEF fits
  <2>5. Agree(DynamicSlice(x.inferred, sizes), result(x, sizes))
    BY <2>3, <2>4, DynamicSliceAgree
  <2> HIDE DEF result
  <2> QED
    BY <2>2, <2>5, AgreeKeeps
<1>2. CASE AddDynamicUpdateSlice
  <2>1. PICK x \in Recent : Emit("DynamicUpdateSlice", DynamicUpdateSlice(x.inferred), DynamicUpdateSlice(x.actual))
    BY <1>2 DEF AddDynamicUpdateSlice, On
  <2>2. Operand(x.inferred, x.actual)
    BY ProgramOperands
  <2>3. Agree(DynamicUpdateSlice(x.inferred), DynamicUpdateSlice(x.actual))
    BY <2>2, SameAgree, 0 \in Int
  <2> QED
    BY <2>1, <2>3, AgreeKeeps
<1> QED
  BY <1>1, <1>2

\* Closures that return values of one inferred shape.
LEMMA ControlFlowKeeps ==
    ASSUME ProgramInv, AnyBranches = FALSE, AddIf \/ AddWhile \/ AddCall
    PROVE  ProgramInv'
<1>1. CASE AddIf
  <2> DEFINE result(q, x, y, v) ==
                 IF IsScalar(q.actual) /\ q.actual.dtype = "bool" /\ x.actual.dtype = y.actual.dtype THEN Ok1(v) ELSE Error
             merged(q, x, y) == If(q.inferred, << >>, <<x.inferred>>, << >>, <<y.inferred>>)
  <2>1. PICK q \in Operands, x \in Recent, y \in Recent :
             /\ x.inferred = y.inferred
             /\ \E v \in {x.actual, y.actual} : Emit("If", merged(q, x, y), result(q, x, y, v))
    BY <1>1 DEF AddIf, SameInferred, EitherOf
  <2>2. PICK v \in {x.actual, y.actual} : Emit("If", merged(q, x, y), result(q, x, y, v))
    BY <2>1
  <2>3. Operand(q.inferred, q.actual) /\ Operand(x.inferred, x.actual) /\ Operand(x.inferred, y.actual)
    BY <2>1, ProgramOperands
  <2>4. Agree(merged(q, x, y), result(q, x, y, v))
    BY <2>1, <2>3, IfAgree
  <2> HIDE DEF result, merged
  <2> QED
    BY <2>2, <2>4, AgreeKeeps
<1>2. CASE AddWhile
  <2> DEFINE result(q, x, y, v) ==
                 IF IsScalar(q.actual) /\ q.actual.dtype = "bool" /\ x.actual.dtype = y.actual.dtype THEN Ok1(v) ELSE Error
             looped(q, x, y) == While(<<x.inferred>>, <<x.inferred>>, <<q.inferred>>, <<x.inferred>>, <<y.inferred>>)
  <2>1. PICK x \in Recent, y \in Recent, q \in Operands :
             /\ x.inferred = y.inferred
             /\ \E v \in {x.actual, y.actual} : Emit("While", looped(q, x, y), result(q, x, y, v))
    BY <1>2 DEF AddWhile, SameInferred, EitherOf
  <2>2. PICK v \in {x.actual, y.actual} : Emit("While", looped(q, x, y), result(q, x, y, v))
    BY <2>1
  <2>3. Operand(q.inferred, q.actual) /\ Operand(x.inferred, x.actual) /\ Operand(x.inferred, y.actual)
    BY <2>1, ProgramOperands
  <2>4. Agree(looped(q, x, y), result(q, x, y, v))
    BY <2>1, <2>3, WhileAgree
  <2> HIDE DEF result, looped
  <2> QED
    BY <2>2, <2>4, AgreeKeeps
<1>3. CASE AddCall
  <2>1. PICK x \in Recent : Emit("Call", Call(<<x.inferred>>, <<input.inferred>>, <<value.inferred>>),
                                 Call(<<x.actual>>, <<input.actual>>, <<value.actual>>))
    BY <1>3 DEF AddCall
  <2>2. /\ Operand(x.inferred, x.actual) /\ Operand(input.inferred, input.actual)
        /\ Operand(value.inferred, value.actual)
    BY ProgramOperands DEF ProgramInv
  <2>3. Agree(Call(<<x.inferred>>, <<input.inferred>>, <<value.inferred>>),
              Call(<<x.actual>>, <<input.actual>>, <<value.actual>>))
    BY <2>2, CallAgree
  <2> QED
    BY <2>1, <2>3, AgreeKeeps
<1> QED
  BY <1>1, <1>2, <1>3

LEMMA ProgramStarts ==
    ASSUME Init
    PROVE  ProgramInv
<1>1. input \in Given /\ value = input /\ Direct /\ stopped.inferred = "ok"
  BY DEF Init, Given, Direct, NotStopped
<1> QED
  BY <1>1, GivenOperand DEF ProgramInv, NoSpuriousReject

LEMMA ProgramSteps ==
    ASSUME ProgramInv, AnyBranches = FALSE, [Next]_vars
    PROVE  ProgramInv'
<1>1. CASE Next
  BY <1>1, ElementwiseKeep, BinaryKeep, MovesKeep, ConcatenateKeeps, SliceKeeps, PadKeeps, FFTKeeps, ProductsKeep,
     OutputsKeep, AllReduceKeeps, GatherKeeps, ScatterKeeps, ReductionsKeep, CollectivesKeep, DynamicKeep,
     DynamicSlicesKeep, ControlFlowKeeps DEF Next
<1>2. CASE vars' = vars
  BY <1>2 DEF vars, ProgramInv, Direct, Operand, NoSpuriousReject
<1> QED
  BY <1>1, <1>2

LEMMA ProgramInvariant ==
    ASSUME AnyBranches = FALSE
    PROVE  Spec => []ProgramInv
  BY ProgramStarts, ProgramSteps, PTL DEF Spec

\* What the builder has inferred of a value is true of it at run time: its type,
\* the number of its axes and every dimension that is given, after any sequence of
\* operations of ops.go and collective.go, whatever the ranks and the arguments.
THEOREM InferredShapesCover ==
    ASSUME AnyBranches = FALSE
    PROVE  Spec => []ShapesCover
<1>1. ProgramInv => ShapesCover
  BY DEF ProgramInv, Operand, Describes, ShapesCover
<1> QED
  BY <1>1, ProgramInvariant, PTL

\* The builder refuses no operation that is right for the shapes that its operands
\* have at run time, except those that need to know a dimension: a rule of shape
\* inference is never stricter with a dimension that it does not know.
THEOREM NothingRefusedForWantOfKnowledge ==
    ASSUME AnyBranches = FALSE
    PROVE  Spec => []NoSpuriousReject
<1>1. ProgramInv => NoSpuriousReject
  BY DEF ProgramInv
<1> QED
  BY <1>1, ProgramInvariant, PTL

-------------------------------------------------------------------------------
(* The order of two operands. *)

\* Results that say the same, whatever bounds they carry.
SameResult(r, c) == r.status = c.status /\ (r.status = "ok" => Equal(r.shapes[1], c.shapes[1]))

LEMMA SameOk == \A v, w : Equal(v, w) => SameResult(Ok1(v), Ok1(w))
  BY DEF SameResult, Ok1, Ok

LEMMA SameError == SameResult(Error, Error)
  BY DEF SameResult, Error

LEMMA MergeEitherWay ==
    ASSUME NEW x \in Values, NEW y \in Values, Compatible(x.dims, y.dims)
    PROVE  MergeDims(x.dims, y.dims) = MergeDims(y.dims, x.dims) /\ Compatible(y.dims, x.dims)
<1>1. DOMAIN x.dims = 1 .. Len(x.dims) /\ DOMAIN y.dims = 1 .. Len(x.dims) /\ Len(x.dims) = Len(y.dims)
  BY DEF Values, Compatible
<1>2. \A i \in 1 .. Len(x.dims) : SameDim(x.dims[i], y.dims[i])
  BY <1>1 DEF Compatible
<1>3. \A i \in 1 .. Len(x.dims) : /\ Merge(x.dims[i], y.dims[i]) = Merge(y.dims[i], x.dims[i])
                                  /\ SameDim(y.dims[i], x.dims[i])
  BY <1>2 DEF SameDim, Merge
<1> QED
  BY <1>1, <1>3 DEF MergeDims, Compatible

LEMMA CompatibleEitherWay ==
    ASSUME NEW x \in Values, NEW y \in Values
    PROVE  Compatible(x.dims, y.dims) <=> Compatible(y.dims, x.dims)
  BY MergeEitherWay

LEMMA EmptySeq == \A d \in Seq(Int) : Len(d) = 0 => d = << >>
  OBVIOUS

LEMMA BinaryEitherWay ==
    ASSUME NEW x \in Values, NEW y \in Values, x.dtype = y.dtype, NEW op
    PROVE  SameResult(BinaryOp(op, x, y), BinaryOp(op, y, x))
<1> DEFINE fits(v, w) == /\ IF IsDynamic(v) \/ IsDynamic(w) THEN Rank(v) = Rank(w) ELSE Equal(v, w)
                         /\ TypeAllowed(op, v.dtype)
<1>1. /\ fits(x, y) \in BOOLEAN /\ fits(x, y) = fits(y, x)
      /\ fits(x, y) => Rank(x) = Rank(y)
  BY DEF Equal, IsDynamic, Rank
<1>2. ASSUME Rank(x) = Rank(y)
      PROVE  SameResult(binaryOpImpl(x, y), binaryOpImpl(y, x))
  <2>1. CASE IsScalar(x)
    <3>1. IsScalar(y) /\ x.dims = << >> /\ y.dims = << >>
      <4>1. Len(x.dims) = 0 /\ Len(y.dims) = 0
        BY <1>2, <2>1 DEF IsScalar, Rank
      <4>2. x.dims \in Seq(Int) /\ y.dims \in Seq(Int)
        BY DEF Values
      <4> QED
        BY <4>1, <4>2, EmptySeq DEF IsScalar, Rank
    <3> QED
      BY <2>1, <3>1 DEF binaryOpImpl, SameResult, Ok1, Ok, Equal
  <2>2. CASE ~IsScalar(x)
    <3>1. ~IsScalar(y)
      BY <1>2, <2>2 DEF IsScalar
    <3>2. CASE Compatible(x.dims, y.dims)
      <4> DEFINE d == MergeDims(x.dims, y.dims)
      <4>1. d = MergeDims(y.dims, x.dims) /\ Compatible(y.dims, x.dims)
        BY <3>2, MergeEitherWay
      <4> HIDE DEF d
      <4>2. Equal(WithDims(x, d), WithDims(y, d))
        BY DEF Values, WithDims, Equal
      <4>3. binaryOpImpl(x, y) = Ok1(WithDims(x, d)) /\ binaryOpImpl(y, x) = Ok1(WithDims(y, d))
        BY <2>2, <3>1, <3>2, <4>1 DEF binaryOpImpl, Guard, d
      <4> QED
        BY <4>2, <4>3 DEF SameResult, Ok1, Ok
    <3>3. CASE ~Compatible(x.dims, y.dims)
      <4>1. binaryOpImpl(x, y) = Error /\ binaryOpImpl(y, x) = Error
        BY <2>2, <3>1, <3>3, CompatibleEitherWay DEF binaryOpImpl, Guard
      <4> QED
        BY <4>1 DEF SameResult, Error
    <3> QED
      BY <3>2, <3>3
  <2> QED
    BY <2>1, <2>2
<1>3. BinaryOp(op, x, y) = Guard(fits(x, y), binaryOpImpl(x, y)) /\ BinaryOp(op, y, x) = Guard(fits(y, x), binaryOpImpl(y, x))
  BY DEF BinaryOp
<1> HIDE DEF fits
<1> QED
  BY <1>1, <1>2, <1>3 DEF Guard, SameResult, Error

LEMMA ComplexEitherWay ==
    ASSUME NEW x \in Values, NEW y \in Values, x.dtype = y.dtype
    PROVE  SameResult(Complex(x, y), Complex(y, x))
<1> DEFINE d == MergeDims(x.dims, y.dims)
           part(v) == WithDims(WithDType(v, ComplexDType(v.dtype)), d)
           g == x.dtype \in {"f32", "f64"} /\ Compatible(x.dims, y.dims)
<1>1. Compatible(y.dims, x.dims) <=> Compatible(x.dims, y.dims)
  BY CompatibleEitherWay
<1>2. g => d = MergeDims(y.dims, x.dims)
  BY MergeEitherWay
<1> HIDE DEF d
<1>3. Equal(part(x), part(y))
  BY DEF Values, WithDims, WithDType, Equal
<1>4. Complex(x, y) = Guard(g, Ok1(part(x)))
  BY DEF Complex, d, Guard
<1>5. Complex(y, x) = Guard(g, Ok1(part(y)))
  BY <1>1, <1>2 DEF Complex, Guard
<1> HIDE DEF part, g
<1> QED
  BY <1>3, <1>4, <1>5 DEF Guard, SameResult, Ok1, Ok, Error

\* What a binary operation says does not depend on the bounds of its operands.
LEMMA BinaryOfEqual ==
    ASSUME NEW x \in Values, NEW y \in Values, NEW v \in Values, NEW w \in Values, NEW op,
           Equal(x, y), Equal(x, v), Equal(x, w)
    PROVE  SameResult(BinaryOp(op, x, y), BinaryOp(op, v, w))
<1> DEFINE d == MergeDims(x.dims, x.dims)
<1>1. /\ x.dtype = y.dtype /\ x.dims = y.dims /\ x.dtype = v.dtype /\ x.dims = v.dims /\ x.dtype = w.dtype /\ x.dims = w.dims
  BY DEF Equal
<1>2. /\ IsScalar(x) = IsScalar(v) /\ IsDynamic(x) = IsDynamic(v) /\ IsDynamic(y) = IsDynamic(w)
      /\ Rank(x) = Rank(y) /\ Rank(v) = Rank(w) /\ IsScalar(y) = IsScalar(w) /\ IsScalar(y) = IsScalar(x)
      /\ Equal(v, w)
  BY <1>1 DEF IsScalar, IsDynamic, Rank, Equal
<1>3. Equal(WithDims(x, d), WithDims(v, d))
  BY <1>1 DEF Values, WithDims, Equal
<1>4. MergeDims(x.dims, y.dims) = d /\ MergeDims(v.dims, w.dims) = d /\ Compatible(x.dims, y.dims) = Compatible(v.dims, w.dims)
  BY <1>1
<1> HIDE DEF d
<1>5. SameResult(binaryOpImpl(x, y), binaryOpImpl(v, w))
  <2>1. CASE IsScalar(x)
    <3>1. binaryOpImpl(x, y) = Ok1(y) /\ binaryOpImpl(v, w) = Ok1(w)
      BY <1>2, <2>1 DEF binaryOpImpl
    <3>2. Equal(y, w)
      BY <1>1 DEF Equal
    <3> QED
      BY <3>1, <3>2, SameOk
  <2>2. CASE ~IsScalar(x)
    <3>1. /\ binaryOpImpl(x, y) = Guard(Compatible(x.dims, y.dims), Ok1(WithDims(x, d)))
          /\ binaryOpImpl(v, w) = Guard(Compatible(x.dims, y.dims), Ok1(WithDims(v, d)))
      BY <1>2, <1>4, <2>2 DEF binaryOpImpl
    <3> QED
      BY <1>3, <3>1 DEF SameResult, Guard, Ok1, Ok, Error
  <2> QED
    BY <2>1, <2>2
<1>6. /\ BinaryOp(op, x, y) = Guard(TypeAllowed(op, x.dtype), binaryOpImpl(x, y))
      /\ BinaryOp(op, v, w) = Guard(TypeAllowed(op, x.dtype), binaryOpImpl(v, w))
  BY <1>1, <1>2 DEF BinaryOp, Guard
<1> QED
  BY <1>5, <1>6 DEF SameResult, Guard, Error

\* The operands that a binary operation of the backend ends up with.
LEMMA ScalarStretched ==
    ASSUME NEW x \in Values, NEW y \in Values, x.dtype = y.dtype, IsScalar(x), ~IsScalar(y)
    PROVE  broadcastForBinaryOps(x, y) = Ok(<<y, y>>) /\ broadcastForBinaryOps(y, x) = Ok(<<y, y>>)
<1>1. ~Equal(x, y) /\ ~Equal(y, x) /\ Equal(y, y)
  BY DEF Equal, IsScalar, Rank
<1>2. broadcastShapeForBinaryOps(x, y) = Ok1(y) /\ broadcastShapeForBinaryOps(y, x) = Ok1(y)
  BY DEF broadcastShapeForBinaryOps
<1>3. broadcastNodeToShape(y, y) = Ok1(y)
  BY <1>1 DEF broadcastNodeToShape
<1>4. broadcastNodeToShape(x, y) = Ok1(y)
  <2>1. Rank(y) >= 0 /\ Rank(x) = 0 /\ Rank(y) \in Nat
    BY DEF IsScalar, Rank, Values
  <2>2. BroadcastInDim(x, y, << >>) = Ok1(y)
    BY <2>1 DEF BroadcastInDim, Guard
  <2> QED
    BY <1>1, <2>2 DEF broadcastNodeToShape
<1>5. Together(<<Ok1(y), Ok1(y)>>) = Ok(<<y, y>>)
  BY DEF Together, Ok1, Ok
<1> QED
  BY <1>1, <1>2, <1>3, <1>4, <1>5 DEF broadcastForBinaryOps, Ok1, Ok

\* The same shape, when both have axes.
Larger(d, e) == [i \in DOMAIN d |-> IF d[i] > e[i] THEN d[i] ELSE e[i]]
Stretchable(x, y) ==
    /\ Rank(x) = Rank(y)
    /\ \A i \in DOMAIN x.dims : 1 \in {x.dims[i], y.dims[i]} \/ x.dims[i] = y.dims[i]

LEMMA NodeStretched ==
    ASSUME NEW x \in Values, NEW t \in Values, ~IsScalar(x), x.dtype = t.dtype, Rank(x) = Rank(t),
           \A i \in 1 .. Rank(x) : x.dims[i] = 1 \/ x.dims[i] = t.dims[i]
    PROVE  \E n \in Values : broadcastNodeToShape(x, t) = Ok1(n) /\ Equal(n, t)
<1>1. CASE Equal(x, t)
  BY <1>1 DEF broadcastNodeToShape
<1>2. CASE ~Equal(x, t)
  <2>1. Rank(t) \in Nat
    BY DEF Rank, Values
  <2> DEFINE axes == IotaAxes(Rank(t))
             to(i) == AdjustAxis(axes[i], Rank(t)) + 1
  <2>2. DOMAIN axes = 1 .. Rank(t) /\ Len(axes) = Rank(t) /\ \A i \in 1 .. Rank(t) : axes[i] = i - 1
    BY <2>1 DEF IotaAxes
  <2> HIDE DEF axes
  <2>3. \A i \in 1 .. Rank(t) : to(i) = i /\ InRankNeg(axes[i], Rank(t))
    BY <2>1, <2>2 DEF AdjustAxis, InRankNeg
  <2>4. BroadcastInDim(x, t, axes) = Ok1(t)
    BY <2>1, <2>2, <2>3 DEF BroadcastInDim, Guard, SameDim
  <2>5. Equal(t, t)
    BY DEF Equal
  <2> QED
    BY <1>2, <2>4, <2>5 DEF broadcastNodeToShape, axes
<1> QED
  BY <1>1, <1>2

LEMMA PairStretched ==
    ASSUME NEW x \in Values, NEW y \in Values, x.dtype = y.dtype, ~IsScalar(x), ~IsScalar(y), ~Equal(x, y),
           \A i \in 1 .. Rank(x) : x.dims[i] >= 1, \A i \in 1 .. Rank(y) : y.dims[i] >= 1, Stretchable(x, y)
    PROVE  \E v \in Values, w \in Values :
               /\ broadcastForBinaryOps(x, y) = Ok(<<v, w>>) /\ v.dims = Larger(x.dims, y.dims) /\ v.dtype = x.dtype
               /\ w.dims = Larger(x.dims, y.dims) /\ w.dtype = x.dtype
<1> DEFINE d == Larger(x.dims, y.dims)
           t == WithDims(x, d)
<1>1. /\ x.dims \in Seq(Int) /\ y.dims \in Seq(Int) /\ DOMAIN x.dims = 1 .. Rank(x) /\ Rank(x) \in Nat
      /\ DOMAIN y.dims = 1 .. Rank(x) /\ Rank(y) = Rank(x)
  BY DEF Values, Rank, Stretchable
<1>2. /\ \A i \in 1 .. Rank(x) : x.dims[i] \in Int /\ y.dims[i] \in Int
  BY <1>1
<1>3. /\ d \in Seq(Int) /\ Len(d) = Rank(x)
      /\ \A i \in 1 .. Rank(x) : (x.dims[i] = 1 \/ x.dims[i] = d[i]) /\ (y.dims[i] = 1 \/ y.dims[i] = d[i])
  <2>1. d = [i \in 1 .. Rank(x) |-> IF x.dims[i] > y.dims[i] THEN x.dims[i] ELSE y.dims[i]]
    BY <1>1 DEF Larger
  <2>2. \A i \in 1 .. Rank(x) : d[i] \in Int
    BY <1>2, <2>1
  <2>3. d \in [1 .. Rank(x) -> Int]
    BY <2>1, <2>2
  <2>4. d \in Seq(Int) /\ Len(d) = Rank(x)
    <3> HIDE DEF d
    <3> QED
      BY <1>1, <2>3
  <2>5. ASSUME NEW i \in 1 .. Rank(x)
        PROVE  (x.dims[i] = 1 \/ x.dims[i] = d[i]) /\ (y.dims[i] = 1 \/ y.dims[i] = d[i])
    <3>1. 1 \in {x.dims[i], y.dims[i]} \/ x.dims[i] = y.dims[i]
      BY <1>1 DEF Stretchable
    <3>2. d[i] = IF x.dims[i] > y.dims[i] THEN x.dims[i] ELSE y.dims[i]
      BY <2>1
    <3>3. x.dims[i] \in Int /\ y.dims[i] \in Int /\ x.dims[i] >= 1 /\ y.dims[i] >= 1
      BY <1>1, <1>2
    <3> QED
      BY <3>1, <3>2, <3>3
  <2> QED
    BY <2>4, <2>5
<1> HIDE DEF d
<1>4. t \in Values /\ t.dims = d /\ t.dtype = x.dtype /\ Rank(t) = Rank(x)
  BY <1>3 DEF WithDims, Values, Rank
<1>5. broadcastShapeForBinaryOps(x, y) = Ok1(t)
  BY DEF broadcastShapeForBinaryOps, Guard, Stretchable, Larger, d
<1> HIDE DEF t
<1>6. PICK v \in Values : broadcastNodeToShape(x, t) = Ok1(v) /\ Equal(v, t)
  BY <1>3, <1>4, NodeStretched
<1>7. PICK w \in Values : broadcastNodeToShape(y, t) = Ok1(w) /\ Equal(w, t)
  BY <1>1, <1>3, <1>4, NodeStretched
<1>8. Together(<<Ok1(v), Ok1(w)>>) = Ok(<<v, w>>)
  BY DEF Together, Ok1, Ok
<1>9. broadcastForBinaryOps(x, y) = Ok(<<v, w>>)
  BY <1>5, <1>6, <1>7, <1>8 DEF broadcastForBinaryOps, Ok1, Ok
<1> QED
  BY <1>4, <1>6, <1>7, <1>9 DEF Equal, d

\* Either operand may be the one that is stretched.
LEMMA StretchedEitherWay ==
    ASSUME NEW x \in Values, NEW y \in Values, NEW op,
           \A i \in 1 .. Rank(x) : x.dims[i] >= 1, \A i \in 1 .. Rank(y) : y.dims[i] >= 1
    PROVE  SameResult(XlaBinaryOp(op, x, y), XlaBinaryOp(op, y, x))
<1> DEFINE f == BinaryOperation[op]
<1>0. ASSUME NEW r, NEW c, NEW v, NEW w
      PROVE  /\ broadcastForBinaryOps(r, c) = Ok(<<v, w>>) => XlaBinaryOp(op, r, c) = BinaryOp(f, v, w)
             /\ broadcastForBinaryOps(r, c) = Error => XlaBinaryOp(op, r, c) = Error
  BY DEF XlaBinaryOp, Broadcast, Ok, Error
<1> HIDE DEF f
<1>1. CASE x.dtype # y.dtype
  <2>1. broadcastForBinaryOps(x, y) = Error /\ broadcastForBinaryOps(y, x) = Error
    BY <1>1 DEF broadcastForBinaryOps
  <2>2. XlaBinaryOp(op, x, y) = Error /\ XlaBinaryOp(op, y, x) = Error
    BY <1>0, <2>1
  <2> QED
    BY <2>2, SameError
<1>2. CASE Equal(x, y)
  <2>1. x.dtype = y.dtype /\ Equal(y, x)
    BY <1>2 DEF Equal
  <2>2. broadcastForBinaryOps(x, y) = Ok(<<x, y>>) /\ broadcastForBinaryOps(y, x) = Ok(<<y, x>>)
    BY <1>2, <2>1 DEF broadcastForBinaryOps
  <2> QED
    BY <1>0, <2>1, <2>2, BinaryEitherWay
<1>3. CASE x.dtype = y.dtype /\ ~Equal(x, y)
  <2>1. ASSUME NEW v, NEW w, broadcastForBinaryOps(x, y) = Ok(<<v, w>>), broadcastForBinaryOps(y, x) = Ok(<<v, w>>)
        PROVE  SameResult(XlaBinaryOp(op, x, y), XlaBinaryOp(op, y, x))
    <3>1. XlaBinaryOp(op, x, y) = XlaBinaryOp(op, y, x)
      BY <1>0, <2>1
    <3> QED
      BY <3>1 DEF SameResult, Equal
  <2>2. CASE IsScalar(x)
    <3>1. ~IsScalar(y)
      <4>1. ASSUME IsScalar(y)
            PROVE  FALSE
        <5>1. x.dims \in Seq(Int) /\ y.dims \in Seq(Int) /\ Len(x.dims) = 0 /\ Len(y.dims) = 0
          BY <2>2, <4>1 DEF Values, IsScalar, Rank
        <5>2. x.dims = << >> /\ y.dims = << >>
          BY <5>1, EmptySeq
        <5> QED
          BY <1>3, <5>2 DEF Equal
      <4> QED
        BY <4>1
    <3> QED
      BY <1>3, <2>1, <2>2, <3>1, ScalarStretched
  <2>3. CASE ~IsScalar(x) /\ IsScalar(y)
    BY <1>3, <2>1, <2>3, ScalarStretched
  <2>4. CASE ~IsScalar(x) /\ ~IsScalar(y) /\ Stretchable(x, y)
    <3>1. Stretchable(y, x) /\ ~Equal(y, x) /\ Larger(y.dims, x.dims) = Larger(x.dims, y.dims)
      <4>1. DOMAIN x.dims = DOMAIN y.dims /\ \A i \in DOMAIN x.dims : x.dims[i] \in Int /\ y.dims[i] \in Int
        BY <2>4 DEF Values, Rank, Stretchable
      <4>2. \A i \in DOMAIN x.dims : (IF x.dims[i] > y.dims[i] THEN x.dims[i] ELSE y.dims[i])
                                        = (IF y.dims[i] > x.dims[i] THEN y.dims[i] ELSE x.dims[i])
        BY <4>1
      <4> QED
        BY <1>3, <2>4, <4>1, <4>2 DEF Stretchable, Larger, Equal
    <3>2. PICK v \in Values, w \in Values :
               /\ broadcastForBinaryOps(x, y) = Ok(<<v, w>>) /\ v.dims = Larger(x.dims, y.dims) /\ v.dtype = x.dtype
               /\ w.dims = Larger(x.dims, y.dims) /\ w.dtype = x.dtype
      BY <1>3, <2>4, PairStretched
    <3>3. PICK v2 \in Values, w2 \in Values :
               /\ broadcastForBinaryOps(y, x) = Ok(<<v2, w2>>) /\ v2.dims = Larger(y.dims, x.dims) /\ v2.dtype = y.dtype
               /\ w2.dims = Larger(y.dims, x.dims) /\ w2.dtype = y.dtype
      BY <1>3, <2>4, <3>1, PairStretched
    <3>4. Equal(v, w) /\ Equal(v, v2) /\ Equal(v, w2)
      BY <1>3, <3>1, <3>2, <3>3 DEF Equal
    <3> QED
      BY <1>0, <3>2, <3>3, <3>4, BinaryOfEqual
  <2>5. CASE ~IsScalar(x) /\ ~IsScalar(y) /\ ~Stretchable(x, y)
    <3>1. ~Stretchable(y, x) /\ ~Equal(y, x)
      BY <1>3, <2>5 DEF Stretchable, Equal, Values, Rank
    <3>2. broadcastShapeForBinaryOps(x, y) = Error /\ broadcastShapeForBinaryOps(y, x) = Error
      BY <2>5, <3>1 DEF broadcastShapeForBinaryOps, Guard, Stretchable
    <3>3. broadcastForBinaryOps(x, y) = Error /\ broadcastForBinaryOps(y, x) = Error
      BY <1>3, <3>1, <3>2 DEF broadcastForBinaryOps, Error
    <3>4. XlaBinaryOp(op, x, y) = Error /\ XlaBinaryOp(op, y, x) = Error
      BY <1>0, <3>3
    <3> QED
      BY <3>4, SameError
  <2> QED
    BY <2>2, <2>3, <2>4, <2>5
<1> QED
  BY <1>1, <1>2, <1>3 DEF Equal

\* A maximum, or a complex number, says the same of its result whichever operand comes first.
THEOREM OrderOfOperands ==
    ASSUME AnyBranches = FALSE
    PROVE  Spec => []OperandOrderIrrelevant
<1>1. ASSUME ProgramInv
      PROVE  OperandOrderIrrelevant
  <2>1. Direct /\ {value.inferred, value.actual, input.inferred} \subseteq Values
    BY <1>1 DEF ProgramInv, Operand, Describes
  <2>2. ASSUME NEW x \in {value.inferred, value.actual, input.inferred},
               NEW y \in {value.inferred, value.actual, input.inferred}, x.dtype = y.dtype
        PROVE  /\ SameResult(BinaryOp("Maximum", x, y), BinaryOp("Maximum", y, x))
               /\ SameResult(Complex(x, y), Complex(y, x))
    BY <2>1, <2>2, BinaryEitherWay, ComplexEitherWay
  <2> QED
    BY <2>1, <2>2 DEF OperandOrderIrrelevant, SameResult
<1> QED
  BY <1>1, ProgramInvariant, PTL

-------------------------------------------------------------------------------
(* The number of elements. *)

\* Otherwise the numbers below the whole set, which are finitely many, would be
\* as many as their successors, of which zero is none.
LEMMA LeastNumber ==
    ASSUME NEW T \in SUBSET Nat, T # {}
    PROVE  \E x \in T : \A y \in T : x <= y
<1> DEFINE L == {n \in Nat : \A y \in T : n <= y}
<1> SUFFICES ASSUME L \cap T = {}
             PROVE  FALSE
  OBVIOUS
<1>1. PICK t \in T : t \in Nat
  OBVIOUS
<1>2. L \in SUBSET (0 .. t)
  BY <1>1
<1>3. IsFiniteSet(L)
  <2>1. IsFiniteSet(0 .. t)
    BY <1>1, FS_Interval
  <2> QED
    BY <1>2, <2>1, FS_Subset
<1>4. 0 \in L
  OBVIOUS
<1>5. ASSUME NEW n \in L
      PROVE  n + 1 \in L \ {0}
  <2>1. n \in Nat /\ n \notin T
    OBVIOUS
  <2>2. \A y \in T : n + 1 <= y
    BY <2>1
  <2> QED
    BY <2>1, <2>2
<1> HIDE DEF L
<1>6. Cardinality(L) \in Nat /\ IsFiniteSet(L \ {0}) /\ Cardinality(L \ {0}) = Cardinality(L) - 1
  BY <1>3, <1>4, FS_CardinalityType, FS_RemoveElement
<1> DEFINE next == [n \in L |-> n + 1]
<1>7. next \in [L -> L \ {0}] /\ \A n \in L : next[n] = n + 1
  BY <1>5
<1> HIDE DEF next
<1>8. Cardinality(L \ {0}) < Cardinality(L)
  BY <1>6
<1>9. \E x, y \in L : x # y /\ next[x] = next[y]
  BY <1>3, <1>6, <1>7, <1>8, FS_PigeonHole
<1> QED
  BY <1>7, <1>9 DEF L

LEMMA SubsetFacts ==
    ASSUME NEW D, IsFiniteSet(D), NEW t \in SUBSET D
    PROVE  /\ IsFiniteSet(t) /\ Cardinality(t) \in Nat /\ (Cardinality(t) = 0 <=> t = {})
           /\ \A x \in t : Cardinality(t \ {x}) = Cardinality(t) - 1
           /\ \A u \in SUBSET t : Cardinality(u) \in Nat /\ Cardinality(u) <= Cardinality(t) /\ (Cardinality(u) = Cardinality(t) => u = t)
<1>1. IsFiniteSet(t)
  BY FS_Subset
<1>2. Cardinality(t) \in Nat /\ (Cardinality(t) = 0 <=> t = {})
  BY <1>1, FS_CardinalityType, FS_EmptySet
<1>3. \A x \in t : Cardinality(t \ {x}) = Cardinality(t) - 1
  BY <1>1, FS_RemoveElement
<1>4. ASSUME NEW u \in SUBSET t
      PROVE  Cardinality(u) \in Nat /\ Cardinality(u) <= Cardinality(t) /\ (Cardinality(u) = Cardinality(t) => u = t)
  BY <1>1, FS_Subset, FS_CardinalityType
<1> QED
  BY <1>1, <1>2, <1>3, <1>4

LEMMA SmallerSubset ==
    ASSUME NEW D, IsFiniteSet(D), NEW t \in SUBSET D, NEW u \in SUBSET t, u # t
    PROVE  Cardinality(u) \in Nat /\ Cardinality(t) \in Nat /\ Cardinality(u) < Cardinality(t)
<1>1. Cardinality(t) \in Nat
  BY SubsetFacts
<1>2. Cardinality(u) \in Nat /\ Cardinality(u) <= Cardinality(t) /\ (Cardinality(u) = Cardinality(t) => u = t)
  BY SubsetFacts
<1> QED
  BY <1>1, <1>2

\* A property of a finite set that comes from that of its strict subsets.
LEMMA SubsetInduction ==
    ASSUME NEW D, IsFiniteSet(D), NEW S,
           \A t \in SUBSET D : (\A u \in SUBSET t : u # t => u \in S) => t \in S
    PROVE  SUBSET D \subseteq S
<1> DEFINE T == (SUBSET D) \ S
           sizes == {Cardinality(t) : t \in T}
<1> SUFFICES ASSUME T # {}
             PROVE  FALSE
  OBVIOUS
<1>1. sizes \in SUBSET Nat /\ sizes # {}
  BY SubsetFacts
<1>2. PICK n \in sizes : \A m \in sizes : n <= m
  <2> HIDE DEF sizes
  <2> QED
    BY <1>1, LeastNumber
<1>3. PICK t \in T : n = Cardinality(t)
  BY <1>2
<1>4. ASSUME NEW u \in SUBSET t, u # t
      PROVE  u \in S
  <2>0. t \in SUBSET D /\ u \in SUBSET D
    BY <1>3
  <2>1. Cardinality(u) \in Nat /\ Cardinality(t) \in Nat /\ Cardinality(u) < Cardinality(t)
    BY <1>4, <2>0, SmallerSubset
  <2>2. ~(Cardinality(u) \in sizes)
    BY <1>2, <1>3, <2>1
  <2> QED
    BY <1>3, <2>0, <2>2
<1> QED
  BY <1>3, <1>4

\* The products of the values of f over the subsets of D.
IsProduct(P, D, f) ==
    /\ P[{}] = 1
    /\ \A t \in SUBSET D : P[t] \in Nat /\ \A x \in t : P[t] = f[x] * P[t \ {x}]

\* One element after the other, in the order in which they are chosen.
AnyOf(t) == CHOOSE x \in t : TRUE
Multiplies(p, t, f) == p[t] = IF t = {} THEN 1 ELSE f[AnyOf(t)] * p[t \ {AnyOf(t)}]

LEMMA AnyOfIn == \A t : t # {} => AnyOf(t) \in t
  BY DEF AnyOf

LEMMA MultipliesExists ==
    ASSUME NEW D, IsFiniteSet(D), NEW f \in [D -> Nat]
    PROVE  \E p \in [SUBSET D -> Nat] : \A t \in SUBSET D : Multiplies(p, t, f)
<1> DEFINE OfUpTo(n) == {t \in SUBSET D : Cardinality(t) <= n}
           S == {t \in SUBSET D : \E p \in [OfUpTo(Cardinality(t)) -> Nat] : \A u \in OfUpTo(Cardinality(t)) : Multiplies(p, u, f)}
<1>1. ASSUME NEW t \in SUBSET D, \A u \in SUBSET t : u # t => u \in S
      PROVE  t \in S
  <2>1. Cardinality(t) \in Nat /\ (Cardinality(t) = 0 <=> t = {})
    BY SubsetFacts
  <2>2. CASE t = {}
    <3> DEFINE p == [u \in OfUpTo(0) |-> 1]
    <3>1. \A u \in OfUpTo(0) : u = {}
      <4>1. ASSUME NEW u \in SUBSET D, Cardinality(u) <= 0
            PROVE  u = {}
        BY <4>1, SubsetFacts
      <4> QED
        BY <4>1
    <3>2. p \in [OfUpTo(0) -> Nat] /\ \A u \in OfUpTo(0) : Multiplies(p, u, f)
      BY <3>1 DEF Multiplies
    <3> QED
      BY <2>1, <2>2, <3>2
  <2>3. CASE t # {}
    <3> DEFINE x == AnyOf(t)
               n == Cardinality(t \ {x})
    <3>1. x \in t /\ t \ {x} \in SUBSET t /\ t \ {x} # t
      BY <2>3, AnyOfIn
    <3>2. n \in Nat /\ Cardinality(t) = n + 1
      BY <2>1, <3>1, SubsetFacts
    <3>3. t \ {x} \in S
      BY <1>1, <3>1
    <3>4. PICK q \in [OfUpTo(n) -> Nat] : \A u \in OfUpTo(n) : Multiplies(q, u, f)
      BY <3>3
    <3> HIDE DEF n, x
    <3> DEFINE p == [u \in OfUpTo(n + 1) |-> IF u \in OfUpTo(n) THEN q[u] ELSE f[AnyOf(u)] * q[u \ {AnyOf(u)}]]
    <3>5. ASSUME NEW u \in OfUpTo(n + 1), u \notin OfUpTo(n)
          PROVE  /\ u # {} /\ AnyOf(u) \in u /\ u \ {AnyOf(u)} \in OfUpTo(n)
                 /\ f[AnyOf(u)] \in Nat /\ q[u \ {AnyOf(u)}] \in Nat
      <4>1. Cardinality(u) \in Nat /\ Cardinality(u) = n + 1 /\ (Cardinality(u) = 0 <=> u = {})
        BY <3>2, <3>5, SubsetFacts
      <4>2. u # {} /\ AnyOf(u) \in u
        BY <3>2, <4>1, AnyOfIn
      <4>3. Cardinality(u \ {AnyOf(u)}) = n
        BY <3>2, <4>1, <4>2, SubsetFacts
      <4>4. u \ {AnyOf(u)} \in OfUpTo(n)
        BY <3>2, <4>3
      <4> QED
        BY <3>4, <4>2, <4>4
    <3>6. ASSUME NEW u \in OfUpTo(n)
          PROVE  u \in OfUpTo(n + 1) /\ q[u] \in Nat /\ (u # {} => u \ {AnyOf(u)} \in OfUpTo(n))
      <4>1. Cardinality(u) \in Nat /\ Cardinality(u) <= n + 1
        BY <3>2, SubsetFacts
      <4>2. u # {} => Cardinality(u \ {AnyOf(u)}) \in Nat /\ Cardinality(u \ {AnyOf(u)}) <= Cardinality(u)
        BY SubsetFacts
      <4>3. u # {} => Cardinality(u \ {AnyOf(u)}) <= n
        BY <3>2, <4>1, <4>2
      <4> QED
        BY <4>1, <4>3
    <3>7. p \in [OfUpTo(n + 1) -> Nat]
      <4>1. ASSUME NEW u \in OfUpTo(n + 1)
            PROVE  (IF u \in OfUpTo(n) THEN q[u] ELSE f[AnyOf(u)] * q[u \ {AnyOf(u)}]) \in Nat
        BY <3>5, <3>6
      <4> QED
        BY <4>1
    <3>8. ASSUME NEW u \in OfUpTo(n + 1)
          PROVE  Multiplies(p, u, f)
      <4>1. CASE u \in OfUpTo(n)
        <5>1. p[u] = q[u] /\ (u # {} => p[u \ {AnyOf(u)}] = q[u \ {AnyOf(u)}])
          BY <3>6, <4>1
        <5> QED
          BY <3>4, <4>1, <5>1 DEF Multiplies
      <4>2. CASE u \notin OfUpTo(n)
        <5>1. u # {} /\ u \ {AnyOf(u)} \in OfUpTo(n) /\ u \ {AnyOf(u)} \in OfUpTo(n + 1)
          BY <3>5, <3>6, <4>2
        <5>2. p[u] = f[AnyOf(u)] * q[u \ {AnyOf(u)}] /\ p[u \ {AnyOf(u)}] = q[u \ {AnyOf(u)}]
          BY <4>2, <5>1
        <5> QED
          BY <5>1, <5>2 DEF Multiplies
      <4> QED
        BY <4>1, <4>2
    <3> HIDE DEF p
    <3> QED
      BY <3>2, <3>7, <3>8
  <2> QED
    BY <2>2, <2>3
<1> HIDE DEF S
<1>2. D \in S
  BY <1>1, SubsetInduction
<1>3. OfUpTo(Cardinality(D)) = SUBSET D
  BY SubsetFacts
<1> HIDE DEF OfUpTo
<1> QED
  BY <1>2, <1>3 DEF S

\* The order makes no difference.
LEMMA MultipliesInAnyOrder ==
    ASSUME NEW D, IsFiniteSet(D), NEW f \in [D -> Nat], NEW p, \A t \in SUBSET D : Multiplies(p, t, f)
    PROVE  IsProduct(p, D, f)
<1> DEFINE S == {t \in SUBSET D : p[t] \in Nat /\ \A x \in t : p[t] = f[x] * p[t \ {x}]}
<1>1. ASSUME NEW t \in SUBSET D, \A u \in SUBSET t : u # t => u \in S
      PROVE  t \in S
  <2>1. CASE t = {}
    <3>1. p[t] = 1
      BY <2>1 DEF Multiplies
    <3> QED
      BY <2>1, <3>1
  <2>2. CASE t # {}
    <3> DEFINE c == AnyOf(t)
    <3>1. c \in t /\ f[c] \in Nat /\ p[t] = f[c] * p[t \ {c}] /\ t \ {c} \in S
      BY <1>1, <2>2, AnyOfIn DEF Multiplies
    <3> HIDE DEF c
    <3>2. p[t \ {c}] \in Nat
      BY <3>1
    <3>3. ASSUME NEW x \in t, x # c
          PROVE  p[t] = f[x] * p[t \ {x}]
      <4>1. t \ {x} \in S /\ x \in t \ {c} /\ c \in t \ {x}
        BY <1>1, <3>1, <3>3
      <4>2. (t \ {x}) \ {c} = (t \ {c}) \ {x} /\ (t \ {c}) \ {x} \in S
        BY <1>1, <3>1
      <4>3. p[t \ {c}] = f[x] * p[(t \ {c}) \ {x}] /\ p[t \ {x}] = f[c] * p[(t \ {c}) \ {x}]
        BY <3>1, <4>1, <4>2
      <4>4. f[x] \in Nat /\ f[c] \in Nat /\ p[(t \ {c}) \ {x}] \in Nat
        BY <3>1, <4>2
      <4>5. \A k, l, m \in Nat : k * (l * m) = l * (k * m)
        OBVIOUS
      <4> QED
        BY <3>1, <4>3, <4>4, <4>5
    <3>4. f[c] * p[t \ {c}] \in Nat
      BY <3>1, <3>2
    <3> QED
      BY <3>1, <3>3, <3>4
  <2> QED
    BY <2>1, <2>2
<1> HIDE DEF S
<1>2. SUBSET D \subseteq S
  BY <1>1, SubsetInduction
<1>3. p[{}] = 1
  BY DEF Multiplies
<1> QED
  BY <1>2, <1>3 DEF IsProduct, S

\* The size of a shape is the product of its dimensions.
Sized(s, n) == n \in Nat /\ s.dims \in [1 .. n -> Nat]

LEMMA SizeIsProduct ==
    ASSUME NEW s, NEW n, Sized(s, n)
    PROVE  \E p : IsProduct(p, 1 .. n, s.dims) /\ Size(s) = p[1 .. n]
<1>0. n \in Nat /\ s.dims \in [1 .. n -> Nat]
  BY DEF Sized
<1> DEFINE D == 1 .. n
           f == s.dims
           Solves(p) == p = [t \in SUBSET D |-> IF t = {} THEN 1 ELSE f[AnyOf(t)] * p[t \ {AnyOf(t)}]]
           product == CHOOSE p : Solves(p)
<1>1. Size(s) = product[D]
  BY <1>0, Zenon DEF Size, FoldFunction, FoldFunctionOnSet, MapThenFoldSet, AnyOf
<1>2. IsFiniteSet(D)
  BY <1>0, FS_Interval
<1> HIDE DEF D, f
<1>3. PICK p \in [SUBSET D -> Nat] : \A t \in SUBSET D : Multiplies(p, t, f)
  BY <1>0, <1>2, MultipliesExists DEF D, f
<1>4. Solves(p)
  BY <1>3 DEF Multiplies
<1>5. Solves(product)
  BY <1>4
<1> HIDE DEF product
<1>6. \A t \in SUBSET D : Multiplies(product, t, f)
  BY <1>5 DEF Multiplies
<1>7. IsProduct(product, D, f)
  BY <1>0, <1>2, <1>6, MultipliesInAnyOrder DEF D, f
<1> QED
  BY <1>1, <1>7 DEF D, f

\* A product does not change when its factors are moved.
Moves(h, D, E, f, g) ==
    /\ h \in [D -> E]
    /\ \A k, l \in D : h[k] = h[l] => k = l
    /\ \A k \in D : f[k] = g[h[k]]

Moved(h, D) == {h[k] : k \in D}

LEMMA ProductMoved ==
    ASSUME NEW D, IsFiniteSet(D), NEW E, NEW P, NEW Q, NEW f, NEW g, NEW h,
           IsProduct(P, D, f), IsProduct(Q, E, g), Moves(h, D, E, f, g)
    PROVE  P[D] = Q[Moved(h, D)]
<1>0. h \in [D -> E] /\ (\A k, l \in D : h[k] = h[l] => k = l) /\ \A k \in D : f[k] = g[h[k]]
  BY DEF Moves
<1> DEFINE Image(t) == {h[k] : k \in t}
           S == {t \in SUBSET D : P[t] = Q[Image(t)]}
<1>1. ASSUME NEW t \in SUBSET D, \A u \in SUBSET t : u # t => u \in S
      PROVE  t \in S
  <2>1. CASE t = {}
    <3>1. Image(t) = {}
      BY <2>1
    <3> QED
      BY <2>1, <3>1 DEF IsProduct
  <2>2. CASE t # {}
    <3>1. PICK x \in t : TRUE
      BY <2>2
    <3>2. t \ {x} \in S
      BY <1>1, <3>1
    <3>3. Image(t) \in SUBSET E /\ h[x] \in Image(t) /\ Image(t \ {x}) = Image(t) \ {h[x]}
      BY <1>0, <3>1
    <3>4. P[t] = f[x] * P[t \ {x}]
      BY <3>1 DEF IsProduct
    <3>5. Q[Image(t)] = g[h[x]] * Q[Image(t) \ {h[x]}]
      <4> HIDE DEF Image
      <4> QED
        BY <3>3 DEF IsProduct
    <3>6. f[x] = g[h[x]]
      BY <1>0, <3>1
    <3> QED
      BY <3>2, <3>3, <3>4, <3>5, <3>6
  <2> QED
    BY <2>1, <2>2
<1> HIDE DEF S
<1>2. D \in S
  BY <1>1, SubsetInduction
<1> QED
  BY <1>2 DEF S, Moved

LEMMA RangeFinite ==
    ASSUME NEW n \in Nat
    PROVE  IsFiniteSet(1 .. n)
  BY FS_Interval

Same(f, g, t) == \A k \in t : f[k] = g[k]

LEMMA ProductPart ==
    ASSUME NEW D, NEW E, NEW P, NEW Q, NEW f, NEW g, IsProduct(P, D, f), IsProduct(Q, E, g),
           NEW t, IsFiniteSet(t), t \subseteq D, t \subseteq E, Same(f, g, t)
    PROVE  P[t] = Q[t]
<1> DEFINE h == [k \in t |-> k]
<1>1. Moves(h, t, E, f, g)
  BY DEF Moves, Same
<1>2. IsProduct(P, t, f)
  BY DEF IsProduct
<1>3. Moved(h, t) = t
  BY DEF Moved
<1> HIDE DEF h
<1>4. P[t] = Q[Moved(h, t)]
  BY <1>1, <1>2, ProductMoved
<1> QED
  BY <1>3, <1>4

\* Values with the same factors, moved, made or split.
LEMMA SizePermuted ==
    ASSUME NEW s, NEW r, NEW n, Sized(s, n), Sized(r, n), NEW h, Moves(h, 1 .. n, 1 .. n, r.dims, s.dims)
    PROVE  Size(r) = Size(s)
<1>1. IsFiniteSet(1 .. n)
  BY RangeFinite DEF Sized
<1>2. PICK P : IsProduct(P, 1 .. n, r.dims) /\ Size(r) = P[1 .. n]
  BY SizeIsProduct
<1>3. PICK Q : IsProduct(Q, 1 .. n, s.dims) /\ Size(s) = Q[1 .. n]
  BY SizeIsProduct
<1>4. Moved(h, 1 .. n) = 1 .. n
  <2>1. h \in Injection(1 .. n, 1 .. n)
    BY DEF Injection, IsInjective, Moves
  <2>2. h \in Surjection(1 .. n, 1 .. n)
    BY <1>1, <2>1, FS_Injection
  <2> QED
    BY <2>2 DEF Surjection, Moved
<1>5. P[1 .. n] = Q[Moved(h, 1 .. n)]
  BY <1>1, <1>2, <1>3, ProductMoved
<1> QED
  BY <1>2, <1>3, <1>4, <1>5

LEMMA SizeAppended ==
    ASSUME NEW s, NEW r, NEW n, Sized(s, n), Sized(r, n + 1), \A k \in 1 .. n : r.dims[k] = s.dims[k]
    PROVE  Size(r) = r.dims[n + 1] * Size(s) /\ Size(s) \in Nat
<1>1. n \in Nat /\ IsFiniteSet(1 .. n)
  BY RangeFinite DEF Sized
<1>2. PICK P : IsProduct(P, 1 .. n + 1, r.dims) /\ Size(r) = P[1 .. n + 1]
  BY SizeIsProduct
<1>3. PICK Q : IsProduct(Q, 1 .. n, s.dims) /\ Size(s) = Q[1 .. n]
  BY SizeIsProduct
<1>4. /\ (1 .. n + 1) \ {n + 1} = 1 .. n /\ n + 1 \in 1 .. n + 1
      /\ 1 .. n \subseteq 1 .. n + 1 /\ 1 .. n \subseteq 1 .. n /\ 1 .. n + 1 \in SUBSET (1 .. n + 1)
  BY <1>1
<1>5. Q[1 .. n] = P[1 .. n]
  <2> DEFINE D == 1 .. n
             E == 1 .. n + 1
             f == r.dims
             g == s.dims
  <2>1. Same(g, f, D)
    BY DEF Same
  <2>2. IsProduct(P, E, f) /\ IsProduct(Q, D, g) /\ IsFiniteSet(D) /\ D \subseteq E /\ D \subseteq D
    BY <1>1, <1>2, <1>3, <1>4
  <2> HIDE DEF D, E, f, g
  <2>3. Q[D] = P[D]
    BY <2>1, <2>2, ProductPart
  <2> QED
    BY <2>3 DEF D
<1>6. P[1 .. n + 1] = r.dims[n + 1] * P[1 .. n]
  <2>1. P[1 .. n + 1] = r.dims[n + 1] * P[(1 .. n + 1) \ {n + 1}]
    BY <1>2, <1>4 DEF IsProduct
  <2> QED
    BY <1>4, <2>1
<1>7. Q[1 .. n] \in Nat
  BY <1>3 DEF IsProduct
<1> QED
  BY <1>2, <1>3, <1>5, <1>6, <1>7

LEMMA SizeExchanged ==
    ASSUME NEW s, NEW r, NEW n, Sized(s, n), Sized(r, n),
           NEW i \in 1 .. n, NEW j \in 1 .. n, i # j, NEW m \in Nat,
           s.dims[i] = m * 2, r.dims[i] = m, r.dims[j] = s.dims[j] * 2,
           \A k \in 1 .. n : k # i /\ k # j => r.dims[k] = s.dims[k]
    PROVE  Size(r) = Size(s)
<1> DEFINE D == 1 .. n
           rest == (D \ {i}) \ {j}
           f == s.dims
           g == r.dims
<1>1. IsFiniteSet(D)
  BY RangeFinite DEF Sized
<1>2. PICK P : IsProduct(P, D, f) /\ Size(s) = P[D]
  BY SizeIsProduct
<1>3. PICK Q : IsProduct(Q, D, g) /\ Size(r) = Q[D]
  BY SizeIsProduct
<1>4. D \in SUBSET D /\ D \ {i} \in SUBSET D /\ rest \in SUBSET D /\ rest \subseteq D /\ i \in D /\ j \in D \ {i}
  OBVIOUS
<1>5. Same(f, g, rest)
  BY DEF Same
<1>6. f[i] = m * 2 /\ g[i] = m /\ g[j] = f[j] * 2 /\ f[j] \in Nat
  BY DEF Sized
<1> HIDE DEF D, f, g
<1>7. /\ P[D] = f[i] * P[D \ {i}] /\ P[D \ {i}] = f[j] * P[rest] /\ P[rest] \in Nat
      /\ Q[D] = g[i] * Q[D \ {i}] /\ Q[D \ {i}] = g[j] * Q[rest]
  BY <1>2, <1>3, <1>4 DEF IsProduct
<1> HIDE DEF rest
<1>8. IsFiniteSet(rest)
  BY <1>1, <1>4, FS_Subset
<1>9. P[rest] = Q[rest]
  <2>1. IsProduct(P, D, f) /\ IsProduct(Q, D, g) /\ rest \subseteq D
    BY <1>2, <1>3, <1>4
  <2> QED
    BY <1>5, <1>8, <2>1, ProductPart
<1>10. \A k, l \in Nat : (m * 2) * (k * l) = m * ((k * 2) * l)
  OBVIOUS
<1> QED
  BY <1>2, <1>3, <1>6, <1>7, <1>9, <1>10

\* What the value at hand has at run time.
Whole(a, n) ==
    /\ Sized(a, n) /\ Rank(a) = n /\ DOMAIN a.dims = 1 .. n /\ a.dtype \in DTypes
    /\ a.dims \in Seq(Int) /\ \A i \in 1 .. n : a.dims[i] \in Nat /\ a.dims[i] # DimUnknown

LEMMA TransposeKeeps ==
    ASSUME NEW a, NEW n, Whole(a, n), NEW p \in [1 .. n -> 0 .. n - 1], Distinct(p), Transpose(a, p).status = "ok"
    PROVE  BitsOf(Transpose(a, p).shapes[1]) = BitsOf(a)
<1> DEFINE r == WithDims(a, Permuted(a.dims, p))
           h == [k \in 1 .. n |-> p[k] + 1]
<1>1. /\ n \in Nat /\ a.dims \in [1 .. n -> Nat] /\ DOMAIN a.dims = 1 .. n
  BY DEF Whole, Sized
<1>2. Transpose(a, p).shapes[1] = r
  <2>1. Transpose(a, p) = Ok1(r)
    BY Zenon DEF Transpose, Guard, Error
  <2> QED
    BY <2>1 DEF Ok1, Ok
<1>3. r.dtype = a.dtype /\ r.dims = Permuted(a.dims, p)
  BY DEF WithDims
<1>4. h \in [1 .. n -> 1 .. n] /\ \A k, l \in 1 .. n : h[k] = h[l] => k = l
  BY <1>1 DEF Distinct
<1>5. r.dims \in [1 .. n -> Nat] /\ \A k \in 1 .. n : r.dims[k] = a.dims[h[k]]
  <2> DEFINE d == a.dims
             e == [k \in 1 .. n |-> d[p[k] + 1]]
  <2>1. r.dims = e
    BY <1>1, <1>3 DEF Permuted
  <2>2. \A k \in 1 .. n : h[k] = p[k] + 1 /\ h[k] \in 1 .. n
    BY <1>4
  <2>3. d \in [1 .. n -> Nat]
    BY <1>1
  <2> HIDE DEF d, r, h
  <2>4. e \in [1 .. n -> Nat] /\ \A k \in 1 .. n : e[k] = d[h[k]]
    BY <2>2, <2>3
  <2> QED
    BY <2>1, <2>4 DEF d
<1> HIDE DEF r, h
<1>6. Sized(a, n) /\ Sized(r, n) /\ Moves(h, 1 .. n, 1 .. n, r.dims, a.dims)
  BY <1>1, <1>4, <1>5 DEF Sized, Moves
<1>7. Size(r) = Size(a)
  BY <1>6, SizePermuted
<1> QED
  BY <1>2, <1>3, <1>7 DEF BitsOf

LEMMA AllToAllKeeps ==
    ASSUME NEW a, NEW n, Whole(a, n), NEW split \in 0 .. n - 1, NEW axis \in 0 .. n - 1,
           AllToAll(a, Replicas, split, axis, 2).status = "ok"
    PROVE  BitsOf(AllToAll(a, Replicas, split, axis, 2).shapes[1]) = BitsOf(a)
<1> DEFINE i == split + 1
           j == axis + 1
           after == [a.dims EXCEPT ![i] = Over(a.dims[i], 2)]
           r == WithDims(a, [after EXCEPT ![j] = Times(after[j], 2)])
<1>1. /\ n \in Nat /\ a.dims \in [1 .. n -> Nat] /\ DOMAIN a.dims = 1 .. n
      /\ \A k \in 1 .. n : a.dims[k] \in Nat /\ a.dims[k] # DimUnknown
  BY DEF Whole, Sized
<1>2. i \in 1 .. n /\ j \in 1 .. n
  BY <1>1
<1>3. Divides(2, a.dims[i]) /\ AllToAll(a, Replicas, split, axis, 2).shapes[1] = r
  <2>1. Divides(2, a.dims[i]) /\ AllToAll(a, Replicas, split, axis, 2) = Ok1(r)
    BY Zenon DEF AllToAll, JoinedAfterSplit, Times, Over, Guard, Error
  <2> QED
    BY <2>1 DEF Ok1, Ok
<1> HIDE DEF i, j
<1>4. PICK m \in Nat : a.dims[i] = m * 2
  <2> DEFINE d == a.dims[i]
  <2>1. d \in Nat /\ d % 2 = 0
    BY <1>1, <1>2, <1>3 DEF Divides
  <2> HIDE DEF d
  <2>2. d \div 2 \in Nat /\ d = (d \div 2) * 2
    BY <2>1
  <2> QED
    BY <2>2 DEF d
<1>5. Over(a.dims[i], 2) = m
  BY <1>1, <1>2, <1>4 DEF Over
<1>6. after = [a.dims EXCEPT ![i] = m] /\ m # DimUnknown
  BY <1>5 DEF DimUnknown
<1>7. r.dtype = a.dtype /\ r.dims = [after EXCEPT ![j] = Times(after[j], 2)]
  BY DEF WithDims
<1> HIDE DEF after, r
<1>8. CASE i = j
  <2>1. after[j] = m /\ Times(after[j], 2) = a.dims[i]
    BY <1>1, <1>2, <1>4, <1>6, <1>8 DEF Times
  <2>2. r.dims = a.dims
    BY <1>1, <1>2, <1>6, <1>7, <1>8, <2>1
  <2> QED
    BY <1>3, <1>7, <2>2 DEF BitsOf, Size
<1>9. CASE i # j
  <2>1. after[j] = a.dims[j] /\ Times(after[j], 2) = a.dims[j] * 2
    BY <1>1, <1>2, <1>6, <1>9 DEF Times
  <2>2. r.dims = [[a.dims EXCEPT ![i] = m] EXCEPT ![j] = a.dims[j] * 2]
    BY <1>6, <1>7, <2>1
  <2>3. a.dims[j] * 2 \in Nat
    BY <1>1, <1>2
  <2>4. /\ r.dims \in [1 .. n -> Nat] /\ r.dims[i] = m /\ r.dims[j] = a.dims[j] * 2
        /\ \A k \in 1 .. n : k # i /\ k # j => r.dims[k] = a.dims[k]
    BY <1>1, <1>2, <1>9, <2>2, <2>3
  <2>5. Sized(a, n) /\ Sized(r, n)
    BY <1>1, <2>4 DEF Sized
  <2>6. Size(r) = Size(a)
    BY <1>2, <1>4, <1>9, <2>4, <2>5, SizeExchanged
  <2> QED
    BY <1>3, <1>7, <2>6 DEF BitsOf
<1> QED
  BY <1>8, <1>9

\* One type has as many bits as several elements of the other.
LEMMA BitsDivide ==
    ASSUME NEW t \in DTypes, NEW u \in DTypes, Bits(t) > Bits(u), NEW k \in Nat
    PROVE  /\ Bits(t) \div Bits(u) \in Nat /\ (Bits(t) + Bits(u) - 1) \div Bits(u) = Bits(t) \div Bits(u)
           /\ Bits(u) * ((Bits(t) \div Bits(u)) * k) = Bits(t) * k
<1> DEFINE b == Bits(t)
           c == Bits(u)
           m == b \div c
<1>1. b \in {8, 16, 32, 64, 128} /\ c \in {8, 16, 32, 64, 128} /\ b > c
  BY BitsNumber
<1> HIDE DEF b, c
<1>2. m \in Nat /\ (b + c - 1) \div c = m /\ c * m = b
  BY <1>1
<1>3. \A w, x, y \in Nat : w * (x * y) = (w * x) * y
  OBVIOUS
<1>4. c \in Nat /\ b \in Nat
  BY <1>1
<1> HIDE DEF m
<1>5. c * (m * k) = b * k
  BY <1>2, <1>3, <1>4
<1> QED
  BY <1>2, <1>5 DEF b, c, m

LEMMA ListAppended ==
    ASSUME NEW n \in Nat, NEW d \in Seq(Nat), Len(d) = n, NEW m \in Nat
    PROVE  /\ Append(d, m) \in [1 .. n + 1 -> Nat] /\ Append(d, m)[n + 1] = m
           /\ \A k \in 1 .. n : Append(d, m)[k] = d[k]
<1>1. Append(d, m) \in Seq(Nat) /\ Len(Append(d, m)) = n + 1
  OBVIOUS
<1>2. Append(d, m)[n + 1] = m /\ \A k \in 1 .. n : Append(d, m)[k] = d[k]
  OBVIOUS
<1>3. \A e \in Seq(Nat) : Len(e) = n + 1 => e \in [1 .. n + 1 -> Nat]
  OBVIOUS
<1> QED
  BY <1>1, <1>2, <1>3, Zenon

LEMMA BitcastKeeps ==
    ASSUME NEW a, NEW n, Whole(a, n), NEW t \in DTypes, BitcastConvert(a, t).status = "ok"
    PROVE  BitsOf(BitcastConvert(a, t).shapes[1]) = BitsOf(a)
<1> DEFINE from == Bits(a.dtype)
           to == Bits(t)
           u == WithDType(a, t)
<1>1. /\ n \in Nat /\ a.dims \in [1 .. n -> Nat] /\ Rank(a) = n /\ a.dtype \in DTypes /\ Sized(a, n)
      /\ a.dims \in Seq(Int) /\ Len(a.dims) = n /\ \A k \in 1 .. n : a.dims[k] \in Nat /\ a.dims[k] # DimUnknown
  BY DEF Whole, Sized, Rank
<1>2. u.dtype = t /\ u.dims = a.dims
  BY DEF WithDType
<1>3. from \in Nat /\ to \in Nat
  BY <1>1, BitsNumber
<1>4. CASE from = to
  <2>1. BitcastConvert(a, t).shapes[1] = u
    BY <1>4 DEF BitcastConvert, Ok1, Ok
  <2> QED
    BY <1>2, <1>4, <2>1 DEF BitsOf, Size
<1>5. CASE from > to
  <2> DEFINE m == from \div to
             r == WithDims(u, Append(a.dims, m))
  <2>1. BitcastConvert(a, t).shapes[1] = r
    BY <1>3, <1>5 DEF BitcastConvert, Ok1, Ok
  <2>2. r.dtype = t /\ r.dims = Append(a.dims, m)
    BY <1>2 DEF WithDims, WithDType
  <2>3. m \in Nat
    BY <1>1, <1>5, BitsDivide
  <2> HIDE DEF m, r
  <2>4. r.dims \in [1 .. n + 1 -> Nat] /\ r.dims[n + 1] = m /\ \A k \in 1 .. n : r.dims[k] = a.dims[k]
    <3> DEFINE d == a.dims
    <3>1. d \in [1 .. n -> Nat] /\ Len(d) = n /\ d \in Seq(Nat)
      BY <1>1
    <3> HIDE DEF d
    <3>2. /\ Append(d, m) \in [1 .. n + 1 -> Nat] /\ Append(d, m)[n + 1] = m
          /\ \A k \in 1 .. n : Append(d, m)[k] = d[k]
      BY <1>1, <2>3, <3>1, ListAppended
    <3> QED
      BY <2>2, <3>2 DEF d
  <2>5. Sized(r, n + 1)
    BY <1>1, <2>4 DEF Sized
  <2>6. Size(r) = m * Size(a) /\ Size(a) \in Nat
    BY <1>1, <2>4, <2>5, SizeAppended
  <2>7. to * (m * Size(a)) = from * Size(a)
    BY <1>1, <1>5, <2>6, BitsDivide DEF m
  <2> QED
    BY <2>1, <2>2, <2>6, <2>7 DEF BitsOf
<1>6. CASE from < to
  <2> DEFINE m == to \div from
             last == a.dims[Rank(a)]
             r == WithDims(u, Front(a.dims))
  <2>1. n # 0 /\ SameDim(last, (to + from - 1) \div from) /\ BitcastConvert(a, t).shapes[1] = r
    <3>1. from # to /\ ~(from > to)
      BY <1>3, <1>6
    <3>2. n # 0
      BY <1>1, <3>1 DEF BitcastConvert, IsScalar, Panic
    <3>3. SameDim(last, (to + from - 1) \div from) /\ BitcastConvert(a, t) = Ok1(r)
      BY <1>1, <3>1, <3>2 DEF BitcastConvert, IsScalar, Guard, Error
    <3> QED
      BY <3>2, <3>3 DEF Ok1, Ok
  <2>2. m \in Nat /\ (to + from - 1) \div from = m
    BY <1>1, <1>6, BitsDivide
  <2>3. a.dims[n] = m
    <3>1. a.dims[n] # DimUnknown /\ m # DimUnknown
      BY <1>1, <2>1, <2>2 DEF DimUnknown
    <3> HIDE DEF m
    <3> QED
      BY <1>1, <2>1, <2>2, <3>1 DEF SameDim
  <2>4. r.dtype = t /\ r.dims = Front(a.dims)
    BY <1>2 DEF WithDims, WithDType
  <2> HIDE DEF m, r
  <2>5. r.dims = [k \in 1 .. n - 1 |-> a.dims[k]] /\ n - 1 \in Nat /\ (n - 1) + 1 = n
    BY <1>1, <2>1, <2>4 DEF Front
  <2>6. Sized(r, n - 1) /\ \A k \in 1 .. n - 1 : a.dims[k] = r.dims[k]
    BY <1>1, <2>5 DEF Sized
  <2>7. Size(a) = a.dims[(n - 1) + 1] * Size(r) /\ Size(r) \in Nat
    <3>1. Sized(a, (n - 1) + 1)
      BY <1>1, <2>5
    <3> QED
      BY <2>6, <3>1, SizeAppended
  <2>8. Size(a) = m * Size(r)
    BY <2>3, <2>5, <2>7
  <2>9. from * (m * Size(r)) = to * Size(r)
    BY <1>1, <1>6, <2>7, BitsDivide DEF m
  <2> QED
    BY <2>1, <2>4, <2>8, <2>9 DEF BitsOf
<1> QED
  BY <1>3, <1>4, <1>5, <1>6

\* The permutation, exchange or reinterpretation of a value of the program keeps
\* its bits: Transpose, AllToAll and BitcastConvert agree on the number of
\* elements, whatever the ranks and the dimensions.
THEOREM MovingKeepsElements ==
    ASSUME AnyBranches = FALSE
    PROVE  Spec => []ElementsKept
<1>1. ASSUME ProgramInv
      PROVE  ElementsKept
  <2> DEFINE a == value.actual
             n == Rank(a)
  <2>1. Operand(value.inferred, a)
    BY <1>1 DEF ProgramInv
  <2>2. Whole(a, n)
    <3>1. /\ a \in Values /\ n \in Nat /\ DOMAIN a.dims = 1 .. n
          /\ \A i \in 1 .. n : a.dims[i] \in Int /\ a.dims[i] >= 1
      BY <2>1, OperandFacts
    <3>2. a.dims \in Seq(Int) /\ a.dtype \in DTypes
      BY <3>1 DEF Values
    <3> HIDE DEF a, n
    <3>3. \A i \in 1 .. n : a.dims[i] \in Nat /\ a.dims[i] # DimUnknown
      BY <3>1 DEF DimUnknown
    <3>4. a.dims \in [1 .. n -> Nat]
      BY <3>1, <3>2, <3>3
    <3> QED
      BY <3>1, <3>2, <3>3, <3>4 DEF Whole, Sized, n
  <2>3. ASSUME NEW p \in AxisOrders(value), Transpose(a, p).status = "ok"
        PROVE  BitsOf(Transpose(a, p).shapes[1]) = BitsOf(a)
    <3>1. p \in [1 .. n -> 0 .. n - 1] /\ Distinct(p)
      BY <2>2, <2>3 DEF AxisOrders, Each, Axes, Whole
    <3> QED
      BY <2>2, <2>3, <3>1, TransposeKeeps
  <2>4. ASSUME NEW i \in Axes(value), NEW j \in Axes(value), AllToAll(a, Replicas, i, j, 2).status = "ok"
        PROVE  BitsOf(AllToAll(a, Replicas, i, j, 2).shapes[1]) = BitsOf(a)
    BY <2>2, <2>4, AllToAllKeeps DEF Axes
  <2>5. ASSUME NEW t \in {"u8", "i32", "f64"}, BitcastConvert(a, t).status = "ok"
        PROVE  BitsOf(BitcastConvert(a, t).shapes[1]) = BitsOf(a)
    <3>1. t \in DTypes
      BY DEF DTypes
    <3> QED
      BY <2>2, <2>5, <3>1, BitcastKeeps
  <2> QED
    BY <2>3, <2>4, <2>5 DEF ElementsKept
<1>2. Spec => []ProgramInv
  BY ProgramInvariant
<1> QED
  BY <1>1, <1>2, PTL

-------------------------------------------------------------------------------
(* Programs of the package among those of the run, which calls either. *)

\* A call of the backend is a step of a program written with the backend.
LEMMA CallsOfBackend ==
    ASSUME Direct, XlaNext
    PROVE  Next
<1>1. ~(CallBinary \/ CallComplex \/ CallComparison \/ CallIsNaN \/ CallUnary \/ CallAbs \/ CallConj \/ CallWhere)
  BY DEF CallBinary, CallComplex, CallComparison, CallIsNaN, CallUnary, CallAbs, CallConj, CallWhere, Call1, CallIf
<1>2. ~(CallPad \/ CallConvGeneral \/ CallDynamicSlice \/ CallDynamicUpdateSlice \/ CallIota)
  BY DEF CallPad, CallConvGeneral, CallDynamicSlice, CallDynamicUpdateSlice, CallIota, Call1, CallIf
<1>3. ~(CallOptimizationBarrier \/ CallSchedulingBarrier \/ CallDotGeneral \/ CallReduce \/ CallArgMinMax)
  BY DEF CallOptimizationBarrier, CallSchedulingBarrier, CallDotGeneral, CallReduce, CallArgMinMax, Call1, CallIf
<1>4. ~(CallReduceWindow \/ CallSelectAndScatter \/ CallScatter \/ CallAllReduce)
  BY DEF CallReduceWindow, CallSelectAndScatter, CallScatter, CallAllReduce, Call1, CallIf
<1>5. ~(CallAttention \/ CallAttentionVJP)
  BY DEF CallAttention, CallAttentionVJP, CallAttentionOp, CallIf
<1> QED
  BY <1>1, <1>2, <1>3, <1>4, <1>5 DEF XlaNext

\* A program in which all calls are of package stablehlo is one of ShapeProgram.
LEMMA ProgramsOfStableHLO == XlaSpec /\ []Direct => Spec
<1>1. Direct /\ (Init \/ XlaInit) => Init
  BY DEF XlaInit, Direct
<1>2. Direct /\ [XlaNext]_vars => [Next]_vars
  BY CallsOfBackend
<1> QED
  BY <1>1, <1>2, PTL DEF XlaSpec, Spec

\* In every program written with package stablehlo, among those of either package:
\* what is inferred is true at run time, nothing right is refused, elements are
\* kept and the order of two operands makes no difference.
THEOREM StableHLOPrograms ==
    ASSUME AnyBranches = FALSE
    PROVE  XlaSpec /\ []Direct => [](ShapesCover /\ NoSpuriousReject /\ ElementsKept /\ OperandOrderIrrelevant)
  BY ProgramsOfStableHLO, InferredShapesCover, NothingRefusedForWantOfKnowledge, MovingKeepsElements,
     OrderOfOperands, PTL
===============================================================================
