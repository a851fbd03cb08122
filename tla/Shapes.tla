-------------------------------- MODULE Shapes --------------------------------
(***************************************************************************)
(* The shapes of package types/shapes: an element type, a dimension for     *)
(* every axis, DimUnknown where it is only known at run time, and for such   *)
(* axes an optional upper bound.  Axes are numbered from zero in the code    *)
(* and in the arguments of the operators; a dimension is therefore at        *)
(* dims[axis + 1].  Tuples and quantized shapes are left out.                *)
(***************************************************************************)
EXTENDS Integers, Sequences, FiniteSets
LOCAL INSTANCE Functions

DimUnknown == -1

\* The element types that the rules of inference tell apart.
DTypes == {"bool", "u8", "i32", "bf16", "f32", "f64", "c64", "c128"}
IsUnsigned(t) == t = "u8"
IsInt(t) == t \in {"u8", "i32"}
IsFloat(t) == t \in {"bf16", "f32", "f64"}
IsComplex(t) == t \in {"c64", "c128"}
IsNumber(t) == IsInt(t) \/ IsFloat(t) \/ IsComplex(t)
Bits(t) == CASE t \in {"bool", "u8"} -> 8
             [] t = "bf16" -> 16
             [] t \in {"i32", "f32"} -> 32
             [] t \in {"f64", "c64"} -> 64
             [] t = "c128" -> 128

\* A value of the first type can be used where the second is expected.
IsPromotableTo(t, u) ==
    \/ t = u
    \/ /\ Bits(t) <= Bits(u)
       /\ \/ IsInt(t) /\ IsInt(u)
          \/ IsFloat(t) /\ IsFloat(u)
          \/ IsComplex(t) /\ IsComplex(u)

Shape(t, dims) == [dtype |-> t, dims |-> dims, bounds |-> << >>]
Rank(s) == Len(s.dims)
IsScalar(s) == Rank(s) = 0
IsDynamic(s) == \E i \in DOMAIN s.dims : s.dims[i] = DimUnknown
WithDType(s, t) == [s EXCEPT !.dtype = t]
WithDims(s, dims) == [s EXCEPT !.dims = dims]
Equal(s, s2) == s.dtype = s2.dtype /\ s.dims = s2.dims
Size(s) == FoldFunction(LAMBDA x, y : x * y, 1, s.dims)

\* Two dimensions may turn out to be the same at run time.
SameDim(a, b) == DimUnknown \in {a, b} \/ a = b
Compatible(d, e) == Len(d) = Len(e) /\ \A i \in DOMAIN d : SameDim(d[i], e[i])

\* CheckDims asks the same of a shape and of a list of dimensions.
CheckDims(s, dims) == Compatible(s.dims, dims)

\* The dimension that is known, when one of two is.
Merge(a, b) == IF a = DimUnknown THEN b ELSE a
MergeDims(d, e) == [i \in DOMAIN d |-> Merge(d[i], e[i])]

ShapesCompatible(s, s2) == s.dtype = s2.dtype /\ Compatible(s.dims, s2.dims)

-------------------------------------------------------------------------------
\* What a call returns: shapes, an error, or a panic.
Ok(shapes) == [status |-> "ok", shapes |-> shapes]
Ok1(shape) == Ok(<<shape>>)
Error == [status |-> "error", shapes |-> << >>]
Panic == [status |-> "panic", shapes |-> << >>]

\* shapes.Make panics on a dimension below DimUnknown.
Make(t, dims) ==
    IF \A i \in DOMAIN dims : dims[i] >= DimUnknown THEN Ok1(Shape(t, dims)) ELSE Panic

InRank(axis, rank) == axis \in 0 .. rank - 1
InRankNeg(axis, rank) == axis \in -rank .. rank - 1
AdjustAxis(axis, rank) == IF axis < 0 THEN axis + rank ELSE axis

-------------------------------------------------------------------------------
(***************************************************************************)
(* The relation between a shape and the shape its value has at run time.     *)
(***************************************************************************)
\* The bound that the text of the program gives for a dimension, or none.
HasBound(s, i) == s.dims[i] = DimUnknown /\ i <= Len(s.bounds) /\ s.bounds[i] > 0
CoversDim(d, c) == d \in {DimUnknown, c}
Covers(s, c) ==
    /\ s.dtype = c.dtype
    /\ Rank(s) = Rank(c)
    /\ \A i \in DOMAIN s.dims : CoversDim(s.dims[i], c.dims[i])
===============================================================================
