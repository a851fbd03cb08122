---------------------------- MODULE ShapeInference ----------------------------
(***************************************************************************)
(* Package internal/shapeinference: for every operation of StableHLO, the    *)
(* shapes of its outputs, or an error, from the shapes of its operands and    *)
(* its static arguments.  One operator per function of the package, with      *)
(* the checks in the order that decides between an error and a panic.         *)
(***************************************************************************)
EXTENDS Shapes
LOCAL INSTANCE SequencesExt

SetOf(s) == {s[i] : i \in DOMAIN s}
Distinct(s) == \A i, j \in DOMAIN s : s[i] = s[j] => i = j
AllInRank(axes, rank) == \A i \in DOMAIN axes : InRank(axes[i], rank)
Guard(check, result) == IF check THEN result ELSE Error
SumOf(s) == FoldSeq(LAMBDA x, y : x + y, 0, s)

\* The dimensions without those of a set of axes, in order.
Without(dims, axes) ==
    LET Kept == {i \in DOMAIN dims : i - 1 \notin axes}
    IN [k \in 1 .. Cardinality(Kept) |->
            dims[CHOOSE i \in Kept : Cardinality({j \in Kept : j <= i}) = k]]

-------------------------------------------------------------------------------
(* Elementwise operations. *)

BooleanOrBitwiseOperations == {"And", "Or", "Xor", "Not"}
BitwiseOperations == {"Popcnt", "ShiftLeft", "ShiftRightArithmetic",
                      "ShiftRightLogical", "CountLeadingZeros"}
NumberOperations == {"Add", "Subtract", "Multiply", "Divide", "Power", "Remainder",
                     "Abs", "Sign", "Compare"}
SignedNumberOperations == {"Negate"}
FloatOperations == {"Erf", "Logistic", "Cosine", "Sine", "Tanh"}
FloatOrComplexOperations == {"Exponential", "ExponentialMinusOne", "Log", "LogPlusOne",
                             "Ceil", "Floor", "RoundNearestEven", "Rsqrt", "Sqrt"}
StandardBinaryOperations ==
    {"Add", "Atan2", "Subtract", "Multiply", "Divide", "Power", "Remainder", "And", "Or",
     "Xor", "Maximum", "Minimum", "ShiftLeft", "ShiftRightArithmetic", "ShiftRightLogical"}
StandardUnaryOperations ==
    {"Not", "Popcnt", "Cbrt", "CountLeadingZeros", "Erf", "Exponential",
     "ExponentialMinusOne", "Log", "LogPlusOne", "Logistic", "Ceil", "Floor",
     "RoundNearestEven", "RoundNearestAfz", "Rsqrt", "Sqrt", "Cosine", "Sine", "Tan",
     "Tanh", "Abs", "Negate", "Sign"}

\* The types that an operation takes; only the type of the first operand is asked.
TypeAllowed(op, t) ==
    /\ op \in BooleanOrBitwiseOperations => t = "bool" \/ IsInt(t)
    /\ op \in BitwiseOperations => IsInt(t)
    /\ op \in SignedNumberOperations => IsNumber(t) /\ ~IsUnsigned(t)
    /\ op \in NumberOperations \ {"Compare"} => IsNumber(t)
    /\ op \in FloatOperations => IsFloat(t)
    /\ op \in FloatOrComplexOperations => IsFloat(t) \/ IsComplex(t)

\* Seeded bug: a dimension that only the second operand knows is lost.
binaryOpImpl_KeepsLeft(lhs, rhs) ==
    IF IsScalar(lhs) THEN Ok1(rhs)
    ELSE IF IsScalar(rhs) THEN Ok1(lhs)
    ELSE Guard(Compatible(lhs.dims, rhs.dims), Ok1(lhs))
binaryOpImpl(lhs, rhs) ==
    IF IsScalar(lhs) THEN Ok1(rhs)
    ELSE IF IsScalar(rhs) THEN Ok1(lhs)
    ELSE Guard(Compatible(lhs.dims, rhs.dims),
               Ok1(WithDims(lhs, MergeDims(lhs.dims, rhs.dims))))

\* With a dimension unknown on either side only the ranks are compared first.
BinaryOp(op, lhs, rhs) ==
    Guard(/\ IF IsDynamic(lhs) \/ IsDynamic(rhs) THEN Rank(lhs) = Rank(rhs)
                                                ELSE Equal(lhs, rhs)
          /\ TypeAllowed(op, lhs.dtype),
          binaryOpImpl(lhs, rhs))

CompareTypeAllowed(compareType, t) ==
    CASE compareType = "float" -> IsFloat(t) \/ IsComplex(t)
      [] compareType = "total_order" -> IsFloat(t)
      [] compareType = "signed" -> IsInt(t) /\ ~IsUnsigned(t)
      [] compareType = "unsigned" -> IsUnsigned(t) \/ t = "bool"

MapShapes(result, F(_)) ==
    [result EXCEPT !.shapes = [i \in DOMAIN result.shapes |-> F(result.shapes[i])]]

Compare(lhs, rhs, compareType) ==
    Guard(lhs.dtype = rhs.dtype /\ CompareTypeAllowed(compareType, lhs.dtype),
          MapShapes(BinaryOp("Compare", lhs, rhs), LAMBDA s : WithDType(s, "bool")))

RealDType(t) == IF t = "c64" THEN "f32" ELSE "f64"
ComplexDType(t) == IF t = "f32" THEN "c64" ELSE "c128"

UnaryOp(op, x) ==
    Guard(TypeAllowed(op, x.dtype),
          Ok1(IF op = "Abs" /\ IsComplex(x.dtype) THEN WithDType(x, RealDType(x.dtype)) ELSE x))

IsFinite(x) == Guard(IsFloat(x.dtype), Ok1(WithDType(x, "bool")))
RealOrImag(x) == Guard(IsComplex(x.dtype), Ok1(WithDType(x, RealDType(x.dtype))))

Complex(real, imag) ==
    Guard(/\ real.dtype = imag.dtype /\ real.dtype \in {"f32", "f64"}
          /\ Compatible(real.dims, imag.dims),
          Ok1(WithDims(WithDType(real, ComplexDType(real.dtype)),
                       MergeDims(real.dims, imag.dims))))

\* The predicate is compared with the first value only, and the result is the
\* shape of the first value, even where the second one is known better.
Select(pred, onTrue, onFalse) ==
    Guard(/\ pred.dtype = "bool"
          /\ ShapesCompatible(onTrue, onFalse)
          /\ IsScalar(pred) \/ Compatible(pred.dims, onTrue.dims),
          Ok1(onTrue))

Clamp(min, operand, max) ==
    LET fits(bound) == IsScalar(bound) \/ Compatible(bound.dims, operand.dims)
        merge(dims, bound) == IF IsScalar(bound) THEN dims ELSE MergeDims(dims, bound.dims)
    IN Guard(/\ operand.dtype = min.dtype /\ operand.dtype = max.dtype
             /\ ~IsComplex(operand.dtype) /\ operand.dtype # "bool"
             /\ fits(min) /\ fits(max),
             Ok1(WithDims(operand, merge(merge(operand.dims, min), max))))

-------------------------------------------------------------------------------
(* Operations that move the axes or the elements. *)

Permuted(dims, permutation) == [i \in DOMAIN dims |-> dims[permutation[i] + 1]]

\* The bounds of the operand are kept as they are.
Transpose(operand, permutation) ==
    Guard(/\ Len(permutation) = Rank(operand)
          /\ AllInRank(permutation, Rank(operand)) /\ Distinct(permutation),
          Ok1(WithDims(operand, Permuted(operand.dims, permutation))))

BroadcastInDim(operand, target, axesMapping) ==
    LET to(i) == AdjustAxis(axesMapping[i], Rank(target)) + 1
    IN Guard(/\ operand.dtype = target.dtype
             /\ Rank(target) >= Rank(operand)
             /\ Len(axesMapping) = Rank(operand)
             /\ \A i \in DOMAIN axesMapping : InRankNeg(axesMapping[i], Rank(target))
             /\ \A i, j \in DOMAIN axesMapping : to(i) = to(j) => i = j
             /\ \A i \in DOMAIN axesMapping :
                    operand.dims[i] = 1 \/ SameDim(operand.dims[i], target.dims[to(i)]),
             Ok1(target))

\* The dimension of several inputs joined along an axis.
Joined(dims) == IF DimUnknown \in SetOf(dims) THEN DimUnknown ELSE SumOf(dims)

\* Along the other axes at most one dimension is known.  A single input is
\* returned before the axis is looked at.
Concatenate(inputs, axis) ==
    LET first == inputs[1]
        At(i) == [k \in DOMAIN inputs |-> inputs[k].dims[i]]
        Known(i) == SetOf(At(i)) \ {DimUnknown}
    IN IF Len(inputs) = 1 THEN Ok1(first)
       ELSE Guard(/\ InRank(axis, Rank(first))
                  /\ \A k \in DOMAIN inputs : /\ inputs[k].dtype = first.dtype
                                              /\ Rank(inputs[k]) = Rank(first)
                  /\ \A i \in DOMAIN first.dims \ {axis + 1} : Cardinality(Known(i)) <= 1,
                  Ok1(WithDims(first, [i \in DOMAIN first.dims |->
                          IF i = axis + 1 THEN Joined(At(i))
                          ELSE IF Known(i) = {} THEN DimUnknown
                          ELSE CHOOSE d \in Known(i) : TRUE])))

SliceDim(dim, start, limit, stride) ==
    IF dim = DimUnknown THEN DimUnknown ELSE (limit - start + stride - 1) \div stride

\* A start at the end of the axis is an error, also for an empty slice.
Slice(operand, starts, limits, strides) ==
    Guard(/\ {Len(starts), Len(limits), Len(strides)} = {Rank(operand)}
          /\ \A i \in DOMAIN operand.dims :
                /\ strides[i] > 0
                /\ operand.dims[i] # DimUnknown =>
                       /\ starts[i] \in 0 .. operand.dims[i] - 1
                       /\ limits[i] \in starts[i] .. operand.dims[i],
          Ok1(Shape(operand.dtype,
                    [i \in DOMAIN operand.dims |->
                        SliceDim(operand.dims[i], starts[i], limits[i], strides[i])])))

PadDim(dim, low, high, interior) ==
    IF dim = DimUnknown THEN DimUnknown
    ELSE low + high + dim + (IF dim <= 1 THEN 0 ELSE (dim - 1) * interior)

\* A negative padding may ask for a dimension below zero: Make panics, or takes
\* it for an unknown dimension when it is exactly DimUnknown.
Pad(x, fill, low, high, interior) ==
    LET padded == [i \in DOMAIN x.dims |-> PadDim(x.dims[i], low[i], high[i], interior[i])]
    IN IF /\ x.dtype = fill.dtype /\ IsScalar(fill)
          /\ {Len(low), Len(high), Len(interior)} = {Rank(x)}
          /\ \A i \in DOMAIN interior : interior[i] >= 0
       THEN Make(x.dtype, padded) ELSE Error

\* To a smaller type the operand gains an axis, to a larger one it loses its last.
BitcastConvert(operand, target) ==
    LET from == Bits(operand.dtype)
        to == Bits(target)
        last == operand.dims[Rank(operand)]
    IN IF from = to THEN Ok1(WithDType(operand, target))
       ELSE IF from > to
       THEN Ok1(WithDims(WithDType(operand, target), Append(operand.dims, from \div to)))
       ELSE IF IsScalar(operand) THEN Panic
       ELSE Guard(SameDim(last, (to + from - 1) \div from),
                  Ok1(WithDims(WithDType(operand, target), Front(operand.dims))))

FFT(x, fftType, fftLength) ==
    LET last == Rank(x)
        half == Last(fftLength) \div 2 + 1
        resized(t, dim) == Ok1(WithDims(WithDType(x, t), [x.dims EXCEPT ![last] = dim]))
    IN IF Len(fftLength) > last \/ \E i \in DOMAIN fftLength : fftLength[i] <= 0 THEN Error
       ELSE CASE fftType \in {"fft", "ifft"} -> Guard(IsComplex(x.dtype), Ok1(x))
              [] fftType = "rfft" ->
                     Guard(IsFloat(x.dtype) /\ fftLength # << >>, resized(ComplexDType(x.dtype), half))
              [] fftType = "irfft" ->
                     Guard(IsComplex(x.dtype) /\ fftLength # << >> /\ SameDim(x.dims[last], half),
                           resized(RealDType(x.dtype), Last(fftLength)))

-------------------------------------------------------------------------------
(* Gathers, scatters, reductions and windows. *)

\* Arguments c of a gather: the axis of the index vectors, the axes of the output
\* that hold offsets, the axes of the operand that are collapsed, the pairs of
\* batching axes, the map from index to axis, and the sizes of a slice.  The
\* batching axes are not checked to be distinct, and the sizes of a slice are
\* asked to be one at the positions 0, 1, ... of that list as well.
Gather(operand, start, c) ==
    LET rank == Rank(operand)
        removed == SetOf(c.collapsed) \cup SetOf(c.operandBatching)
        implicit == c.indexVectorAxis = Rank(start)
        numIndexed == IF implicit THEN 1 ELSE start.dims[c.indexVectorAxis + 1]
        batchDims == Without(start.dims, {c.indexVectorAxis})
        outRank == Len(batchDims) + Len(c.offset)
        sizes == [i \in DOMAIN c.sizes |->
                    IF c.sizes[i] = DimUnknown THEN operand.dims[i] ELSE c.sizes[i]]
        offsetDims == Without(sizes, removed)
        isOffset(axis) == axis \in SetOf(c.offset)
        before(axis) == Cardinality({a \in 0 .. axis : isOffset(a) = isOffset(axis)})
    IN IF \/ ~(/\ rank > 0
               /\ AllInRank(c.collapsed, rank) /\ Distinct(c.collapsed)
               /\ AllInRank(c.operandBatching, rank)
               /\ AllInRank(c.startBatching, Rank(start)) /\ Distinct(c.startBatching)
               /\ c.indexVectorAxis \notin SetOf(c.startBatching)
               /\ Len(c.operandBatching) = Len(c.startBatching)
               /\ \A i \in DOMAIN c.operandBatching :
                     operand.dims[c.operandBatching[i] + 1] = start.dims[c.startBatching[i] + 1]
               /\ Len(c.sizes) = rank
               /\ \A i \in DOMAIN c.sizes :
                     /\ c.sizes[i] >= DimUnknown
                     /\ DimUnknown \in {c.sizes[i], operand.dims[i]} \/ c.sizes[i] <= operand.dims[i]
               /\ \A axis \in removed : c.sizes[axis + 1] = 1
               /\ \A i \in DOMAIN c.operandBatching \cap DOMAIN c.sizes : c.sizes[i] = 1)
       THEN Error
       ELSE IF Len(c.operandBatching) > rank THEN Panic
       ELSE Guard(/\ rank = Len(c.offset) + Len(c.collapsed) + Len(c.operandBatching)
                  /\ c.indexVectorAxis \in 0 .. Rank(start)
                  /\ Len(c.map) = numIndexed
                  /\ AllInRank(c.map, rank)
                  /\ AllInRank(c.offset, outRank) /\ Distinct(c.offset),
                  Ok1(Shape(operand.dtype,
                        [i \in 1 .. outRank |->
                            IF isOffset(i - 1) THEN offsetDims[before(i - 1)]
                                               ELSE batchDims[before(i - 1)]])))

\* The closure's signature: the types of its scalar inputs and outputs.
TypesOf(shapes) == [i \in DOMAIN shapes |-> shapes[i].dtype]
SameTypes(n, ins, outs) == \A i \in 1 .. n : ins[i].dtype = ins[i + n].dtype /\ ins[i].dtype = outs[i].dtype
Promotable(inputs, ins) == \A i \in DOMAIN inputs : IsPromotableTo(inputs[i].dtype, ins[i].dtype)

Scatter(inputs, indices, updates, c, ins, outs) ==
    LET n == Len(inputs)
    IN Guard(/\ n > 0 /\ Len(updates) = n
             /\ \A i \in 1 .. n : /\ Compatible(inputs[1].dims, inputs[i].dims)
                                  /\ Compatible(updates[1].dims, updates[i].dims)
                                  /\ updates[i].dtype = inputs[i].dtype
             /\ Rank(inputs[1]) = c.updateWindow + c.inputBatching + c.insertedWindow
             /\ Len(outs) = n /\ Len(ins) = 2 * n
             /\ Promotable(inputs, ins) /\ SameTypes(n, ins, outs),
             Ok([i \in 1 .. n |-> WithDType(inputs[i], outs[i].dtype)]))

\* The dimensions must be equal, an unknown one included.
Reduce(inputs, initials, ins, outs, axes) ==
    LET n == Len(inputs)
        rank == Rank(inputs[1])
        adjusted == [i \in DOMAIN axes |-> AdjustAxis(axes[i], rank)]
    IN Guard(/\ n > 0 /\ Len(initials) = n
             /\ \A i \in 1 .. n : /\ inputs[i].dtype = initials[i].dtype
                                  /\ inputs[i].dims = inputs[1].dims
             /\ Len(ins) = 2 * n /\ Len(outs) = n /\ SameTypes(n, ins, outs)
             /\ Len(axes) <= rank
             /\ \A i \in DOMAIN axes : InRankNeg(axes[i], rank)
             /\ Distinct(adjusted),
             Ok([i \in 1 .. n |-> Shape(outs[i].dtype, Without(inputs[1].dims, SetOf(adjusted)))]))

ArgMinMax(operand, axis, t) ==
    Guard(/\ IsInt(t) /\ (IsFloat(operand.dtype) \/ IsInt(operand.dtype))
          /\ InRank(axis, Rank(operand)),
          Ok1(Shape(t, Without(operand.dims, {axis}))))

\* The size of an axis, or of a window, whose elements are spread out.
Dilated(dim, dilation) == (dim - 1) * dilation + 1

\* Seeded bug: the last position of the window is forgotten.
WindowDim_NoLast(padded, window, stride) == (padded - window) \div stride
WindowDim(padded, window, stride) == (padded - window) \div stride + 1

\* Arguments c of a window: one value for every axis of the window, its strides,
\* the dilations of the operand and of the window, and the pairs of paddings.
ReduceWindow(inputs, initials, ins, outs, c) ==
    LET n == Len(inputs)
        base == inputs[1]
        axes == DOMAIN base.dims
        padded(i) == Dilated(base.dims[i], c.inputDilations[i]) + c.paddings[i][1] + c.paddings[i][2]
        window(i) == Dilated(c.window[i], c.windowDilations[i])
        dim(i) == IF base.dims[i] = DimUnknown THEN DimUnknown
                  ELSE WindowDim(padded(i), window(i), c.strides[i])
    IN IF \E i \in 1 .. n : ~CheckDims(inputs[i], base.dims) THEN Error
       ELSE IF \E i \in DOMAIN initials \cap 1 .. n :
                  initials[i].dtype # inputs[i].dtype \/ ~IsScalar(initials[i]) THEN Error
       ELSE IF Len(initials) > n THEN Panic
       ELSE Guard(/\ Len(ins) = 2 * n /\ Len(outs) = n
                  /\ SameTypes(n, ins, outs) /\ Promotable(inputs, ins)
                  /\ {Len(c.window), Len(c.strides), Len(c.paddings), Len(c.inputDilations),
                      Len(c.windowDilations)} = {Rank(base)}
                  /\ \A i \in axes :
                        /\ c.window[i] >= 1 /\ c.strides[i] >= 1
                        /\ c.paddings[i][1] >= 0 /\ c.paddings[i][2] >= 0
                        /\ c.inputDilations[i] >= 1 /\ c.windowDilations[i] >= 1
                        /\ base.dims[i] # DimUnknown => window(i) <= padded(i),
                  IF Rank(base) = 0 THEN Ok(inputs)
                  ELSE Ok([k \in 1 .. n |-> Shape(outs[k].dtype, [i \in axes |-> dim(i)])]))

\* Three axes configurations of a convolution: <<batch, channels, spatial>> for
\* the input and the output, <<input channels, output channels, spatial>> for the
\* kernel.  They name every axis once.
AxesConfig(axes, rank) ==
    /\ Len(axes[3]) = rank - 2
    /\ {axes[1], axes[2]} \cup SetOf(axes[3]) = 0 .. rank - 1

Divides(group, dim) == dim = DimUnknown \/ dim % group = 0

\* The output starts as a copy of the input, its bounds included.
Convolve(input, kernel, c) ==
    LET rank == Rank(input)
        channels == input.dims[c.input[2] + 1]
        outChannels == kernel.dims[c.kernel[2] + 1]
        kernelChannels == kernel.dims[c.kernel[1] + 1]
        batch == input.dims[c.input[1] + 1]
        inDim(k) == input.dims[c.input[3][k] + 1]
        kernelDim(k) == kernel.dims[c.kernel[3][k] + 1]
        unknown(k) == DimUnknown \in {inDim(k), kernelDim(k)}
        padded(k) == Dilated(inDim(k), c.inputDilations[k]) + c.paddings[k][1] + c.paddings[k][2]
        window(k) == Dilated(kernelDim(k), c.kernelDilations[k])
        spatial(k) == IF unknown(k) THEN DimUnknown ELSE WindowDim(padded(k), window(k), c.strides[k])
    IN Guard(/\ rank >= 3 /\ Rank(kernel) = rank
             /\ AxesConfig(c.input, rank) /\ AxesConfig(c.kernel, rank) /\ AxesConfig(c.output, rank)
             /\ {Len(c.strides), Len(c.paddings), Len(c.inputDilations), Len(c.kernelDilations)} = {rank - 2}
             /\ \A k \in 1 .. rank - 2 : c.inputDilations[k] >= 1 /\ c.kernelDilations[k] >= 1
             /\ c.channelGroups >= 1 /\ c.batchGroups >= 1 /\ 1 \in {c.channelGroups, c.batchGroups}
             /\ Divides(c.channelGroups, channels) /\ Divides(c.channelGroups, outChannels)
             /\ SameDim(channels, kernelChannels * (IF kernelChannels = DimUnknown THEN 1 ELSE c.channelGroups))
             /\ Divides(c.batchGroups, batch) /\ Divides(c.batchGroups, outChannels)
             /\ \A k \in 1 .. rank - 2 : c.strides[k] >= 1 /\ (unknown(k) \/ window(k) <= padded(k)),
             Ok1(WithDims(input, [i \in 1 .. rank |->
                    IF i = c.output[1] + 1
                    THEN (IF batch = DimUnknown THEN DimUnknown ELSE batch \div c.batchGroups)
                    ELSE IF i = c.output[2] + 1 THEN outChannels
                    ELSE spatial(CHOOSE k \in 1 .. rank - 2 : c.output[3][k] = i - 1)])))

\* Arguments c of a dot: contracting and batch axes of both sides.  That the
\* numbers of batch axes differ is noted and then forgotten: the shorter list on
\* the left gives an output, the longer one reads past the end of the right.
DotGeneral(lhs, rhs, c, outputDType) ==
    LET axesOf(axes, s) == [i \in DOMAIN axes |-> AdjustAxis(axes[i], Rank(s))]
        lc == axesOf(c.lhsContracting, lhs)
        lb == axesOf(c.lhsBatch, lhs)
        rc == axesOf(c.rhsContracting, rhs)
        rb == axesOf(c.rhsBatch, rhs)
        paired == DOMAIN lb \cap DOMAIN rb
        cross(s, contracting, batch) == Without(s.dims, SetOf(contracting) \cup SetOf(batch))
        valid(axes, s) == \A i \in DOMAIN axes : InRankNeg(axes[i], Rank(s))
    IN IF \/ lhs.dtype # rhs.dtype
          \/ Len(lc) # Len(rc)
          \/ ~(valid(c.lhsContracting, lhs) /\ valid(c.lhsBatch, lhs))
          \/ ~(valid(c.rhsContracting, rhs) /\ valid(c.rhsBatch, rhs))
          \/ \E i \in DOMAIN lc : ~SameDim(lhs.dims[lc[i] + 1], rhs.dims[rc[i] + 1])
          \/ \E i \in paired : ~SameDim(lhs.dims[lb[i] + 1], rhs.dims[rb[i] + 1])
       THEN Error
       ELSE IF \/ Len(lb) > Len(rb)
               \/ Len(lc) + Len(lb) > Rank(lhs) \/ Len(rc) + Len(rb) > Rank(rhs)
       THEN Panic
       ELSE Ok1(Shape(outputDType,
                      [i \in DOMAIN lb |-> Merge(lhs.dims[lb[i] + 1], rhs.dims[rb[i] + 1])]
                        \o cross(lhs, lc, lb) \o cross(rhs, rc, rb)))

-------------------------------------------------------------------------------
(* Collectives.  A list of groups of replicas is given as groups. *)

CollectiveBroadcast(operand, groups) == Guard(groups # << >>, Ok1(operand))
CollectivePermute(operand, pairs) == Guard(pairs # << >>, Ok1(operand))

\* Only the first group is looked at.
AllGather(operand, groups, axis) ==
    Guard(groups # << >> /\ InRank(axis, Rank(operand)),
          Ok1(WithDims(operand, [operand.dims EXCEPT
                ![axis + 1] = IF @ = DimUnknown THEN @ ELSE @ * Len(groups[1])])))

\* Seeded bug: the dimension to join is read before the split has changed it.
JoinedAfterSplit_Stale(dims, split, axis, count) ==
    [i \in DOMAIN dims |->
        IF i = axis THEN (IF dims[i] = DimUnknown THEN DimUnknown ELSE dims[i] * count)
        ELSE IF i = split THEN (IF dims[i] = DimUnknown THEN DimUnknown ELSE dims[i] \div count)
        ELSE dims[i]]

\* The split axis is divided, and the axis to join, which may be the same, then
\* multiplied.
JoinedAfterSplit(dims, split, axis, count) ==
    LET after == [dims EXCEPT ![split] = IF @ = DimUnknown THEN @ ELSE @ \div count]
    IN [after EXCEPT ![axis] = IF @ = DimUnknown THEN @ ELSE @ * count]

AllToAll(operand, groups, split, axis, count) ==
    Guard(/\ groups # << >>
          /\ InRank(split, Rank(operand)) /\ InRank(axis, Rank(operand))
          /\ count > 0
          /\ Divides(count, operand.dims[split + 1]),
          Ok1(WithDims(operand, JoinedAfterSplit(operand.dims, split + 1, axis + 1, count))))

AllReduce(operands, ins, outs, groups) ==
    LET t == operands[1].dtype
    IN Guard(/\ \A i \in DOMAIN operands : operands[i].dtype = t
             /\ groups # << >>
             /\ Len(ins) = 2 /\ Len(outs) = 1
             /\ \A s \in {ins[1], ins[2], outs[1]} : IsScalar(s) /\ s.dtype = t,
             Ok(operands))

-------------------------------------------------------------------------------
(* Control flow, with the shapes of the inputs and the outputs of closures. *)

AllCompatible(ss, ss2) ==
    Len(ss) = Len(ss2) /\ \A i \in DOMAIN ss : ShapesCompatible(ss[i], ss2[i])

Sort(inputs, axis) ==
    Guard(/\ inputs # << >> /\ InRank(axis, Rank(inputs[1]))
          /\ \A i \in DOMAIN inputs : Compatible(inputs[i].dims, inputs[1].dims),
          Ok(inputs))

While(states, condIns, condOuts, bodyIns, bodyOuts) ==
    Guard(/\ states # << >>
          /\ AllCompatible(condIns, states)
          /\ Len(condOuts) = 1 /\ IsScalar(condOuts[1]) /\ condOuts[1].dtype = "bool"
          /\ AllCompatible(bodyIns, states) /\ AllCompatible(bodyOuts, states),
          Ok(states))

If(pred, trueIns, trueOuts, falseIns, falseOuts) ==
    Guard(/\ IsScalar(pred) /\ pred.dtype = "bool"
          /\ trueIns = << >> /\ falseIns = << >>
          /\ AllCompatible(trueOuts, falseOuts),
          Ok([i \in DOMAIN trueOuts |->
                WithDims(trueOuts[i], MergeDims(trueOuts[i].dims, falseOuts[i].dims))]))

Call(operands, ins, outs) == Guard(AllCompatible(operands, ins), Ok(outs))
===============================================================================
