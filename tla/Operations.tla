------------------------------ MODULE Operations ------------------------------
(***************************************************************************)
(* The operations of package stablehlo as a program calls them: what ops.go   *)
(* and collective.go do with shapes around shape inference - axes counted      *)
(* from the end, arguments left empty, and the operations that have no rule    *)
(* of inference.  That the operands belong to the function is in StableHLO.    *)
(***************************************************************************)
EXTENDS ShapeInference
LOCAL INSTANCE SequencesExt

Repeat(x, n) == [i \in 1 .. n |-> x]
OrDefault(list, default) == IF list = << >> THEN default ELSE list

\* Seeded bug: the sizes are compared with dimensions unknown too, as -1.
ReshapeOp_ComparesUnknown(x, target) ==
    Guard(x.dtype = target.dtype /\ Size(x) = Size(target), Ok1(target))
ReshapeOp(x, target) ==
    Guard(/\ x.dtype = target.dtype
          /\ IsDynamic(x) \/ IsDynamic(target) \/ Size(x) = Size(target),
          Ok1(target))

ConvertOp(x, t) == Ok1(WithDType(x, t))
SliceOp(x, starts, limits, strides) == Slice(x, starts, limits, OrDefault(strides, Repeat(1, Rank(x))))
ReverseOp(x, axes) == Guard(\A i \in DOMAIN axes : InRankNeg(axes[i], Rank(x)), Ok1(x))

PadOp(x, fill, low, high, interior) ==
    LET none == Repeat(0, Rank(x))
    IN Pad(x, fill, OrDefault(low, none), OrDefault(high, none), OrDefault(interior, none))

\* The axis is looked at again once the shapes are joined.
ConcatenateOp(xs, axis) ==
    LET joined == Concatenate(xs, axis)
    IN IF joined.status = "ok" /\ ~InRankNeg(axis, Rank(xs[1])) THEN Error ELSE joined

SortOp(xs, axis) ==
    IF xs # << >> /\ InRankNeg(axis, Rank(xs[1])) THEN Sort(xs, AdjustAxis(axis, Rank(xs[1]))) ELSE Error

\* An empty length means the last dimension of the signal.
FFTOp(x, fftType, fftLength) ==
    IF fftLength # << >> THEN FFT(x, fftType, fftLength)
    ELSE IF IsScalar(x) THEN Panic
    ELSE FFT(x, fftType, <<IF fftType = "irfft" THEN (Last(x.dims) - 1) * 2 ELSE Last(x.dims)>>)

Dot(lhs, rhs) ==
    Guard(Rank(lhs) = 2 /\ Rank(rhs) = 2,
          DotGeneral(lhs, rhs, [lhsContracting |-> <<1>>, lhsBatch |-> << >>,
                                rhsContracting |-> <<0>>, rhsBatch |-> << >>], lhs.dtype))

MultiReduceWindow(xs, initials, ins, outs, c) ==
    LET rank == Rank(xs[1])
        window == OrDefault(c.window, Repeat(1, rank))
    IN ReduceWindow(xs, initials, ins, outs,
           [window |-> window, strides |-> OrDefault(c.strides, window),
            inputDilations |-> OrDefault(c.inputDilations, Repeat(1, rank)),
            windowDilations |-> OrDefault(c.windowDilations, Repeat(1, rank)),
            paddings |-> OrDefault(c.paddings, Repeat(<<0, 0>>, rank))])

ConvolutionAxes(c) == {c.input, c.kernel, c.output}
AllAxes(axes) == <<axes[1], axes[2]>> \o axes[3]

\* All axes are brought into the rank of the input before anything else.
Convolution(input, kernel, c) ==
    LET rank == Rank(input)
        ones == Repeat(1, rank - 2)
        adjust(axis) == AdjustAxis(axis, rank)
        adjusted(axes) == <<adjust(axes[1]), adjust(axes[2]), [k \in DOMAIN axes[3] |-> adjust(axes[3][k])]>>
    IN IF rank < 2 THEN Panic
       ELSE Guard(\A axes \in ConvolutionAxes(c) : \A i \in DOMAIN AllAxes(axes) : InRankNeg(AllAxes(axes)[i], rank),
                  Convolve(input, kernel,
                      [c EXCEPT !.strides = OrDefault(@, ones), !.paddings = OrDefault(@, Repeat(<<0, 0>>, rank - 2)),
                                !.inputDilations = OrDefault(@, ones), !.kernelDilations = OrDefault(@, ones),
                                !.input = adjusted(@), !.kernel = adjusted(@), !.output = adjusted(@)]))

\* Nothing is checked of the closures, of the source or of the window.
SelectAndScatter(input) == Ok1(input)

\* Sizes are copied over the dimensions, as far as both lists go.
DynamicSlice(x, sizes) ==
    Ok1(WithDims(x, [i \in DOMAIN x.dims |-> IF i \in DOMAIN sizes THEN sizes[i] ELSE x.dims[i]]))
DynamicUpdateSlice(x) == Ok1(x)

RNGBitGenerator(state, target) == Ok(<<state, target>>)

BatchNormInference(x, axis) == Guard(InRankNeg(axis, Rank(x)), Ok1(x))

\* Training and gradient return two vectors over the feature axis as well.
BatchNormTraining(x, axis) ==
    LET features == Shape(x.dtype, <<x.dims[AdjustAxis(axis, Rank(x)) + 1]>>)
    IN Guard(InRankNeg(axis, Rank(x)), Ok(<<x, features, features>>))
BatchNormGradient(x, axis) == BatchNormTraining(x, axis)

GetDimensionSize(x, axis) == Guard(InRankNeg(axis, Rank(x)), Ok1(Shape("i32", << >>)))

OptimizationBarrier(xs) == Guard(xs # << >>, Ok(xs))

-------------------------------------------------------------------------------
(***************************************************************************)
(* Operations whose output shape is an operand: every dimension of the        *)
(* output is unknown, and the program says how large it may get.              *)
(***************************************************************************)
Bounded(t, bounds) == [dtype |-> t, dims |-> Repeat(DimUnknown, Len(bounds)), bounds |-> bounds]

\* A tensor of n integers, n known.
IsShapeTensor(tensor) == Rank(tensor) = 1 /\ IsInt(tensor.dtype) /\ tensor.dims[1] >= 0

DynamicReshape(x, tensor, bounds) ==
    Guard(IsShapeTensor(tensor) /\ Len(bounds) = tensor.dims[1], Ok1(Bounded(x.dtype, bounds)))

DynamicBroadcastInDim(x, tensor, axes, bounds) ==
    Guard(Len(axes) = Rank(x), DynamicReshape(x, tensor, bounds))

DynamicIota(t, tensor, axis, bounds) ==
    Guard(InRank(axis, Len(bounds)), DynamicReshape(Shape(t, << >>), tensor, bounds))

\* The number of axes of the output counts the batching axes on top of the ones
\* of the indices.
DynamicGather(x, start, sizes, c, bounds) ==
    Guard(/\ IsShapeTensor(sizes) /\ sizes.dims[1] = Rank(x) /\ bounds # << >>
          /\ Len(bounds) = Len(c.offset) + Rank(start) - 1 + Len(c.startBatching),
          Ok1(Bounded(x.dtype, bounds)))

DynamicPad(x, fill, paddings, bounds) ==
    Guard(/\ IsScalar(fill) /\ fill.dtype = x.dtype
          /\ \A tensor \in paddings : IsShapeTensor(tensor) /\ tensor.dims[1] = Rank(x)
          /\ Len(bounds) = Rank(x),
          Ok1(Bounded(x.dtype, bounds)))

\* Neither the kernel nor the numbers of groups are looked at.
DynamicConv(x, padding, c, bounds) ==
    Guard(/\ padding.dims = <<Rank(x) - 2, 2>>
          /\ \A axes \in ConvolutionAxes(c) : \A i \in DOMAIN AllAxes(axes) : InRankNeg(AllAxes(axes)[i], Rank(x))
          /\ Len(bounds) = Rank(x),
          Ok1(Bounded(x.dtype, bounds)))
===============================================================================
