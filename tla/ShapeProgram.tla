----------------------------- MODULE ShapeProgram -----------------------------
(***************************************************************************)
(* A program under construction, seen through the shapes of its values: each  *)
(* value has the shape that the builder inferred for it and the shape that it  *)
(* will have at run time.  A step calls one operation on the latest value,     *)
(* the input of the program or a constant.  The shape at run time is that of   *)
(* the same operation on run-time shapes; where the inferred dimension is a     *)
(* formula, it is counted here from what the operation does to the elements.   *)
(***************************************************************************)
EXTENDS Operations
LOCAL INSTANCE SequencesExt
LOCAL INSTANCE Functions

CONSTANTS Inputs,         \* values the program may take as its input
          Scalars,        \* constants it may use
          Targets,        \* shapes it asks for in Reshape and BroadcastInDim
          Indices,        \* indices of gathers and scatters
          ShapeTensors,   \* shapes of the operands that hold shapes
          Gathers, Scatters, Windows, Convolutions, Dots,  \* arguments of these
          AnyBranches,    \* branches and loop bodies need not keep inferred shapes
          MaxOps, MaxRank, MaxDim   \* bounds on the program and its values

\* Shapes, with the bounds of dimensions that are not known, and the arguments of
\* operations that are lists of axes, sizes, strides and the like.
Values == [dtype : DTypes, dims : Seq(Int), bounds : Seq(Int)]
GatherArguments ==
    [indexVectorAxis : Int, offset : Seq(Int), collapsed : Seq(Int), operandBatching : Seq(Int),
     startBatching : Seq(Int), map : Seq(Int), sizes : Seq(Int)]
WindowArguments ==
    [window : Seq(Int), strides : Seq(Int), inputDilations : Seq(Int), windowDilations : Seq(Int),
     paddings : Seq(Int \X Int)]
ConvAxes == Int \X Int \X Seq(Int)
ConvArguments ==
    [strides : Seq(Int), paddings : Seq(Int \X Int), inputDilations : Seq(Int), kernelDilations : Seq(Int),
     input : ConvAxes, kernel : ConvAxes, output : ConvAxes, channelGroups : Int, batchGroups : Int]
DotArguments == [lhsContracting : Seq(Int), lhsBatch : Seq(Int), rhsContracting : Seq(Int), rhsBatch : Seq(Int)]

\* What a program starts from: shapes that say nothing wrong of the values, and
\* values with no dimension of zero and none beyond the bound.
Given == Inputs \cup Scalars \cup Targets \cup Indices
ProgramArguments ==
    /\ MaxDim \in Nat
    /\ \A p \in Given : /\ p.inferred \in Values /\ p.actual \in Values
                       /\ Covers(p.inferred, p.actual)
                       /\ \A i \in DOMAIN p.actual.dims : p.actual.dims[i] \in 1 .. MaxDim
    /\ Gathers \subseteq GatherArguments /\ Windows \subseteq WindowArguments
    /\ Convolutions \subseteq ConvArguments /\ Dots \subseteq DotArguments
ASSUME ProgramAssumption == ProgramArguments

VARIABLES api,     \* "stablehlo", or the platform of the backend in front of it
          input, value, ops, stopped
vars == <<api, input, value, ops, stopped>>

Pair(inferred, actual) == [inferred |-> inferred, actual |-> actual]
Static(shape) == Pair(shape, shape)
NotStopped == [op |-> "none", inferred |-> "ok", actual |-> "ok"]
Dims(n) == [1 .. n -> 1 .. MaxDim]

Init ==
    /\ api = "stablehlo"
    /\ input \in Inputs
    /\ value = input
    /\ ops = 0
    /\ stopped = NotStopped

-------------------------------------------------------------------------------
\* A program goes on until it fails or is as long as the bound allows.
Going == stopped = NotStopped /\ ops < MaxOps
Recent == IF Going THEN {value, input} ELSE {}
Operands == IF Going THEN {value, input} \cup Scalars ELSE {}

\* What a backend hands on as it is, with the shapes it takes: known ones, and
\* no batching axes.
RelayedShaping == {"Reshape", "BroadcastInDim", "Slice"}
RelayedJoining == {"Clamp", "Gather", "Concatenate"}
RelayedMoving == {"BitcastConvert", "Transpose", "RNGBitGenerator", "Convert"}
RelayedTransforms == {"Reverse", "FFT"}
RelayedNorms == {"BatchNormInference", "BatchNormTraining", "BatchNormGradient", "Call"}
RelayedControl == {"Sort", "While", "If"}
Relayed == RelayedShaping \cup RelayedJoining \cup RelayedMoving \cup RelayedTransforms
             \cup RelayedNorms \cup RelayedControl

Direct == api = "stablehlo"
Taken(pairs) == {p \in pairs : Direct \/ ~IsDynamic(p.inferred)}
TakenGathers == {c \in Gathers : Direct \/ c.operandBatching = << >>}

\* Only values within the bounds are used further.
WithinBounds(s) == Rank(s) <= MaxRank /\ \A i \in DOMAIN s.dims : s.dims[i] \in 1 .. MaxDim

\* The program goes on with one of the outputs, or stops at the first failure,
\* of the builder or at run time.
EmitIf(Fits(_), op, inferred, actual) ==
    /\ Going
    /\ ops' = ops + 1
    /\ UNCHANGED <<api, input>>
    /\ IF inferred.status = "ok" /\ actual.status = "ok"
       THEN /\ \E k \in DOMAIN inferred.shapes \cap DOMAIN actual.shapes :
                  /\ Fits(actual.shapes[k])
                  /\ value' = Pair(inferred.shapes[k], actual.shapes[k])
            /\ UNCHANGED stopped
       ELSE /\ stopped' = [op |-> op, inferred |-> inferred.status, actual |-> actual.status]
            /\ UNCHANGED value
Emit(op, inferred, actual) == (Direct \/ op \in Relayed) /\ EmitIf(WithinBounds, op, inferred, actual)

\* One operation on the shapes of both sides.
On(op, x, F(_)) == Emit(op, F(x.inferred), F(x.actual))
On2(op, x, y, F(_, _)) == Emit(op, F(x.inferred, y.inferred), F(x.actual, y.actual))
On3(op, x, y, z, F(_, _, _)) ==
    Emit(op, F(x.inferred, y.inferred, z.inferred), F(x.actual, y.actual, z.actual))

\* The run-time result of an accepted operation, with counted dimensions.
Counted(accepted, dims) ==
    IF accepted.status = "ok" THEN Ok([k \in DOMAIN accepted.shapes |-> WithDims(accepted.shapes[k], dims)])
                              ELSE accepted

-------------------------------------------------------------------------------
(* Elementwise operations. *)

AddUnary == \E x \in Recent : \E op \in StandardUnaryOperations : On(op, x, LAMBDA s : UnaryOp(op, s))
AddIsFinite == \E x \in Recent : On("IsFinite", x, IsFinite)
AddReal == \E x \in Recent : On("Real", x, RealOrImag)
AddConvert == \E x \in Recent : \E t \in {"i32", "f32", "bool"} : On("Convert", x, LAMBDA s : ConvertOp(s, t))
AddBitcastConvert ==
    \E x \in Recent : \E t \in {"u8", "i32", "f64"} : On("BitcastConvert", x, LAMBDA s : BitcastConvert(s, t))

AddBinary ==
    \E x, y \in Operands : \E op \in StandardBinaryOperations : On2(op, x, y, LAMBDA s, u : BinaryOp(op, s, u))
AddCompare ==
    \E x, y \in Operands : \E t \in {"float", "signed", "unsigned"} : On2("Compare", x, y, LAMBDA s, u : Compare(s, u, t))
AddComplex == \E x, y \in Operands : On2("Complex", x, y, Complex)
AddSelect == \E x, y, z \in Operands : On3("Select", x, y, z, Select)
AddClamp == \E x, y, z \in Operands : On3("Clamp", x, y, z, Clamp)

-------------------------------------------------------------------------------
(* Operations that move the elements. *)

Axes(x) == 0 .. Rank(x.actual) - 1
Each(S, x) == [DOMAIN x.actual.dims -> S]
Uniform(n, x) == Repeat(n, Rank(x.actual))

AddTranspose ==
    \E x \in Recent : \E permutation \in Each(Axes(x), x) : On("Transpose", x, LAMBDA s : Transpose(s, permutation))
AddReverse == \E x \in Recent : \E axis \in Axes(x) : On("Reverse", x, LAMBDA s : ReverseOp(s, <<axis, -1>>))
AddReshape == \E x \in Recent : \E t \in Taken(Targets) : On2("Reshape", x, t, ReshapeOp)
AddBroadcastInDim ==
    \E x \in Recent : \E t \in Taken(Targets) : \E axes \in Each(-1 .. 1, x) :
        On2("BroadcastInDim", x, t, LAMBDA s, u : BroadcastInDim(s, u, axes))

AddConcatenate ==
    \E x, y \in Recent : \E axis \in -1 .. 1 :
        \/ On2("Concatenate", x, y, LAMBDA s, u : ConcatenateOp(<<s, u>>, axis))
        \/ On("Concatenate", x, LAMBDA s : ConcatenateOp(<<s>>, axis))
AddSort ==
    \E x, y \in Recent : \E axis \in -1 .. 1 : On2("Sort", x, y, LAMBDA s, u : SortOp(<<s, u>>, axis))

\* The elements of an axis at start, start + stride, ... below limit.
Selected(start, limit, stride) == Cardinality({k \in 0 .. MaxDim : start + k * stride < limit})

AddSlice ==
    \E x \in Recent : \E starts \in Each({0, 1}, x) : \E limits \in Each({2, 3}, x) :
        \E strides \in {<< >>, Uniform(2, x)} :
            LET accepted == SliceOp(x.actual, starts, limits, strides)
                step == IF strides = << >> THEN 1 ELSE 2
            IN Emit("Slice", SliceOp(x.inferred, starts, limits, strides),
                    Counted(accepted, [i \in DOMAIN x.actual.dims |-> Selected(starts[i], limits[i], step)]))

\* The positions from the first to the last of n elements that are step apart.
Spread(n, step) == Cardinality(UNION {0 .. (k - 1) * step : k \in 1 .. n})

AddPad ==
    \E x \in Recent : \E fill \in Scalars :
        \E low \in -2 .. 1 : \E high, interior \in {0, 1} :
            LET pad(s, f) == PadOp(s, f, Uniform(low, x), Uniform(high, x), Uniform(interior, x))
                counted == [i \in DOMAIN x.actual.dims |-> low + high + Spread(x.actual.dims[i], interior + 1)]
                actual == pad(x.actual, fill.actual)
            IN Emit("Pad", pad(x.inferred, fill.inferred),
                    IF \E i \in DOMAIN counted : counted[i] < 0 THEN Error ELSE Counted(actual, counted))

AddFFT ==
    \E x \in Recent : \E fftType \in {"fft", "rfft", "irfft"} : \E length \in {<< >>, <<2>>} :
        On("FFT", x, LAMBDA s : FFTOp(s, fftType, length))

-------------------------------------------------------------------------------
(* Gathers, reductions, windows and products. *)

AddGather ==
    \E x \in Recent : \E indices \in Taken(Indices) : \E c \in TakenGathers :
        On2("Gather", x, indices, LAMBDA s, u : Gather(s, u, c))
AddScatter ==
    \E x \in Recent : \E indices \in Indices : \E c \in Scatters : \E t \in {x.actual.dtype, "f32"} :
        On2("Scatter", x, indices, LAMBDA s, u :
            Scatter(<<s>>, u, <<Shape(s.dtype, u.dims)>>, c, <<Shape(t, << >>), Shape(t, << >>)>>, <<Shape(t, << >>)>>))

ReducedAxes == {<<0>>, <<-1>>, <<0, 1>>, << >>}
AddReduce ==
    \E x \in Recent : \E fill \in Scalars : \E axes \in ReducedAxes :
        On2("Reduce", x, fill, LAMBDA s, f : Reduce(<<s>>, <<f>>, <<f, f>>, <<f>>, axes))
AddMultiReduce ==
    \E x, y \in Recent : \E fill \in Scalars : \E axes \in ReducedAxes :
        LET scalar(s) == Shape(s.dtype, << >>)
            closure(s, u) == <<scalar(s), scalar(u), scalar(s), scalar(u)>>
        IN On3("Reduce", x, y, fill, LAMBDA s, u, f :
               Reduce(<<s, u>>, <<f, f>>, closure(s, u), <<scalar(s), scalar(u)>>, axes))
AddArgMinMax == \E x \in Recent : \E axis \in -1 .. 1 : On("ArgMinMax", x, LAMBDA s : ArgMinMax(s, axis, "i32"))

\* The places where a window fits, stride apart.
Placed(padded, window, stride) == Cardinality({k \in 0 .. padded : k * stride + window <= padded})
Last0(list, i, default) == IF list = << >> THEN default ELSE list[i]

ReduceWindowOp(x, fill, c) == MultiReduceWindow(<<x>>, <<fill>>, <<fill, fill>>, <<fill>>, c)

\* Seen at run time, with the places of the window counted.
ReducedWindow(x, fill, c) ==
    LET accepted == ReduceWindowOp(x, fill, c)
        size(i) == Last0(c.window, i, 1)
        pads(i) == Last0(c.paddings, i, <<0, 0>>)
        places(i) == Placed(pads(i)[1] + pads(i)[2] + Spread(x.dims[i], Last0(c.inputDilations, i, 1)),
                            Spread(size(i), Last0(c.windowDilations, i, 1)), Last0(c.strides, i, size(i)))
    IN IF accepted.status = "ok" THEN Counted(accepted, [i \in DOMAIN x.dims |-> places(i)]) ELSE accepted

AddReduceWindow ==
    \E x \in Recent : \E fill \in Scalars : \E c \in Windows :
        Emit("ReduceWindow", ReduceWindowOp(x.inferred, fill.inferred, c), ReducedWindow(x.actual, fill.actual, c))
AddSelectAndScatter == \E x \in Recent : On("SelectAndScatter", x, SelectAndScatter)

\* Seen at run time, with the places of the kernel counted.
Convolved(x, y, c) ==
    LET accepted == Convolution(x, y, c)
        axis(axes, k) == AdjustAxis(axes[3][k], Rank(x)) + 1
        pads(k) == Last0(c.paddings, k, <<0, 0>>)
        places(k) == Placed(pads(k)[1] + pads(k)[2] + Spread(x.dims[axis(c.input, k)], Last0(c.inputDilations, k, 1)),
                            Spread(y.dims[axis(c.kernel, k)], Last0(c.kernelDilations, k, 1)), Last0(c.strides, k, 1))
        dims(s) == [i \in DOMAIN s.dims |->
                      IF \E k \in DOMAIN c.output[3] : axis(c.output, k) = i
                      THEN places(CHOOSE k \in DOMAIN c.output[3] : axis(c.output, k) = i) ELSE s.dims[i]]
    IN IF accepted.status = "ok" THEN Counted(accepted, dims(accepted.shapes[1])) ELSE accepted

AddConvolution ==
    \E x, y \in Recent : \E c \in Convolutions :
        Emit("Convolution", Convolution(x.inferred, y.inferred, c), Convolved(x.actual, y.actual, c))

AddDot == \E x, y \in Recent : On2("Dot", x, y, Dot)
AddDotGeneral ==
    \E x, y \in Recent : \E c \in Dots : On2("DotGeneral", x, y, LAMBDA s, u : DotGeneral(s, u, c, s.dtype))

AddBatchNormInference ==
    \E x \in Recent : \E axis \in -1 .. 1 : On("BatchNormInference", x, LAMBDA s : BatchNormInference(s, axis))
AddBatchNormTraining ==
    \E x \in Recent : \E axis \in -1 .. 1 : On("BatchNormTraining", x, LAMBDA s : BatchNormTraining(s, axis))
AddBatchNormGradient ==
    \E x \in Recent : \E axis \in -1 .. 1 : On("BatchNormGradient", x, LAMBDA s : BatchNormGradient(s, axis))
AddGetDimensionSize ==
    \E x \in Recent : \E axis \in -1 .. 1 : On("GetDimensionSize", x, LAMBDA s : GetDimensionSize(s, axis))
AddOptimizationBarrier ==
    \E x, y \in Recent : On2("OptimizationBarrier", x, y, LAMBDA s, u : OptimizationBarrier(<<s, u>>))
AddRNGBitGenerator ==
    \E x, y \in Recent : On2("RNGBitGenerator", x, y, LAMBDA s, u : RNGBitGenerator(s, u))

-------------------------------------------------------------------------------
(* Collectives, over two replicas. *)

Replicas == <<<<0, 1>>>>

AddCollectiveBroadcast ==
    \E x \in Recent : \E groups \in {Replicas, << >>} :
        On("CollectiveBroadcast", x, LAMBDA s : CollectiveBroadcast(s, groups))
AddCollectivePermute ==
    \E x \in Recent : \E pairs \in {Replicas, << >>} :
        On("CollectivePermute", x, LAMBDA s : CollectivePermute(s, pairs))
AddAllGather ==
    \E x \in Recent : \E groups \in {Replicas, << >>} : \E axis \in 0 .. 1 :
        On("AllGather", x, LAMBDA s : AllGather(s, groups, axis))
AddAllToAll ==
    \E x \in Recent : \E groups \in {Replicas, << >>} : \E split, axis \in 0 .. 1 :
        On("AllToAll", x, LAMBDA s : AllToAll(s, groups, split, axis, 2))
AddAllReduce ==
    \E x, y \in Recent : \E groups \in {Replicas, << >>} :
        LET scalar(s) == Shape(s.dtype, << >>)
        IN On2("AllReduce", x, y, LAMBDA s, u :
               AllReduce(<<s, u>>, <<scalar(s), scalar(s)>>, <<scalar(s)>>, groups))

-------------------------------------------------------------------------------
(* Operations whose output shape is only known at run time. *)

\* Shapes of a type that keep the bounds the program has promised.
Within(t, bounds) == {Shape(t, d) : d \in {e \in Dims(Len(bounds)) : \A i \in DOMAIN e : e[i] <= bounds[i]}}

Bounds == {<<2>>, <<2, 3>>, <<4>>, <<1, 2, 5>>}

\* At run time the output has any shape that is possible and within the bounds.
EmitDynamic(op, inferred, bounds, Possible(_)) ==
    IF inferred.status # "ok" THEN Emit(op, inferred, Error)
    ELSE \E s \in Within(inferred.shapes[1].dtype, bounds) : Possible(s) /\ Emit(op, inferred, Ok1(s))

AddDynamicReshape ==
    \E x \in Recent : \E tensor \in ShapeTensors : \E bounds \in Bounds :
        EmitDynamic("DynamicReshape", DynamicReshape(x.inferred, tensor, bounds), bounds,
                    LAMBDA s : Size(s) = Size(x.actual))
AddDynamicIota ==
    \E tensor \in ShapeTensors : \E bounds \in Bounds :
        EmitDynamic("DynamicIota", DynamicIota("f32", tensor, 0, bounds), bounds, LAMBDA s : TRUE)
AddDynamicBroadcastInDim ==
    \E x \in Recent : \E tensor \in ShapeTensors : \E bounds \in Bounds :
        EmitDynamic("DynamicBroadcastInDim", DynamicBroadcastInDim(x.inferred, tensor, <<0>>, bounds), bounds,
                    LAMBDA s : x.actual.dims[1] \in {1, s.dims[1]})
AddDynamicGather ==
    \E x \in Recent : \E tensor \in ShapeTensors : \E bounds \in Bounds :
        \E indices \in Indices : \E c \in Gathers :
            /\ c.startBatching = << >> /\ c.indexVectorAxis < Rank(indices.inferred)
            /\ EmitDynamic("DynamicGather", DynamicGather(x.inferred, indices.inferred, tensor, c, bounds), bounds,
                           LAMBDA s : TRUE)
AddDynamicPad ==
    \E x \in Recent : \E tensor \in ShapeTensors : \E bounds \in Bounds : \E fill \in Scalars :
        EmitDynamic("DynamicPad", DynamicPad(x.inferred, fill.inferred, {tensor}, bounds), bounds, LAMBDA s : TRUE)
AddDynamicConv ==
    \E x \in Recent : \E tensor \in ShapeTensors : \E bounds \in Bounds : \E c \in Convolutions :
        EmitDynamic("DynamicConv", DynamicConv(x.inferred, tensor, c, bounds), bounds, LAMBDA s : TRUE)

AddDynamicSlice ==
    \E x \in Recent : \E sizes \in Each({1, 2}, x) :
        Emit("DynamicSlice", DynamicSlice(x.inferred, sizes),
             IF \A i \in DOMAIN sizes : sizes[i] <= x.actual.dims[i]
             THEN Ok1(Shape(x.actual.dtype, sizes)) ELSE Error)
AddDynamicUpdateSlice == \E x \in Recent : On("DynamicUpdateSlice", x, DynamicUpdateSlice)

-------------------------------------------------------------------------------
(* Control flow.  The closures return values of the program. *)

\* The shapes of what one of two values has at run time.
EitherOf(x, y) == {x.actual, y.actual}
SameInferred(x, y) == AnyBranches \/ x.inferred = y.inferred

AddIf ==
    \E pred \in Operands : \E x, y \in Recent :
        /\ SameInferred(x, y)
        /\ \E s \in EitherOf(x, y) :
              Emit("If", If(pred.inferred, << >>, <<x.inferred>>, << >>, <<y.inferred>>),
                   IF IsScalar(pred.actual) /\ pred.actual.dtype = "bool" /\ x.actual.dtype = y.actual.dtype
                   THEN Ok1(s) ELSE Error)

AddWhile ==
    \E x, y \in Recent : \E cond \in Operands :
        /\ SameInferred(x, y)
        /\ \E s \in EitherOf(x, y) :
              Emit("While", While(<<x.inferred>>, <<x.inferred>>, <<cond.inferred>>, <<x.inferred>>, <<y.inferred>>),
                   IF IsScalar(cond.actual) /\ cond.actual.dtype = "bool" /\ x.actual.dtype = y.actual.dtype
                   THEN Ok1(s) ELSE Error)

\* A function from the input to the latest value.
AddCall ==
    \E x \in Recent :
        Emit("Call", Call(<<x.inferred>>, <<input.inferred>>, <<value.inferred>>),
             Call(<<x.actual>>, <<input.actual>>, <<value.actual>>))

Next ==
    \/ AddUnary \/ AddIsFinite \/ AddReal \/ AddConvert \/ AddBitcastConvert
    \/ AddBinary \/ AddCompare \/ AddComplex \/ AddSelect \/ AddClamp
    \/ AddTranspose \/ AddReverse \/ AddReshape \/ AddBroadcastInDim \/ AddConcatenate \/ AddSort
    \/ AddSlice \/ AddPad \/ AddFFT \/ AddGather \/ AddScatter
    \/ AddReduce \/ AddMultiReduce \/ AddArgMinMax \/ AddReduceWindow \/ AddSelectAndScatter
    \/ AddConvolution \/ AddDot \/ AddDotGeneral
    \/ AddBatchNormInference \/ AddBatchNormTraining \/ AddBatchNormGradient
    \/ AddGetDimensionSize \/ AddOptimizationBarrier \/ AddRNGBitGenerator
    \/ AddCollectiveBroadcast \/ AddCollectivePermute \/ AddAllGather \/ AddAllToAll \/ AddAllReduce
    \/ AddDynamicReshape \/ AddDynamicIota \/ AddDynamicBroadcastInDim \/ AddDynamicGather
    \/ AddDynamicPad \/ AddDynamicConv \/ AddDynamicSlice \/ AddDynamicUpdateSlice
    \/ AddIf \/ AddWhile \/ AddCall

Spec == Init /\ [][Next]_vars

-------------------------------------------------------------------------------
(* Properties. *)

\* What the builder inferred of a value is true of it at run time: the type, the
\* number of axes, and every dimension that is given.  Operands that are not
\* fully known are merged, joined and divided along chains of operations.
ShapesCover == Covers(value.inferred, value.actual)

\* The builder does not refuse, for want of knowledge, an operation that is right
\* for the shapes that the operands have at run time.  Left out are the
\* operations that compare dimensions by value (Gather's batching axes, Reduce
\* of several inputs), need one (the default length of FFT), or take shapes as
\* operands.
NeedKnown == {"Gather", "Reduce", "FFT"}
NoSpuriousReject ==
    stopped.inferred = "error" /\ stopped.op \notin NeedKnown => stopped.actual # "ok"

\* Moving elements neither loses nor makes any: whatever the axes, a transposed,
\* exchanged or reinterpreted value has the bits of its operand.
BitsOf(s) == Bits(s.dtype) * Size(s)
AxisOrders(x) == {p \in Each(Axes(x), x) : Distinct(p)}
ElementsKept ==
    \A moved \in {Transpose(value.actual, p) : p \in AxisOrders(value)}
                  \cup {AllToAll(value.actual, Replicas, i, j, 2) : i, j \in Axes(value)}
                  \cup {BitcastConvert(value.actual, t) : t \in {"u8", "i32", "f64"}} :
        moved.status = "ok" => BitsOf(moved.shapes[1]) = BitsOf(value.actual)

\* A bound written into the program, "known upper bound", holds at run time.
BoundsHold ==
    \A i \in DOMAIN value.inferred.dims :
        HasBound(value.inferred, i) => value.actual.dims[i] <= value.inferred.bounds[i]
===============================================================================
