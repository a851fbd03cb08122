-------------------------------- MODULE XlaOps --------------------------------
(***************************************************************************)
(* The operations of the compute/xla backend, for what they do beyond the     *)
(* operation of package stablehlo they end in: operands are stretched to a     *)
(* common shape, missing arguments completed, closures built for the type of    *)
(* the operand, and some operations put together from several.  Parameters      *)
(* of a Function have known dimensions, so all shapes here are static.  What     *)
(* is only handed on to package stablehlo is in XlaProgram.                     *)
(***************************************************************************)
EXTENDS Operations
LOCAL INSTANCE SequencesExt

\* The next call, on the first output of one that may have failed.
Then(result, F(_)) == IF result.status = "ok" THEN F(result.shapes[1]) ELSE result

\* The outputs of several calls, when all of them worked.
Together(results) ==
    IF \A i \in DOMAIN results : results[i].status = "ok"
    THEN Ok([i \in DOMAIN results |-> results[i].shapes[1]])
    ELSE Error

ScalarOf(t) == Shape(t, << >>)
IotaAxes(n) == [i \in 1 .. n |-> i - 1]

-------------------------------------------------------------------------------
(* Broadcasting, and the operations that start with it. *)

broadcastShapeForBinaryOps(lhs, rhs) ==
    LET larger(a, b) == IF a > b THEN a ELSE b
    IN IF IsScalar(lhs) THEN Ok1(rhs)
       ELSE IF IsScalar(rhs) THEN Ok1(lhs)
       ELSE Guard(/\ Rank(lhs) = Rank(rhs)
                  /\ \A i \in DOMAIN lhs.dims : 1 \in {lhs.dims[i], rhs.dims[i]} \/ lhs.dims[i] = rhs.dims[i],
                  Ok1(WithDims(lhs, [i \in DOMAIN lhs.dims |-> larger(lhs.dims[i], rhs.dims[i])])))

broadcastNodeToShape(x, target) ==
    IF Equal(x, target) THEN Ok1(x)
    ELSE BroadcastInDim(x, target, IF IsScalar(x) THEN << >> ELSE IotaAxes(Rank(target)))

\* Both operands, stretched.
broadcastForBinaryOps(lhs, rhs) ==
    IF lhs.dtype # rhs.dtype THEN Error
    ELSE IF Equal(lhs, rhs) THEN Ok(<<lhs, rhs>>)
    ELSE LET target == broadcastShapeForBinaryOps(lhs, rhs)
         IN IF target.status = "ok"
            THEN Together(<<broadcastNodeToShape(lhs, target.shapes[1]), broadcastNodeToShape(rhs, target.shapes[1])>>)
            ELSE target

Broadcast(lhs, rhs, F(_, _)) ==
    LET operands == broadcastForBinaryOps(lhs, rhs)
    IN IF operands.status = "ok" THEN F(operands.shapes[1], operands.shapes[2]) ELSE operands

\* The operation of package stablehlo behind a method.
BinaryOperation ==
    [Add |-> "Add", Atan2 |-> "Atan2", BitwiseAnd |-> "And", BitwiseOr |-> "Or", BitwiseXor |-> "Xor",
     Div |-> "Divide", LogicalAnd |-> "And", LogicalOr |-> "Or", LogicalXor |-> "Xor", Max |-> "Maximum",
     Min |-> "Minimum", Mul |-> "Multiply", Pow |-> "Power", Rem |-> "Remainder", ShiftLeft |-> "ShiftLeft",
     ShiftRightArithmetic |-> "ShiftRightArithmetic", ShiftRightLogical |-> "ShiftRightLogical", Sub |-> "Subtract"]
UnaryOperation ==
    [BitCount |-> "Popcnt", BitwiseNot |-> "Not", Ceil |-> "Ceil", Clz |-> "CountLeadingZeros", Cos |-> "Cosine",
     Erf |-> "Erf", Exp |-> "Exponential", Expm1 |-> "ExponentialMinusOne", Floor |-> "Floor", Log |-> "Log",
     Log1p |-> "LogPlusOne", LogicalNot |-> "Not", Logistic |-> "Logistic", Neg |-> "Negate",
     Round |-> "RoundNearestEven", Rsqrt |-> "Rsqrt", Sign |-> "Sign", Sin |-> "Sine", Sqrt |-> "Sqrt", Tanh |-> "Tanh"]

XlaBinaryOp(op, lhs, rhs) == Broadcast(lhs, rhs, LAMBDA x, y : BinaryOp(BinaryOperation[op], x, y))
XlaUnaryOp(op, x) == UnaryOp(UnaryOperation[op], x)
XlaComplex(real, imag) == Broadcast(real, imag, Complex)

compareTypeForDType(t) ==
    IF IsFloat(t) \/ IsComplex(t) THEN "float"
    ELSE IF IsUnsigned(t) \/ t = "bool" THEN "unsigned" ELSE "signed"

comparison(totalOrder, lhs, rhs) ==
    Broadcast(lhs, rhs, LAMBDA x, y :
        Compare(x, y, IF totalOrder THEN "total_order" ELSE compareTypeForDType(x.dtype)))
IsNaN(x) == comparison(FALSE, x, x)

\* Of a complex number, the root of the sum of the squares of both parts.
Abs(x) ==
    IF IsComplex(x.dtype)
    THEN Then(RealOrImag(x), LAMBDA part :
         Then(XlaBinaryOp("Mul", part, part), LAMBDA square :
         Then(XlaBinaryOp("Add", square, square), LAMBDA sum : XlaUnaryOp("Sqrt", sum))))
    ELSE UnaryOp("Abs", x)

Conj(x) == Then(RealOrImag(x), LAMBDA part : Then(UnaryOp("Negate", part), LAMBDA negated : Complex(part, negated)))

\* The module that defines the interface finds the common shape: the one of the
\* operands that are not scalars.
WhereShape(condition, onTrue, onFalse) ==
    LET large == {s.dims : s \in {condition, onTrue, onFalse}} \ {<< >>}
    IN Guard(condition.dtype = "bool" /\ onTrue.dtype = onFalse.dtype /\ Cardinality(large) <= 1,
             Ok1(Shape(onTrue.dtype, IF large = {} THEN << >> ELSE CHOOSE dims \in large : TRUE)))

Where(condition, onTrue, onFalse) ==
    Then(WhereShape(condition, onTrue, onFalse), LAMBDA target :
        LET operands == Together(<<broadcastNodeToShape(condition, WithDType(target, "bool")),
                                   broadcastNodeToShape(onTrue, target), broadcastNodeToShape(onFalse, target)>>)
        IN IF operands.status = "ok" THEN Select(operands.shapes[1], operands.shapes[2], operands.shapes[3])
                                     ELSE operands)

-------------------------------------------------------------------------------
(* Operations with arguments to complete. *)

\* One <<start, end, interior>> for each of the first axes; a scalar is returned
\* before anything is looked at.
XlaPad(x, fill, configs) ==
    LET all(k) == [i \in DOMAIN x.dims |-> IF i <= Len(configs) THEN configs[i][k] ELSE 0]
    IN IF IsScalar(x) THEN Ok1(x)
       ELSE Guard(Len(configs) <= Rank(x), PadOp(x, fill, all(1), all(2), all(3)))

\* Left out, the strides, paddings and dilations are those of Convolution.
ConvGeneral(input, kernel, c) ==
    LET atLeastOne(n) == IF n <= 1 THEN 1 ELSE n
    IN Guard(Rank(input) >= 2,
             Convolution(input, kernel, [c EXCEPT !.channelGroups = atLeastOne(@), !.batchGroups = atLeastOne(@)]))

\* A single vector of indices is taken apart, one scalar for every axis.
extractStartIndexValues(starts, rank) ==
    IF Len(starts) = 1 /\ Rank(starts[1]) = 1
    THEN Together([axis \in 1 .. rank |->
             Then(Slice(starts[1], <<axis - 1>>, <<axis>>, <<1>>), LAMBDA one : ReshapeOp(one, ScalarOf(one.dtype)))])
    ELSE Ok(starts)

XlaDynamicSlice(x, starts, sizes) ==
    Guard(extractStartIndexValues(starts, Rank(x)).status = "ok", DynamicSlice(x, sizes))
XlaDynamicUpdateSlice(x, starts) ==
    Guard(extractStartIndexValues(starts, Rank(x)).status = "ok", DynamicUpdateSlice(x))

\* Axes of the result are counted from the end as well.
Iota(shape, axis) == Guard(InRankNeg(axis, Rank(shape)), Ok1(shape))

-------------------------------------------------------------------------------
(* Operations that wait for others. *)

XlaOptimizationBarrier(xs, platform) ==
    IF Len(xs) = 1 /\ platform = "cpu" THEN Ok(xs) ELSE OptimizationBarrier(xs)

\* An element of a value, as a scalar.
FirstElement(x) ==
    IF IsScalar(x) THEN Ok1(x)
    ELSE Then(SliceOp(x, Repeat(0, Rank(x)), Repeat(1, Rank(x)), << >>), LAMBDA one : ReshapeOp(one, ScalarOf(x.dtype)))

\* Zero times an element of every dependency is added to the operand.
SchedulingBarrier(x, dependencies) ==
    LET zero == ScalarOf(x.dtype)
        term(dependency) == Then(FirstElement(dependency), LAMBDA one : XlaBinaryOp("Mul", WithDType(one, x.dtype), zero))
        plus(dependency, sum) == Then(sum, LAMBDA s : Then(term(dependency), LAMBDA t : XlaBinaryOp("Add", s, t)))
    IN IF dependencies = << >> THEN Ok1(x)
       ELSE Then(FoldSeq(plus, Ok1(zero), dependencies), LAMBDA sum : XlaBinaryOp("Add", x, sum))

\* The operand that is not a parameter of the function goes first.
dotGeneralAddDependency(lhs, rhs, lhsIsParameter) ==
    IF lhsIsParameter THEN Together(<<SchedulingBarrier(lhs, <<rhs>>), Ok1(rhs)>>)
                      ELSE Together(<<Ok1(lhs), SchedulingBarrier(rhs, <<lhs>>)>>)

\* Arguments config: the types to accumulate in and of the output, or "default".
\* Only the type of the left operand is looked at.
XlaDotGeneral(lhs, rhs, lhsIsParameter, c, config, platform) ==
    LET t == lhs.dtype
        given(u) == IF u = "default" THEN t ELSE u
        acc == given(config.accumulator)
        ready == IF acc # t /\ platform = "cpu" THEN dotGeneralAddDependency(lhs, rhs, lhsIsParameter) ELSE Ok(<<lhs, rhs>>)
        converted(x) == IF acc \in {t, "f32"} THEN x ELSE WithDType(x, acc)
    IN IF ready.status = "ok"
       THEN DotGeneral(converted(ready.shapes[1]), converted(ready.shapes[2]), c, given(config.output))
       ELSE ready

-------------------------------------------------------------------------------
(* Reductions. *)

ReductionOperation ==
    [ReduceSum |-> "Add", ReduceProduct |-> "Multiply", ReduceMax |-> "Maximum", ReduceMin |-> "Minimum",
     ReduceBitwiseAnd |-> "And", ReduceBitwiseOr |-> "Or", ReduceBitwiseXor |-> "Xor",
     ReduceLogicalAnd |-> "And", ReduceLogicalOr |-> "Or", ReduceLogicalXor |-> "Xor"]

\* The reductions of windows and of collectives.
getReductionOp == [Max |-> "ReduceMax", Min |-> "ReduceMin", Sum |-> "ReduceSum", Product |-> "ReduceProduct"]

\* The output of the closure; its inputs are two scalars of the type.
getReductionFn(t, op) == BinaryOp(ReductionOperation[op], ScalarOf(t), ScalarOf(t))

\* Complex numbers have no lowest and no highest value.
HasExtremes(t) == ~IsComplex(t)

getInitialValue(t, op) ==
    Guard(op \in {"ReduceMax", "ReduceMin"} => HasExtremes(t),
          IF op = "ReduceBitwiseAnd" THEN XlaUnaryOp("BitwiseNot", ScalarOf(t)) ELSE Ok1(ScalarOf(t)))

\* F of the closure's output and of the initial value.
WithReduction(t, op, F(_, _)) ==
    Then(getReductionFn(t, op), LAMBDA fn : Then(getInitialValue(t, op), LAMBDA initial : F(fn, initial)))

\* Without axes, all of them.
reduce(op, x, axes) ==
    WithReduction(x.dtype, op, LAMBDA fn, initial :
        Reduce(<<x>>, <<initial>>, <<fn, fn>>, <<fn>>, OrDefault(axes, IotaAxes(Rank(x)))))

XlaReduceWindow(x, reduction, c) ==
    WithReduction(x.dtype, getReductionOp[reduction], LAMBDA fn, initial :
        MultiReduceWindow(<<x>>, <<initial>>, <<fn, fn>>, <<fn>>, c))

\* The indices are reduced together with the values, and may have any type.
XlaArgMinMax(x, axis, t) ==
    LET closure == <<ScalarOf(t), ScalarOf(x.dtype)>>
        indices == WithDType(x, t)
    IN Guard(InRankNeg(axis, Rank(x)) /\ HasExtremes(x.dtype),
             Then(Compare(closure[2], closure[2], compareTypeForDType(x.dtype)), LAMBDA isLeft :
                 Then(Reduce(<<indices, x>>, closure, closure \o closure, closure, <<AdjustAxis(axis, Rank(x))>>), Ok1)))

getSelectFn(t) == Compare(ScalarOf(t), ScalarOf(t), compareTypeForDType(t))

\* What is selected is added up.
selectAndScatterImpl(x) ==
    Then(getSelectFn(x.dtype), LAMBDA selected : Then(getReductionFn(x.dtype, "ReduceSum"), LAMBDA sum : SelectAndScatter(x)))

scatterOpToReduceOp == [ScatterMax |-> "ReduceMax", ScatterMin |-> "ReduceMin", ScatterSum |-> "ReduceSum"]
scatter(op, x, indices, updates, c) ==
    Then(getReductionFn(x.dtype, scatterOpToReduceOp[op]), LAMBDA fn :
        Scatter(<<x>>, indices, <<updates>>, [c EXCEPT !.inputBatching = 0], <<fn, fn>>, <<fn>>))

\* One reduction for every type among the operands, each with the operands of
\* that type; the outputs go back to the places of the operands.
XlaAllReduce(operands, reduction, groups) ==
    LET reduced(t) == Then(getReductionFn(t, getReductionOp[reduction]), LAMBDA fn :
                          AllReduce(SelectSeq(operands, LAMBDA s : s.dtype = t), <<fn, fn>>, <<fn>>, groups))
        place(i) == Cardinality({j \in 1 .. i : operands[j].dtype = operands[i].dtype})
    IN Guard(\A i \in DOMAIN operands : reduced(operands[i].dtype).status = "ok",
             Ok([i \in DOMAIN operands |-> reduced(operands[i].dtype).shapes[place(i)]]))
===============================================================================
