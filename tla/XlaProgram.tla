------------------------------ MODULE XlaProgram ------------------------------
(***************************************************************************)
(* A program under construction, as in ShapeProgram, but written with a        *)
(* Function of the compute/xla backend.  What its operations hand on as they    *)
(* are is in ShapeProgram; the others are here.  The shape at run time is what   *)
(* the interface promises of the operation, not what the backend puts together    *)
(* for it: the one shape to which operands stretch, the axes that remain, the      *)
(* places of a window, outputs in the order of the operands.                        *)
(***************************************************************************)
EXTENDS Attention, ShapeProgram
LOCAL INSTANCE SequencesExt

CONSTANTS XlaInputs,                \* static values the program may take as its input
          XlaConstants,             \* and constants it may use next to Scalars
          AttentionValues,          \* keys, values and their like
          AttentionOptions,         \* options of the fused attention
          Paddings, Starts,         \* paddings per axis; start indices of dynamic slices
          MaxFeatures               \* bound on the dimensions of attention

XlaOperands == IF Going THEN Operands \cup XlaConstants ELSE {}

XlaInit ==
    /\ api \in {"cpu", "cuda"}
    /\ input \in XlaInputs
    /\ value = input
    /\ ops = 0
    /\ stopped = NotStopped

\* A call of the backend; all shapes are known, so the inferred ones say it all.
CallIf(Fits(_), op, inferred, actual) == ~Direct /\ EmitIf(Fits, op, inferred, actual)
Call1(op, inferred, actual) == CallIf(WithinBounds, op, inferred, actual)

-------------------------------------------------------------------------------
(* Elementwise operations. *)

\* The dimensions to which all shapes stretch: scalars to anything, an axis of one
\* to the axis of another shape with as many axes.
StretchesTo(s, dims) ==
    \/ IsScalar(s)
    \/ Rank(s) = Len(dims) /\ \A i \in DOMAIN dims : s.dims[i] \in {1, dims[i]}
Common(S) ==
    LET sizes == UNION {SetOf(s.dims) : s \in S}
    IN {dims \in UNION {[1 .. Rank(s) -> sizes] : s \in S} :
          /\ \A s \in S : StretchesTo(s, dims)
          /\ \A i \in DOMAIN dims : \E s \in S : i \in DOMAIN s.dims /\ s.dims[i] = dims[i]}

\* A type that the operation takes gives one of its own.
Elementwise(x, y, takes, t) ==
    Guard(x.dtype = y.dtype /\ takes /\ Common({x, y}) # {},
          Ok1(Shape(t, CHOOSE dims \in Common({x, y}) : TRUE)))

CallBinary ==
    \E x, y \in XlaOperands : \E op \in {"Add", "BitwiseAnd", "Max", "ShiftLeft"} :
        Call1("Binary", XlaBinaryOp(op, x.inferred, y.inferred),
              Elementwise(x.actual, y.actual, TypeAllowed(BinaryOperation[op], x.actual.dtype), x.actual.dtype))
CallComplex ==
    \E x, y \in XlaOperands :
        Call1("Complex", XlaComplex(x.inferred, y.inferred),
              Elementwise(x.actual, y.actual, x.actual.dtype \in {"f32", "f64"}, ComplexDType(x.actual.dtype)))

\* Floating point numbers are the ones with a total order.
CallComparison ==
    \E x, y \in XlaOperands : \E totalOrder \in BOOLEAN :
        Call1("Compare", comparison(totalOrder, x.inferred, y.inferred),
              Elementwise(x.actual, y.actual, totalOrder => IsFloat(x.actual.dtype), "bool"))
CallIsNaN ==
    \E x \in Recent : Call1("IsNaN", IsNaN(x.inferred), Ok1(WithDType(x.actual, "bool")))

CallUnary ==
    \E x \in Recent : \E op \in {"Exp", "Neg", "BitwiseNot", "Tanh"} :
        Call1("Unary", XlaUnaryOp(op, x.inferred), UnaryOp(UnaryOperation[op], x.actual))
CallAbs ==
    \E x \in Recent :
        Call1("Abs", Abs(x.inferred),
              Guard(x.actual.dtype # "bool",
                    Ok1(IF IsComplex(x.actual.dtype) THEN WithDType(x.actual, RealDType(x.actual.dtype)) ELSE x.actual)))
CallConj == \E x \in Recent : Call1("Conj", Conj(x.inferred), Guard(IsComplex(x.actual.dtype), Ok1(x.actual)))

CallWhere ==
    \E condition \in XlaOperands : \E x, y \in Operands :
        Call1("Where", Where(condition.inferred, x.inferred, y.inferred),
              WhereShape(condition.actual, x.actual, y.actual))

-------------------------------------------------------------------------------
(* Operations that move the elements. *)

CallPad ==
    \E x \in Recent : \E fill \in Scalars : \E configs \in Paddings :
        LET of(i) == IF i <= Len(configs) THEN configs[i] ELSE <<0, 0, 0>>
            dims == [i \in DOMAIN x.actual.dims |-> of(i)[1] + of(i)[2] + Spread(x.actual.dims[i], of(i)[3] + 1)]
        IN Call1("Pad", XlaPad(x.inferred, fill.inferred, configs),
                 IF IsScalar(x.actual) THEN Ok1(x.actual)
                 ELSE Guard(/\ Len(configs) <= Rank(x.actual) /\ fill.actual.dtype = x.actual.dtype
                            /\ \A i \in DOMAIN dims : dims[i] >= 0,
                            Ok1(WithDims(x.actual, dims))))

CallConvGeneral ==
    \E x, y \in Recent : \E c \in Convolutions :
        Call1("ConvGeneral", ConvGeneral(x.inferred, y.inferred, [c EXCEPT !.batchGroups = @ - 1]),
              Guard(Rank(x.actual) >= 2, Convolved(x.actual, y.actual, [c EXCEPT !.batchGroups = 1])))

\* One start for every axis, as scalars or as a vector that is long enough.
Starting(starts, x) == Len(starts) = 1 /\ Rank(starts[1]) = 1 => Rank(x) <= starts[1].dims[1]
CallDynamicSlice ==
    \E x \in Recent : \E starts \in Starts : \E sizes \in Each({1, 2}, x) :
        Call1("DynamicSlice", XlaDynamicSlice(x.inferred, starts, sizes),
              Guard(Starting(starts, x.actual) /\ \A i \in DOMAIN sizes : sizes[i] <= x.actual.dims[i],
                    Ok1(WithDims(x.actual, sizes))))
CallDynamicUpdateSlice ==
    \E x \in Recent : \E starts \in Starts :
        Call1("DynamicUpdateSlice", XlaDynamicUpdateSlice(x.inferred, starts),
              Guard(Starting(starts, x.actual), Ok1(x.actual)))
CallIota ==
    \E t \in Taken(Targets) : \E axis \in -1 .. 1 :
        Call1("Iota", Iota(t.inferred, axis), Guard(axis < Rank(t.actual), Ok1(t.actual)))

-------------------------------------------------------------------------------
(* Dependencies and products. *)

CallOptimizationBarrier ==
    \E x, y \in Recent : \E xs \in {<<x>>, <<y, x>>} :
        LET shapes(side(_)) == [i \in DOMAIN xs |-> side(xs[i])]
        IN Call1("OptimizationBarrier", XlaOptimizationBarrier(shapes(LAMBDA p : p.inferred), api),
                 Ok(shapes(LAMBDA p : p.actual)))

\* The operand itself; but truth values cannot be multiplied by zero.
CallSchedulingBarrier ==
    \E x, y \in XlaOperands : \E dependencies \in {<< >>, <<y>>, <<y, value>>} :
        Call1("SchedulingBarrier",
              SchedulingBarrier(x.inferred, [i \in DOMAIN dependencies |-> dependencies[i].inferred]),
              Guard(dependencies # << >> => x.actual.dtype # "bool", Ok1(x.actual)))

\* Both operands are of a type, or are brought to the type to accumulate in; on a
\* CPU that is done behind a barrier.
DotConfigs == [accumulator : {"default", "f32", "f64"}, output : {"default", "f32"}]
CallDotGeneral ==
    \E x, y \in Recent : \E first \in BOOLEAN : \E c \in Dots : \E config \in DotConfigs :
        LET t == x.actual.dtype
            output == IF config.output = "default" THEN t ELSE config.output
            kept == config.accumulator \in {"default", "f32", t}
            barrier == api = "cpu" /\ config.accumulator \notin {"default", t}
            of(s) == IF kept THEN s ELSE WithDType(s, config.accumulator)
        IN Call1("DotGeneral", XlaDotGeneral(x.inferred, y.inferred, first, c, config, api),
                 IF barrier /\ (IF first THEN x ELSE y).actual.dtype = "bool" THEN Error
                 ELSE DotGeneral(of(x.actual), of(y.actual), c, output))

-------------------------------------------------------------------------------
(* Reductions, windows, scatters and collectives. *)

Reductions == {"ReduceSum", "ReduceMax", "ReduceBitwiseAnd", "ReduceLogicalOr"}
Reducible(t, op) ==
    CASE op = "ReduceSum" -> t # "bool"
      [] op = "ReduceMax" -> ~IsComplex(t)
      [] OTHER -> t = "bool" \/ IsInt(t)

\* What remains are the axes not named, counted from either end; none named, all.
CallReduce ==
    \E x \in Recent : \E op \in Reductions : \E axes \in ReducedAxes :
        LET rank == Rank(x.actual)
            named == {axis \in 0 .. rank - 1 : axes = << >> \/ {axis, axis - rank} \cap SetOf(axes) # {}}
        IN Call1("XlaReduce", reduce(op, x.inferred, axes),
                 Guard(/\ Reducible(x.actual.dtype, op)
                       /\ axes = << >> \/ Cardinality(named) = Len(axes),
                       Ok1(WithDims(x.actual, Without(x.actual.dims, named)))))

CallArgMinMax ==
    \E x \in Recent : \E axis \in -1 .. 1 : \E t \in {"i32", "f32"} :
        LET rank == Rank(x.actual)
        IN Call1("ArgMinMax", XlaArgMinMax(x.inferred, axis, t),
                 Guard(~IsComplex(x.actual.dtype) /\ axis \in -rank .. rank - 1,
                       Ok1(Shape(t, Without(x.actual.dims, {IF axis < 0 THEN rank + axis ELSE axis})))))

CallReduceWindow ==
    \E x \in Recent : \E c \in Windows : \E reduction \in {"Sum", "Max"} :
        Call1("ReduceWindow", XlaReduceWindow(x.inferred, reduction, c),
              IF Reducible(x.actual.dtype, "Reduce" \o reduction)
              THEN ReducedWindow(x.actual, ScalarOf(x.actual.dtype), c) ELSE Error)

CallSelectAndScatter ==
    \E x \in Recent :
        Call1("SelectAndScatter", selectAndScatterImpl(x.inferred), Guard(x.actual.dtype # "bool", Ok1(x.actual)))

CallScatter ==
    \E x \in Recent : \E indices \in Taken(Indices) : \E c \in Scatters :
        \E op \in {"ScatterMax", "ScatterMin", "ScatterSum"} :
            Call1("Scatter", scatter(op, x.inferred, indices.inferred, x.inferred, c),
                  Guard(/\ op = "ScatterSum" => x.actual.dtype # "bool"
                        /\ Rank(x.actual) = c.updateWindow + c.insertedWindow,
                        Ok1(x.actual)))

\* The outputs are like the operands, in their order, whatever their types.
CallAllReduce ==
    \E x, y \in XlaOperands : \E groups \in {Replicas, << >>} : \E reduction \in {"Sum", "Max"} :
        LET all == <<value, x, y>>
        IN Call1("AllReduce", XlaAllReduce([i \in DOMAIN all |-> all[i].inferred], reduction, groups),
                 Guard(/\ groups # << >>
                       /\ reduction = "Sum" => \A i \in DOMAIN all : all[i].actual.dtype # "bool",
                       Ok([i \in DOMAIN all |-> all[i].actual])))

-------------------------------------------------------------------------------
(* Fused attention. *)

AttentionFits(s) == \A i \in DOMAIN s.dims : s.dims[i] \in 1 .. MaxFeatures
CallAttentionOp(op, inferred, actual) == CallIf(AttentionFits, op, inferred, actual)

\* A query with the keys and values that belong to it: as many batches, places of
\* the sequence and features, and heads that the heads of the query share evenly.
Attends(q, k, v, layout) ==
    /\ Rank(q) = 4 /\ Rank(k) = 4 /\ k = v /\ k.dtype = q.dtype
    /\ LET d == bshdDims(q, layout)
           e == bshdDims(k, layout)
       IN <<d.b, d.s, d.d>> = <<e.b, e.s, e.d>> /\ d.h % e.h = 0 /\ d.d % 8 = 0

\* The options that cuDNN takes: no mask, and a bias for every pair of places or a
\* length for every sequence, but not both.
OptionsFit(q, layout, options) ==
    LET d == bshdDims(q, layout)
        lengths == <<Shape("i32", <<d.b>>)>>
    IN /\ options.mask = << >>
       /\ options.bias \in {<< >>, <<Shape(q.dtype, <<d.b, d.h, d.s, d.s>>)>>}
       /\ <<options.querySeqLen, options.keyValueSeqLen>> \in {<<lengths, lengths>>, << << >>, << >> >>}
       /\ << >> \in {options.bias, options.querySeqLen}

FlashPromised(q, k, v, layout, options) ==
    api = "cuda" /\ q.dtype = "bf16" /\ Attends(q, k, v, layout) /\ OptionsFit(q, layout, options)

CallAttention ==
    \E k, v \in AttentionValues : \E layout \in Layouts : \E options \in AttentionOptions :
        CallAttentionOp("FusedScaledDotProductAttention",
            FusedScaledDotProductAttention(value.inferred, k, v, layout, options, api),
            Guard(FlashPromised(value.actual, k, v, layout, options),
                  LET d == bshdDims(value.actual, layout)
                  IN Ok(<<value.actual, Shape("f32", <<d.b, d.h, d.s>>)>>)))

\* Every gradient is like what it is the gradient of.
CallAttentionVJP ==
    \E k, v \in AttentionValues : \E layout \in Layouts : \E options \in AttentionOptions :
        \E states \in {<< >>, <<value.inferred>>} :
            CallAttentionOp("FusedScaledDotProductAttentionVJP",
                FusedScaledDotProductAttentionVJP(input.inferred, k, v, layout, options, states, value.inferred, api),
                Guard(/\ states # << >> /\ value.actual = input.actual
                      /\ FlashPromised(input.actual, k, v, layout, options),
                      Ok(<<input.actual, k, v>>)))

-------------------------------------------------------------------------------
XlaNext ==
    \/ Next
    \/ CallBinary \/ CallComplex \/ CallComparison \/ CallIsNaN \/ CallUnary \/ CallAbs \/ CallConj \/ CallWhere
    \/ CallPad \/ CallConvGeneral \/ CallDynamicSlice \/ CallDynamicUpdateSlice \/ CallIota
    \/ CallOptimizationBarrier \/ CallSchedulingBarrier \/ CallDotGeneral
    \/ CallReduce \/ CallArgMinMax \/ CallReduceWindow \/ CallSelectAndScatter \/ CallScatter \/ CallAllReduce
    \/ CallAttention \/ CallAttentionVJP

\* Programs written with either package.
XlaSpec == (Init \/ XlaInit) /\ [][XlaNext]_vars

-------------------------------------------------------------------------------
\* What is known of the result of an elementwise operation does not depend on the
\* order of its operands: either may be the one that knows a dimension, or the one
\* that is stretched.
OperandOrderIrrelevant ==
    LET Known == {value.inferred, value.actual, input.inferred}
        Stretched == IF Direct THEN {} ELSE {value.inferred} \cup {c.inferred : c \in XlaConstants}
        same(a, b) == a.status = b.status /\ (a.status = "ok" => Equal(a.shapes[1], b.shapes[1]))
    IN /\ \A x, y \in Known :
             x.dtype = y.dtype =>
                 /\ same(BinaryOp("Maximum", x, y), BinaryOp("Maximum", y, x))
                 /\ same(Complex(x, y), Complex(y, x))
       /\ \A x, y \in Stretched : same(XlaBinaryOp("Max", x, y), XlaBinaryOp("Max", y, x))
===============================================================================
