---------------------------- MODULE MCShapeProgram ----------------------------
(* Small values and arguments for ShapeProgram and XlaProgram. *)
EXTENDS XlaProgram

X == DimUnknown
In(t, dims, actual) == Pair(Shape(t, dims), Shape(t, actual))

MCInputs == {In("f32", <<2, 3>>, <<2, 3>>), In("f32", <<X, 3>>, <<2, 3>>), In("f32", <<2, X>>, <<2, 3>>),
             In("f32", <<X, X>>, <<2, 2>>), In("f32", <<X>>, <<3>>), In("i32", <<4>>, <<4>>), In("i32", <<X>>, <<4>>),
             In("c64", <<X>>, <<3>>), In("bool", <<X>>, <<2>>), In("u8", <<2, X>>, <<2, 4>>),
             In("f32", <<X, 1, 3>>, <<1, 1, 3>>), In("f32", <<1, X, X>>, <<1, 2, 3>>)}
MCScalars == {Static(Shape(t, << >>)) : t \in {"f32", "i32", "bool"}}
MCTargets == {In("f32", <<X, 2>>, <<3, 2>>), In("f32", <<2, 3>>, <<2, 3>>), In("f32", <<2, 1, 3>>, <<2, 1, 3>>), In("i32", <<X>>, <<4>>)}
MCIndices == {In("i32", <<2, 1>>, <<2, 1>>), In("i32", <<X>>, <<2>>)}
MCShapeTensors == {Shape("i32", <<2>>), Shape("i32", <<1>>), Shape("i32", <<X>>), Shape("f32", <<2>>), Shape("i32", <<1, 2>>)}

Gathering(axis, offset, collapsed, operandBatching, startBatching, map, sizes) ==
    [indexVectorAxis |-> axis, offset |-> offset, collapsed |-> collapsed, operandBatching |-> operandBatching,
     startBatching |-> startBatching, map |-> map, sizes |-> sizes]
MCGathers == {Gathering(1, <<1>>, <<0>>, << >>, << >>, <<0>>, <<1, 2>>),
              Gathering(1, <<0>>, <<0>>, << >>, << >>, <<0>>, <<1, X>>),
              Gathering(1, << >>, <<0>>, << >>, << >>, <<0>>, <<1>>),
              Gathering(1, << >>, <<1>>, <<0>>, <<0>>, <<1>>, <<1, 1>>)}
MCScatters == {[updateWindow |-> 1, inputBatching |-> 0, insertedWindow |-> 1],
               [updateWindow |-> 0, inputBatching |-> 0, insertedWindow |-> 1]}

Window(window, strides, inputDilations, windowDilations, paddings) ==
    [window |-> window, strides |-> strides, inputDilations |-> inputDilations,
     windowDilations |-> windowDilations, paddings |-> paddings]
MCWindows == {Window(<<2>>, << >>, << >>, << >>, << >>), Window(<<2, 1>>, <<1, 2>>, << >>, << >>, <<<<0, 1>>, <<1, 0>>>>),
              Window(<<2, 2>>, <<2, 1>>, <<2, 1>>, <<1, 1>>, << >>), Window(<<2>>, <<1>>, <<1>>, <<2>>, <<<<1, 1>>>>)}

Conv(strides, paddings, inputDilations, kernelDilations, channelGroups, batchGroups) ==
    [strides |-> strides, paddings |-> paddings, inputDilations |-> inputDilations, kernelDilations |-> kernelDilations,
     input |-> <<0, 1, <<-1>>>>, kernel |-> <<1, 0, <<2>>>>, output |-> <<0, 1, <<2>>>>,
     channelGroups |-> channelGroups, batchGroups |-> batchGroups]
MCConvolutions == {Conv(<<2>>, <<<<1, 2>>>>, << >>, << >>, 1, 1), Conv(<< >>, << >>, <<2>>, << >>, 1, 1),
                   Conv(<<1>>, <<<<0, 1>>>>, <<2>>, <<1>>, 2, 1), Conv(<<1>>, << >>, <<1>>, <<1>>, 1, 2)}

Product(lhsContracting, lhsBatch, rhsContracting, rhsBatch) ==
    [lhsContracting |-> lhsContracting, lhsBatch |-> lhsBatch, rhsContracting |-> rhsContracting, rhsBatch |-> rhsBatch]
MCDots == {Product(<<-1>>, << >>, <<1>>, << >>), Product(<<1>>, <<0>>, <<1>>, <<0>>), Product(<< >>, <<0>>, << >>, <<0>>)}

StaticOf(t, dims) == Static(Shape(t, dims))
MCXlaInputs == {StaticOf("f32", <<2, 3>>), StaticOf("i32", <<4>>), StaticOf("bool", <<2>>), StaticOf("c64", <<3>>),
                StaticOf("f32", <<1, 2, 3>>), StaticOf("bf16", <<2, 3, 4, 8>>), StaticOf("bf16", <<2, 4, 3, 8>>)}
MCXlaConstants == {StaticOf("f32", <<1, 3>>), StaticOf("f32", <<2, 1>>), StaticOf("bool", <<2, 3>>)}
MCPaddings == {<< >>, <<<<1, 0, 1>>>>, <<<<0, -1, 0>>, <<-1, 1, 2>>>>}
MCStarts == {<<Shape("i32", <<2>>)>>, <<Shape("i32", << >>), Shape("i32", << >>)>>}

MCAttentionValues == {Shape("bf16", <<2, 3, 4, 8>>), Shape("bf16", <<2, 3, 2, 8>>), Shape("bf16", <<2, 2, 3, 8>>)}
Option(mask, bias, querySeqLen, keyValueSeqLen) ==
    [mask |-> mask, bias |-> bias, querySeqLen |-> querySeqLen, keyValueSeqLen |-> keyValueSeqLen]
None == << >>
Lengths == <<Shape("i32", <<2>>)>>
Bias == <<Shape("bf16", <<2, 4, 3, 3>>)>>
MCAttentionOptions == {Option(None, None, None, None), Option(None, None, Lengths, Lengths), Option(None, None, Lengths, None),
                       Option(None, Bias, None, None), Option(None, Bias, Lengths, Lengths), Option(Bias, None, None, None)}
===============================================================================
