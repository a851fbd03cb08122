------------------------------- MODULE Attention -------------------------------
(***************************************************************************)
(* The fused attention of the compute/xla backend (flash.go): which calls it   *)
(* hands to cuDNN and the shapes it gives to the outputs.  Everything else is   *)
(* an error, on which the caller builds the same from single operations.  A      *)
(* tensor of rank four holds, in one of two orders, a batch, a sequence, heads    *)
(* and features; several heads of the query may share one of key and value.       *)
(* Of the options, those not given are empty sequences.                           *)
(***************************************************************************)
EXTENDS XlaOps

Layouts == {"BSHD", "BHSD"}

\* The dimensions of a tensor of rank four, by name.
bshdDims(x, layout) ==
    LET d == x.dims
    IN IF layout = "BSHD" THEN [b |-> d[1], s |-> d[2], h |-> d[3], d |-> d[4]]
                          ELSE [b |-> d[1], s |-> d[3], h |-> d[2], d |-> d[4]]

IsHalfPrecision(t) == t = "bf16"

flashSupported(platform, query, heads, kvHeads, layout, options) ==
    /\ platform = "cuda"
    /\ IsHalfPrecision(query.dtype)
    /\ options.mask = << >>
    /\ bshdDims(query, layout).d % 8 = 0
    /\ heads % kvHeads = 0
    /\ options.querySeqLen = << >> <=> options.keyValueSeqLen = << >>

\* Lengths and a bias are accepted one at a time.
hasSeqLens(options) == options.querySeqLen # << >> /\ options.keyValueSeqLen # << >>
hasBias(options) == options.bias # << >>
selectFMHAVariant(t, options) == IsHalfPrecision(t) /\ ~(hasBias(options) /\ hasSeqLens(options))

validateBias(bias, t, d) == bias = Shape(t, <<d.b, d.h, d.s, d.s>>)
validateSeqLen(lengths, d) == lengths = Shape("i32", <<d.b>>)

\* The checks of options that both directions make on the way.
ValidOptions(query, layout, options) ==
    LET d == bshdDims(query, layout)
    IN /\ hasBias(options) => validateBias(options.bias[1], query.dtype, d)
       /\ hasSeqLens(options) => /\ validateSeqLen(options.querySeqLen[1], d)
                                 /\ validateSeqLen(options.keyValueSeqLen[1], d)

-------------------------------------------------------------------------------
(* Heads that share a key and a value. *)

\* The dimensions of x with an axis of n next to the heads, and with new heads.
Grouped(x, layout, heads, n) ==
    IF layout = "BSHD" THEN <<x.dims[1], x.dims[2], heads, n, x.dims[4]>>
                       ELSE <<x.dims[1], heads, n, x.dims[3], x.dims[4]>>
WithHeads(x, layout, heads) ==
    IF layout = "BSHD" THEN <<x.dims[1], x.dims[2], heads, x.dims[4]>>
                       ELSE <<x.dims[1], heads, x.dims[3], x.dims[4]>>

broadcastGQA(x, heads, kvHeads, layout) ==
    IF heads \div kvHeads = 1 THEN Ok1(x)
    ELSE IF Rank(x) # 4 THEN Error
    ELSE Then(ReshapeOp(x, WithDims(x, Grouped(x, layout, kvHeads, 1))), LAMBDA grouped :
         Then(BroadcastInDim(grouped, WithDims(x, Grouped(x, layout, kvHeads, heads \div kvHeads)), IotaAxes(5)),
              LAMBDA repeated : ReshapeOp(repeated, WithDims(x, WithHeads(x, layout, heads)))))

reduceSumGQA(dx, heads, kvHeads, layout) ==
    IF heads \div kvHeads = 1 THEN Ok1(dx)
    ELSE Then(ReshapeOp(dx, WithDims(dx, Grouped(dx, layout, kvHeads, heads \div kvHeads))), LAMBDA grouped :
              reduce("ReduceSum", grouped, <<IF layout = "BSHD" THEN 3 ELSE 2>>))

\* An output of cuDNN has its heads before the sequence.
FromBHSD(x, layout) == IF layout = "BSHD" THEN Transpose(x, <<0, 2, 1, 3>>) ELSE Ok1(x)

-------------------------------------------------------------------------------
(* The call of cuDNN. *)

Gemm(lhsContracting, lhsBatch, rhsContracting, rhsBatch) ==
    [lhsContracting |-> <<lhsContracting>>, lhsBatch |-> lhsBatch,
     rhsContracting |-> <<rhsContracting>>, rhsBatch |-> rhsBatch]

\* Batch and heads, and the sequence, of a tensor in a layout; scores have a row
\* and a column for every place of the sequence, after batch and heads.
Outer(layout) == IF layout = "BSHD" THEN <<0, 2>> ELSE <<0, 1>>
Sequence(layout) == IF layout = "BSHD" THEN 1 ELSE 2

\* The products that make up the attention: of query and key, the scores, and of
\* these and the value, the output.
flashFwdBackendConfig(layout) ==
    [bmm1 |-> Gemm(3, Outer(layout), 3, Outer(layout)),
     bmm2 |-> Gemm(3, <<0, 1>>, Sequence(layout), Outer(layout))]

\* The products of the gradient: of the scores with the query for the key, with the
\* key for the query, with the gradient for the value; of gradient and value.
flashBwdBackendConfig(layout) ==
    [bmm1_grad_gemm1 |-> Gemm(2, <<0, 1>>, Sequence(layout), Outer(layout)),
     bmm1_grad_gemm2 |-> Gemm(3, <<0, 1>>, Sequence(layout), Outer(layout)),
     bmm2_grad_gemm1 |-> Gemm(2, <<0, 1>>, Sequence(layout), Outer(layout)),
     bmm2_grad_gemm2 |-> Gemm(3, Outer(layout), 3, Outer(layout))]

\* The shape that the configuration declares for the scores.
flashBackendConfigV(bhsd) == WithDims(bhsd, <<bhsd.dims[1], bhsd.dims[2], bhsd.dims[3], bhsd.dims[3]>>)

\* cuDNN refuses a product that does not have the shape declared for it.
Computes(lhs, rhs, dot, result) == DotGeneral(lhs, rhs, dot, lhs.dtype) = Ok1(result)

\* When the call is for cuDNN: its output, heads before the sequence, and the key
\* and value it is given.  Only the number of heads of the key is looked at.
customCall(query, key, value, layout, options, platform) ==
    LET q == bshdDims(query, layout)
        kvHeads == bshdDims(key, layout).h
        repeated(x) == broadcastGQA(x, q.h, kvHeads, layout)
    IN IF Rank(query) # 4 \/ Rank(key) # 4 THEN Error
       ELSE Guard(/\ flashSupported(platform, query, q.h, kvHeads, layout, options)
                  /\ selectFMHAVariant(query.dtype, options)
                  /\ ValidOptions(query, layout, options),
                  Together(<<Ok1(Shape(query.dtype, <<q.b, q.h, q.s, q.d>>)), repeated(key), repeated(value)>>))

\* The output, and the statistics that the gradient takes.
FusedScaledDotProductAttention(query, key, value, layout, options, platform) ==
    LET call == customCall(query, key, value, layout, options, platform)
        bhsd == call.shapes[1]
        scores == flashBackendConfigV(bhsd)
        config == flashFwdBackendConfig(layout)
    IN IF call.status # "ok" THEN call
       ELSE Guard(/\ Computes(query, call.shapes[2], config.bmm1, scores)
                  /\ Computes(scores, call.shapes[3], config.bmm2, bhsd),
                  Together(<<FromBHSD(bhsd, layout), Ok1(Shape("f32", SubSeq(bhsd.dims, 1, 3)))>>))

\* The gradients of query, key and value, from that of the output.
FusedScaledDotProductAttentionVJP(query, key, value, layout, options, states, dOutput, platform) ==
    LET call == customCall(query, key, value, layout, options, platform)
        bhsd == call.shapes[1]
        scores == flashBackendConfigV(bhsd)
        config == flashBwdBackendConfig(layout)
        heads(x) == bshdDims(x, layout).h
        ofShared == Then(FromBHSD(bhsd, layout), LAMBDA dx : reduceSumGQA(dx, heads(query), heads(key), layout))
    IN IF states = << >> THEN Error
       ELSE IF call.status # "ok" THEN call
       ELSE Guard(/\ Computes(scores, query, config.bmm1_grad_gemm1, bhsd)
                  /\ Computes(scores, call.shapes[2], config.bmm1_grad_gemm2, bhsd)
                  /\ Computes(scores, dOutput, config.bmm2_grad_gemm1, bhsd)
                  /\ Computes(dOutput, call.shapes[3], config.bmm2_grad_gemm2, scores),
                  Together(<<FromBHSD(bhsd, layout), ofShared, ofShared>>))
===============================================================================
