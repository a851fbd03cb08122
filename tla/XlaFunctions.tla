----------------------------- MODULE XlaFunctions -----------------------------
(***************************************************************************)
(* compute/xla on top of the StableHLO builder, where it adds state to it:     *)
(* the functions that combine two values in a reduction are made on demand and *)
(* kept by the Builder, one for each data type and operation.  One such pair   *)
(* is followed.  The other calls of the program are those of StableHLO.       *)
(***************************************************************************)
EXTENDS StableHLO

VARIABLE cacheReductions   \* the function kept for the pair, zero for none
xlaVars == <<vars, cacheReductions>>

XlaInit == Init /\ cacheReductions = 0

\* The function is a closure of the one that reduces first, with two inputs, an
\* operation on them, and a return.
Combining(f) ==
    LET result == <<"tmp", functions[findRootFn(f)].nextTmpID>>
        lhs == <<"given", "lhs">>
        rhs == <<"given", "rhs">>
        stmt == [op |-> "op", inputs |-> <<lhs, rhs>>, outputs |-> <<result>>, closures |-> << >>, callee |-> 0]
    IN [NewFn("closure", f) EXCEPT
           !.inputs = <<lhs, rhs>>,
           !.statements = <<stmt, [stmt EXCEPT !.op = "FuncReturn", !.inputs = <<result>>, !.outputs = << >>]>>,
           !.outputs = 1, !.returned = TRUE]

getReductionFn(f) ==
    LET root == findRootFn(f)
    IN IF cacheReductions # 0 THEN functions
       ELSE [Append(functions, Combining(f)) EXCEPT ![root].nextTmpID = @ + 1, ![root].nextArgID = @ + 2]

\* Seeded bug: MultiReduce takes the closure of any function.
TakesReductionFn_Any(fs, g, c) == ~fs[g].returned
TakesReductionFn(fs, g, c) == ~fs[g].returned /\ fs[c].parent = g

\* The reductions of Function, by way of MultiReduce.  The statement belongs to the
\* innermost function of the operand and the initial value.  When f has returned, or
\* the function kept is the closure of another one, the call fails and leaves behind
\* what it has made: the function, or the constant.
reduce(f) ==
    \E x \in AllValues :
        LET c == IF cacheReductions = 0 THEN Len(functions) + 1 ELSE cacheReductions
            combined == getReductionFn(f)
            initial == <<"tmp", combined[findRootFn(f)].nextTmpID>>
            initialized == Appended(combined, f, "op", << >>, 1, << >>, 0)
            innermost == innerMostFunction(<<x, [fn |-> f, name |-> initial]>>)
            reduced == {Appended(initialized, g, "Reduce", <<x.name, initial>>, 1, <<c>>, 0) :
                            g \in {h \in innermost : TakesReductionFn(initialized, h, c)}}
        IN /\ c <= MaxFunctions
           /\ cacheReductions' = c
           /\ functions' \in IF functions[f].returned THEN {combined}
                             ELSE IF reduced = {} THEN {initialized} ELSE reduced

XlaNext ==
    \/ Next /\ UNCHANGED cacheReductions
    \/ /\ calls < MaxCalls /\ calls' = calls + 1
       /\ \E f \in IDs : reduce(f)

XlaSpec == XlaInit /\ [][XlaNext]_xlaVars
===============================================================================
