------------------------------- MODULE StableHLO -------------------------------
(***************************************************************************)
(* Package stablehlo as the builder of a program: functions, the closures     *)
(* that are passed to statements, the names of values, and the text that is    *)
(* written.  A step is one call of the program; calls that return an error      *)
(* without having changed anything are not steps.  Values have one shape here:  *)
(* the shapes are in ShapeProgram.                                             *)
(***************************************************************************)
EXTENDS Integers, Sequences, FiniteSets
LOCAL INSTANCE SequencesExt
LOCAL INSTANCE FiniteSetsExt

CONSTANTS GivenNames,     \* names the program gives to inputs
          Disciplined,    \* the program ends a function before it passes it on
          MaxFunctions, MaxCalls   \* bounds on the program

VARIABLES functions,   \* Builder.functions, closures included, as they are created
          calls        \* calls made, for the bound on them
\* Names are pairs: <<"arg", n>>, <<"tmp", n>> or <<"given", name>>.
vars == <<functions, calls>>

\* Functions are numbered by their place in Builder.functions; zero is no function.
IDs == DOMAIN functions
NewFn(name, parent) ==
    [name |-> name, parent |-> parent, inputs |-> << >>, statements |-> << >>,
     outputs |-> 0, returned |-> FALSE, nextArgID |-> 0, nextTmpID |-> 0]

Leaf(k) == [op |-> "op", inputs |-> << >>, outputs |-> <<<<"tmp", k>>>>, closures |-> << >>, callee |-> 0]
Returning(k) == [op |-> "FuncReturn", inputs |-> <<<<"tmp", k>>>>, outputs |-> << >>, closures |-> << >>, callee |-> 0]

\* A function, its closure and a closure of that, which has returned.
Nested == <<[NewFn("main", 0) EXCEPT !.statements = <<Leaf(0)>>, !.nextTmpID = 3],
            [NewFn("closure", 1) EXCEPT !.statements = <<Leaf(1)>>],
            [NewFn("closure", 2) EXCEPT !.statements = <<Leaf(2), Returning(2)>>, !.outputs = 1, !.returned = TRUE]>>

\* A new program, or, to reach further, one that has made such calls, of which the
\* bound counts one.
Init == \/ functions = <<NewFn("main", 0)>> /\ calls = 0
        \/ functions = Nested /\ calls = 1

-------------------------------------------------------------------------------
\* A function and the functions around it.
ancestors[f \in IDs] ==
    IF functions[f].parent = 0 THEN {f} ELSE {f} \cup ancestors[functions[f].parent]

\* Seeded bug: every function counts its own names.
findRootFn_Self(f) == f
findRootFn(f) == Min(ancestors[f])
isAncestor(f, g) == f \in ancestors[g]

\* Seeded bug: the function of the first operand, not of the innermost one.
innerMostFunction_First(xs) == {xs[1].fn}
innerMostFunction(xs) ==
    {f \in {xs[i].fn : i \in DOMAIN xs} : \A i \in DOMAIN xs : isAncestor(xs[i].fn, f)}

Defined(f) == Range(functions[f].inputs)
                \cup UNION {Range(s.outputs) : s \in Range(functions[f].statements)}

\* The values of a function the program can have: its own, and by UseParentValue
\* any value of its ancestors, under the same name.
Values(f) == [fn : {f}, name : UNION {Defined(g) : g \in ancestors[f]}]
AllValues == UNION {Values(f) : f \in IDs}

NamesOf(xs) == [i \in DOMAIN xs |-> xs[i].name]

\* A statement is appended to f, and gets its outputs from the counter at the root.
\* Operations without functions are not told apart afterwards.
Appended(fs, f, op, inputs, outputs, closures, callee) ==
    LET root == findRootFn(f)
        first == fs[root].nextTmpID
        stmt == [op |-> op, inputs |-> inputs, closures |-> closures, callee |-> callee,
                 outputs |-> [i \in 1 .. outputs |-> <<"tmp", first + i - 1>>]]
    IN [fs EXCEPT ![f].statements = Append(@, stmt), ![root].nextTmpID = @ + outputs]
addMultiOp(f, op, xs, outputs, closures, callee) ==
    functions' = Appended(functions, f, op, NamesOf(xs), outputs, closures, callee)

-------------------------------------------------------------------------------
(* Functions and their inputs. *)

NewFunction ==
    /\ Len(functions) < MaxFunctions
    /\ functions' = Append(functions, NewFn("other", 0))

Closure(f) ==
    /\ Len(functions) < MaxFunctions
    /\ functions' = Append(functions, NewFn("closure", f))

\* Functions that the text refers to already: passed to a statement, or called.
Passed == {f \in IDs : \E g \in IDs : \E s \in Range(functions[g].statements) :
                            f \in Range(s.closures) \cup {s.callee}}

\* Nothing here asks whether the function has returned, or is in use.
NamedInputWithShardingAndAttributes(f, name) ==
    LET root == findRootFn(f)
    IN /\ Disciplined => ~functions[f].returned /\ f \notin Passed
       /\ name \notin Range(functions[f].inputs)
       /\ functions' = [functions EXCEPT ![f].inputs = Append(@, name),
                                         ![root].nextArgID = @ + 1]

Input(f) == NamedInputWithShardingAndAttributes(f, <<"arg", functions[findRootFn(f)].nextArgID>>)
NamedInput(f) == \E name \in GivenNames : NamedInputWithShardingAndAttributes(f, <<"given", name>>)

\* The mark is set first: when the values turn out to be of another function, the
\* function is left closed, without a return statement and without outputs.
Return(f) ==
    \E x \in AllValues :
        LET stmt == [op |-> "FuncReturn", inputs |-> <<x.name>>, outputs |-> << >>, closures |-> << >>, callee |-> 0]
        IN /\ ~functions[f].returned
           /\ functions' = IF x.fn = f
                           THEN [functions EXCEPT ![f].returned = TRUE, ![f].outputs = 1,
                                                  ![f].statements = Append(@, stmt)]
                           ELSE [functions EXCEPT ![f].returned = TRUE]

-------------------------------------------------------------------------------
(* Statements.  An operation on two values of one function is like one on one of
   them, used twice; the program below makes no other. *)

ConstantFromScalar(f) == ~functions[f].returned /\ addMultiOp(f, "op", << >>, 1, << >>, 0)
Iota(f) == addMultiOp(f, "op", << >>, 1, << >>, 0)

\* The operands are values of the very function.
binaryOp(f) ==
    \E x \in Values(f) :
        /\ ~functions[f].returned
        /\ addMultiOp(f, "op", <<x, x>>, 1, << >>, 0)

\* Operations whose operands may come from the functions around, such as Compare,
\* Concatenate and Convolution.
innerMostOp(f) ==
    \E x, y \in AllValues :
        /\ x.fn # y.fn
        /\ f \in innerMostFunction(<<x, y>>)
        /\ ~functions[f].returned
        /\ addMultiOp(f, "op", <<x, y>>, 1, << >>, 0)

\* The program passes a function to a statement once it is complete.
Complete(c) == Disciplined => functions[c].returned

withClosure(f, c) ==
    /\ ~functions[f].returned /\ Complete(c)
    /\ functions[c].parent = f

\* Reduce, ReduceWindow, Scatter, AllReduce and Sort on one operand.
Reduce(f) ==
    \E c \in IDs : \E x \in Values(f) :
        /\ withClosure(f, c)
        /\ Len(functions[c].inputs) = 2 /\ functions[c].outputs = 1
        /\ addMultiOp(f, "Reduce", <<x>>, 1, <<c>>, 0)

While(f) ==
    \E cond, body \in IDs : \E x \in Values(f) :
        /\ withClosure(f, cond) /\ withClosure(f, body)
        /\ \A c \in {cond, body} : Len(functions[c].inputs) = 1 /\ functions[c].outputs = 1
        /\ addMultiOp(f, "While", <<x>>, 1, <<cond, body>>, 0)

If(f) ==
    \E onTrue, onFalse \in IDs : \E pred \in Values(f) :
        /\ withClosure(f, onTrue) /\ withClosure(f, onFalse)
        /\ functions[onTrue].inputs = << >> /\ functions[onFalse].inputs = << >>
        /\ functions[onTrue].outputs = functions[onFalse].outputs
        /\ addMultiOp(f, "If", <<pred>>, functions[onTrue].outputs, <<onTrue, onFalse>>, 0)

\* Nothing is asked of the function called: it may be a closure, be without a
\* return, or be the caller.
Call(f) ==
    \E callee \in IDs : \E x \in Values(f) :
        /\ ~functions[f].returned /\ Complete(callee)
        /\ Len(functions[callee].inputs) = 1
        /\ addMultiOp(f, "Call", <<x>>, functions[callee].outputs, << >>, callee)

Next ==
    /\ calls < MaxCalls /\ calls' = calls + 1
    /\ \/ NewFunction
       \/ \E f \in IDs :
            \/ Closure(f) \/ Input(f) \/ NamedInput(f) \/ Return(f)
            \/ ConstantFromScalar(f) \/ Iota(f) \/ binaryOp(f) \/ innerMostOp(f)
            \/ Reduce(f) \/ While(f) \/ If(f) \/ Call(f)

Spec == Init /\ [][Next]_vars

\* Build succeeds.
Build == /\ \E f \in IDs : functions[f].name = "main"
         /\ \A f \in IDs : functions[f].statements # << >>

-------------------------------------------------------------------------------
(* Properties. *)

\* A name is given to one value among a function and its closures: closures see the
\* names of the functions around them, so their inputs and results must have
\* others.  Names that were given, by the program or by the backend, may be the same.
Definitions(f) ==   \* the places, with zero for the inputs
    {<<0, i>> : i \in DOMAIN functions[f].inputs}
        \cup UNION {{<<k, i>> : i \in DOMAIN functions[f].statements[k].outputs} : k \in DOMAIN functions[f].statements}
NameAt(f, d) == IF d[1] = 0 THEN functions[f].inputs[d[2]] ELSE functions[f].statements[d[1]].outputs[d[2]]
UniqueNames ==
    \A f, g \in IDs : findRootFn(f) = findRootFn(g) =>
        \A d \in Definitions(f), e \in Definitions(g) :
            NameAt(f, d) = NameAt(g, e) => <<f, d>> = <<g, e>> \/ (f # g /\ NameAt(f, d)[1] = "given")

\* The names that the statements of a function can refer to in the text: its
\* inputs, the results of earlier statements, and what was visible at each of the
\* statements that the closure is written in.
Before(f, k) ==
    Range(functions[f].inputs)
        \cup UNION {Range(functions[f].statements[i].outputs) : i \in 1 .. k - 1}
Sites(c) == {k \in DOMAIN functions[functions[c].parent].statements :
                c \in Range(functions[functions[c].parent].statements[k].closures)}
InScope(c) == {name \in Defined(functions[c].parent) : \A k \in Sites(c) : name \in Before(functions[c].parent, k)}
closuresAround(f) == {c \in ancestors[f] : functions[c].parent # 0}
around(f) == UNION {InScope(c) : c \in closuresAround(f)}

\* A closure that no statement has taken is not written, nor what is in it.
written(f) == \A c \in closuresAround(f) : Sites(c) # {}

\* In the text, every operand is defined before it is used and is visible there,
\* at every place where a closure is written.
OperandsVisible ==
    \A f \in IDs : \A k \in DOMAIN functions[f].statements : written(f) =>
        Range(functions[f].statements[k].inputs) \subseteq around(f) \cup Before(f, k)

\* The calls and the statements with closures still agree with the signatures of the
\* functions, when the program is built, and the closures are those of the function
\* they are used in.
SignaturesAgree ==
    Build => \A f \in IDs : \A s \in Range(functions[f].statements) :
        /\ \A c \in Range(s.closures) : functions[c].parent = f
        /\ s.op = "Call" => /\ Len(s.inputs) = Len(functions[s.callee].inputs)
                            /\ Len(s.outputs) = functions[s.callee].outputs
        /\ s.op = "Reduce" => Len(functions[s.closures[1]].inputs) = 2
        /\ s.op = "If" => \A i \in {1, 2} : functions[s.closures[i]].outputs = Len(s.outputs)
        /\ s.op = "While" => \A i \in {1, 2} : Len(functions[s.closures[i]].inputs) = 1

\* A function that has returned "can no longer be changed".
ReturnedIsFinal ==
    [][\A f \in IDs : functions[f].returned =>
          /\ functions'[f].inputs = functions[f].inputs
          /\ functions'[f].statements = functions[f].statements]_vars
===============================================================================
