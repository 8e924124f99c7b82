-------------------------- MODULE MCSilverCompiler --------------------------
(***************************************************************************)
(* Programs for the compiler: contracts whose one entrypoint runs two      *)
(* pieces of code over the same variables, each written so that what the   *)
(* first leaves on the stack is in the way of the second, and contracts    *)
(* with several entrypoints, with state, and with errors.                  *)
(***************************************************************************)
EXTENDS SilverCompiler

Function(f, entry, ps, rs, ss) ==
    [n |-> f, entry |-> entry, params |-> ps, rets |-> rs, tuple |-> Len(rs) > 1, attrs |-> <<>>, body |-> ss]
Entry(f, ps, rs, ss) == Function(f, TRUE, ps, rs, ss)
Helper(f, ps, rs, ss) == Function(f, FALSE, ps, rs, ss)
Ints(xs) == [i \in DOMAIN xs |-> Param(TInt, xs[i])]
Contract(ps, fs, cs, ss, funs) == [params |-> ps, fields |-> fs, consts |-> cs, structs |-> ss, funs |-> funs]
Program(c, args, calls, ok) == [c |-> c, args |-> args, calls |-> calls, ok |-> ok]
CallOf(f, args, tx) == [f |-> f, args |-> args, tx |-> tx]

Coin(value, state) == [value |-> value, state |-> state, cov |-> <<>>, auth |-> -1, spk |-> <<>>, sig |-> <<>>]
Tx(active, ins, outs) == [active |-> active, ins |-> ins, outs |-> outs, time |-> 1, age |-> 1]
PlainTx == Tx(0, <<Coin(5, Nothing)>>, <<Coin(4, Nothing)>>)

a == Id("a")
b == Id("b")
Bin(l, op, r) == Binary(op, l, r)
Num(i) == IntLit(i)
PT == TypeRef("pt", <<>>)
Pt(x, y) == StateObject(<<"x", "y">>, <<x, y>>)
Let(x, e) == VarDef(TInt, x, e)

(* What the pieces call: one result, two results, none, and one that calls another. *)
Helpers == <<
    Helper("twice", Ints(<<"a">>), <<TInt>>, <<Let("b", Bin(a, "+", a)), Return(<<b>>)>>),
    Helper("sum", Ints(<<"x", "a">>), <<TInt>>, <<Let("t", Call("twice", <<Id("x")>>)), Return(<<Bin(Id("t"), "+", a)>>)>>),
    Helper("swap", Ints(<<"a", "b">>), <<TInt, TInt>>, <<Return(<<b, a>>)>>),
    Helper("atmost", Ints(<<"x", "max">>), <<>>, <<Let("over", Bin(Id("x"), "-", Id("max"))), Require(Bin(Id("over"), "<=", Num(0)))>>),
    Helper("flip", <<Param(PT, "p")>>, <<PT>>, <<Return(<<Pt(FieldAccess(Id("p"), "y"), FieldAccess(Id("p"), "x"))>>)>>)>>

(* The pieces; k keeps the names of two of them apart. *)
V(x, k) == x \o ToString(k)
Pieces(k) == <<
    <<Assign("a", Bin(b, "-", Id("n"))), Assign("b", Bin(a, "*", Id("K")))>>,
    <<If(Bin(a, ">", b), <<Assign("a", b), Assign("b", Bin(b, "+", Num(1)))>>, <<Let("z", Bin(a, "+", b)), Assign("b", Bin(Id("z"), "*", Id("z")))>>)>>,
    <<IfOnly(Bin(a, "==", b), <<Let("z", Bin(a, "+", Id("n"))), Assign("b", Bin(Id("z"), "*", Id("z")))>>)>>,
    <<Block(<<Let("z", b), Assign("b", a), Assign("a", Bin(Id("z"), "+", Id("z")))>>)>>,
    <<For("i", Num(0), Num(3), Num(3), <<Assign("a", Bin(a, "+", Bin(Id("i"), "*", b)))>>)>>,
    <<For("i", Num(0), b, Num(2), <<IfOnly(Bin(Id("i"), "!=", Num(1)), <<Assign("a", Bin(a, "+", Num(3)))>>), Let("y", Id("i")), Assign("a", Bin(a, "-", Bin(Id("y"), "*", Id("y"))))>>)>>,
    <<For("i", Num(0), Bin(b, "+", Id("n")), Num(3), <<Assign("b", Bin(b, "-", Id("i"))), Assign("a", Bin(Bin(a, "*", Num(2)), "+", b))>>)>>,
    <<Let(V("w", k), Bin(Call("sum", <<a, b>>), "-", Call("twice", <<b>>))), Assign("a", Bin(Id(V("w", k)), "+", Num(k)))>>,
    <<FunctionCallAssign(Ints(<<V("x", k), V("y", k)>>), "swap", <<a, Bin(b, "+", Num(1))>>), Assign("a", Id(V("x", k))), Assign("b", Bin(Id(V("y", k)), "-", a))>>,
    <<VarDef(PT, V("p", k), Pt(a, Bin(b, "+", Num(1)))), FunctionCallAssign(<<Param(PT, V("q", k))>>, "flip", <<Id(V("p", k))>>),
      Assign("b", FieldAccess(Id(V("q", k)), "y")), Assign("a", FieldAccess(Id(V("p", k)), "y"))>>,
    <<VarDef(PT, V("p", k), Pt(a, b)), VarDef(PT, V("q", k), Pt(b, Id("n"))), VarDef(ArrayOf(PT, Dynamic), V("ps", k), Array(<<Id(V("p", k)), Id(V("q", k))>>)),
      Assign("a", Bin(FieldAccess(Index(Id(V("ps", k)), Num(1)), "x"), "+", Length(Id(V("ps", k))))),
      Assign("b", Bin(FieldAccess(Index(Id(V("ps", k)), Id("n")), "y"), "-", FieldAccess(Index(Id(V("ps", k)), Num(0)), "y")))>>,
    <<Assign("a", IfElse(Bin(a, "<", b), Bin(Call("twice", <<a>>), "-", b), Bin(b, "-", Num(1))))>>,
    <<FunctionCall("atmost", <<a, Bin(b, "+", Id("n"))>>), TimeOp("tx.time", b)>>,
    <<VarDef(TByteN(4), V("q", k), Cast(TByteN(4), <<a>>)), VarDef(TBytes, V("r", k), Bin(Id(V("q", k)), "+", Cast(TByteN(2), <<b>>))),
      TupleAssign(TBytes, V("lo", k), TBytes, V("hi", k), Split("left", Id(V("r", k)), Num(4))),
      Require(Bin(Length(Id(V("r", k))), "==", Num(6))), Assign("b", Cast(TInt, <<Id(V("lo", k))>>)), Assign("a", Cast(TInt, <<Id(V("hi", k))>>))>>,
    <<VarDef(ArrayOf(TInt, Inferred), V("s", k), Array(<<a, b, Id("n")>>)), Assign("a", Index(Id(V("s", k)), b)),
      For("i", Num(0), Length(Id(V("s", k))), Num(3), <<Assign("b", Bin(b, "+", Index(Id(V("s", k)), Id("i"))))>>)>>,
    <<Assign("b", Bin(Bin(a, "+", Num(2)), "/", b)), Assign("a", Bin(Unary("-", a), "%", Num(2)))>>,
    <<VarDef(TBool, V("t", k), Bin(Bin(a, ">", Num(0)), "&&", Unary("!", Bin(b, "==", Num(1))))),
      If(Bin(Id(V("t", k)), "||", BoolLit(FALSE)), <<Assign("a", Num(-1))>>, <<Assign("b", Bin(b, "-", Num(200)))>>)>>,
    <<VarDef(PT, V("p", k), Pt(b, a)), Destructure(<<Binding("y", TInt, V("u", k)), Binding("x", TInt, V("v", k))>>, Id(V("p", k))),
      Assign("a", Bin(Id(V("v", k)), "-", Id(V("u", k)))), Assign(V("p", k), Pt(Num(1), a)), Assign("b", FieldAccess(Id(V("p", k)), "y"))>>,
    <<VarDef(TByte, V("c", k), Num(2)), VarDef(TBytes, V("d", k), Bin(Cast(TBytes, <<Bytes(<<1, 2, 3>>)>>), "+", Cast(TByteN(1), <<Id(V("c", k))>>))),
      Require(Bin(Index(Id(V("d", k)), a), "!=", Num(3))), Assign("a", Length(Slice(Id(V("d", k)), b, Num(4))))>>,
    <<Let(V("g", k), Num(0)), If(Bin(a, ">", Num(1)), <<Assign(V("g", k), Bin(b, "+", Num(1))), Assign("a", Num(0))>>,
         <<If(Bin(b, ">", Num(1)), <<Assign("a", Id(V("g", k)))>>, <<Block(<<Let("z", a), Assign(V("g", k), Id("z"))>>)>>)>>),
      Assign("b", Bin(Id(V("g", k)), "+", Nullary("tx.outputs.length")))>> >>

Small == {<<Num(0), Num(2)>>, <<Num(1), Num(1)>>, <<Num(2), Num(1)>>, <<Num(1), Num(0)>>}
CallsOf(f, argss) == {CallOf(f, args, PlainTx) : args \in argss}
Mixed(i, j) ==
    Program(Contract(Ints(<<"n">>), <<>>, <<Define("K", TInt, Num(2))>>, <<[n |-> "pt", fields |-> Ints(<<"x", "y">>)]>>,
                     <<Entry("f", Ints(<<"a", "b">>), <<TInt, TInt>>, Pieces(1)[i] \o Pieces(2)[j] \o <<Return(<<a, b>>)>>)>> \o Helpers),
            <<Num(1)>>, CallsOf("f", Small), TRUE)
PieceCount == Len(Pieces(0))
MixedPrograms == {Mixed(i, j) : i \in 1 .. PieceCount, j \in 1 .. PieceCount}

(* A contract with state and several entrypoints: a new state checked leaf by leaf, from a variable, and from what *)
(* another input holds.                                                                                            *)

Counter(n, on, tag) == StructV(<<"n", "on", "tag">>, <<IntV(n), BoolV(on), BytesV(tag)>>)
NextState == StateObject(<<"n", "on", "tag">>, <<Bin(Id("n"), "+", Id("by")), Unary("!", Id("on")), Id("tag")>>)
CounterContract ==
    Contract(Ints(<<"start">>), <<Define("n", TInt, Id("start")), Define("on", TBool, BoolLit(TRUE)), Define("tag", TByteN(2), Bytes(<<7, 8>>))>>,
             <<>>, <<>>,
             <<Entry("step", Ints(<<"by">>), <<>>,
                     <<Require(Bin(Id("by"), ">", Num(0))), FunctionCall("validateOutputState", <<Num(0), NextState>>)>>),
               Entry("copy", Ints(<<"from", "out">>), <<>>,
                     <<Let("before", Id("n")), VarDef(TState, "s", Call("readInputState", <<Id("from")>>)),
                       Require(Bin(FieldAccess(Id("s"), "n"), ">=", Id("before"))),
                       FunctionCall("validateOutputState", <<Id("out"), Id("s")>>)>>),
               Entry("same", Ints(<<"from">>), <<TBool>>,
                     <<StateCallAssign(<<Binding("tag", TByteN(2), "t"), Binding("on", TBool, "o"), Binding("n", TInt, "m")>>, "readInputState", <<Id("from")>>),
                       Return(<<Bin(Bin(Id("t"), "==", Id("tag")), "&&", Bin(Id("m"), "==", Id("n")))>>)>>)>>)
StateTx(v, w) == Tx(1, <<Coin(5, v), Coin(6, Nothing)>>, <<Coin(1, Nothing), Coin(4, w)>>)
CounterCalls ==
    {CallOf("step", <<Num(by)>>, Tx(0, <<Coin(5, Nothing)>>, <<Coin(4, w)>>)) :
        by \in {0, 200}, w \in {Counter(204, FALSE, <<7, 8>>), Counter(204, TRUE, <<7, 8>>)}}
    \cup {CallOf("copy", <<Num(0), Num(1)>>, StateTx(v, w)) :
             v \in {Counter(6, FALSE, <<1, 2>>), Counter(-300, TRUE, <<1, 2>>)}, w \in {Counter(6, FALSE, <<1, 2>>), Counter(6, FALSE, <<1, 3>>)}}
    \cup {CallOf("same", <<Num(0)>>, StateTx(v, Nothing)) : v \in {Counter(4, FALSE, <<7, 8>>), Counter(4, TRUE, <<7, 9>>)}}
CounterProgram == Program(CounterContract, <<Num(4)>>, CounterCalls, TRUE)

(* Contracts the language does not accept, each stopped by another pass. *)
Single(ss) == Contract(<<>>, <<>>, <<>>, <<>>, <<Entry("f", Ints(<<"a", "b">>), <<>>, ss)>> \o Helpers)
Calling(ss, g) == Contract(<<>>, <<>>, <<>>, <<>>, <<Entry("f", Ints(<<"a", "b">>), <<>>, ss), g>>)
Refusable == {
    Single(<<VarDef(ArrayOf(TInt, Inferred), "s", Call("bytes", <<a>>))>>),
    Single(<<For("i", Num(0), Num(3), Num(2), <<Require(Bin(a, ">", Id("i")))>>)>>),
    Single(<<Let("z", a), Let("z", b), Assign("z", a)>>),
    Single(<<Require(Bin(Id("nowhere"), ">", a))>>),
    Single(<<FunctionCall("validateOutputState", <<a, b>>)>>),
    Single(<<VarDef(PT, "p", Pt(a, b)), Require(Bin(FieldAccess(Id("p"), "z"), ">", a))>>),
    Calling(<<FunctionCall("g", <<a>>)>>, Helper("g", Ints(<<"x">>), <<>>, <<FunctionCall("g", <<Id("x")>>)>>)),
    [Single(<<Require(Bin(a, ">", b))>>) EXCEPT !.structs = <<[n |-> "s", fields |-> Ints(<<"x", "x">>)]>>],
    [Single(<<Require(Bin(a, ">", b))>>) EXCEPT !.funs = Tail(@)],
    [Single(<<Require(Bin(a, ">", b))>>) EXCEPT !.funs[2].attrs = <<[path |-> <<"covenant", "twins">>, args |-> <<>>]>>]}
(* Errors of type that the later passes would let through. *)
Returning(rs, ss) == Calling(<<Let("z", Call("g", <<a>>))>>, Helper("g", Ints(<<"x">>), rs, ss))
Ill == {
    <<Require(Bin(a, "==", Bytes(<<1>>)))>>,
    <<Let("z", BoolLit(TRUE))>>,
    <<Let("z", IfElse(Bin(a, ">", b), a, Bytes(<<1>>)))>>,
    <<VarDef(TByte, "x", Num(1)), Require(Bin(Bin(Id("x"), "+", Id("x")), ">", a))>>,
    <<VarDef(TByte, "x", Num(256))>>,
    <<FunctionCall("atmost", <<BoolLit(TRUE), b>>)>>,
    <<FunctionCall("atmost", <<a>>)>>,
    <<FunctionCall("f", <<a, b>>)>>,
    <<FunctionCallAssign(<<Param(TInt, "x"), Param(TBool, "y")>>, "swap", <<a, b>>)>>,
    <<Let("z", TupleField(Call("swap", <<a, b>>), 2))>>,
    <<Let("z", Call("swap", <<a, b>>))>>,
    <<Declare(ArrayOf(TInt, Dynamic), "s"), Assign("s", AppendTo(Id("s"), <<a, BoolLit(TRUE)>>))>>,
    <<VarDef(ArrayOf(TInt, Fixed(3)), "s", Array(<<a, b>>))>>,
    <<VarDef(ArrayOf(TString, Dynamic), "s", Array(<<>>))>>,
    <<VarDef(PT, "p", StateObject(<<"x">>, <<a>>))>>,
    <<VarDef(PT, "p", Pt(a, BoolLit(TRUE)))>>,
    <<VarDef(PT, "p", Pt(a, b)), Destructure(<<Binding("x", TInt, "u"), Binding("y", TBool, "v")>>, Id("p"))>>,
    <<Require(Call("checkSigFromStack", <<Id("a"), Bytes(<<1>>), Id("b")>>))>>,
    <<Block(<<Let("z", a)>>), Require(Bin(Id("z"), ">", a))>>}
WithPoints(c) == [c EXCEPT !.structs = <<[n |-> "pt", fields |-> Ints(<<"x", "y">>)]>>]
Within(n, m) == [n |-> n, fields |-> <<Param(TypeRef(m, <<>>), "x")>>]
IllTyped == {WithPoints(Single(ss)) : ss \in Ill} \cup {
    Returning(<<TInt>>, <<Return(<<BoolLit(TRUE)>>)>>),
    Returning(<<TInt>>, <<Return(<<Id("x"), Id("x")>>)>>),
    Returning(<<TInt>>, <<IfOnly(Bin(Id("x"), ">", Num(0)), <<Return(<<Id("x")>>)>>), Return(<<Num(0)>>)>>),
    [Single(<<Require(Bin(a, ">", b))>>) EXCEPT !.fields = <<Define("n", TInt, BoolLit(TRUE))>>],
    [Single(<<Require(Bin(a, ">", b))>>) EXCEPT !.structs = <<Within("s", "t"), Within("t", "s")>>]}
RefusedPrograms == {Program(c, <<>>, {}, FALSE) : c \in Refusable \cup IllTyped}
    \cup {Program([Single(<<Require(Bin(a, ">", Id("n")))>>) EXCEPT !.params = Ints(<<"n">>)], args, {}, FALSE) :
             args \in {<<>>, <<BoolLit(TRUE)>>}}
(* A struct variable assigned from its own fields. *)
OwnFields == Pt(FieldAccess(Id("p"), "y"), FieldAccess(Id("p"), "x"))
StructAssignPrograms ==
    {Program([Single(<<VarDef(PT, "p", Pt(a, b)), Assign("p", OwnFields),
                       Require(Bin(Bin(FieldAccess(Id("p"), "x"), "==", b), "&&", Bin(FieldAccess(Id("p"), "y"), "==", a)))>>)
              EXCEPT !.structs = <<[n |-> "pt", fields |-> Ints(<<"x", "y">>)]>>],
             <<>>, CallsOf("f", Small), TRUE)}
CompilerPrograms == MixedPrograms \cup {CounterProgram} \cup RefusedPrograms
=============================================================================
