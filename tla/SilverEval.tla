----------------------------- MODULE SilverEval -----------------------------
(***************************************************************************)
(* What a SilverScript program means: a big-step interpreter of the trees  *)
(* of SilverAst.  It is the specification the compiler is held to and      *)
(* models no code: it knows nothing of stacks, slots, leaves or inferred   *)
(* types, and gives a meaning to what every pass produces as well as to    *)
(* the source.                                                             *)
(*                                                                         *)
(* A value carries its own kind.  A transaction is abstract: an output or  *)
(* an input of the same contract carries the state it holds.  Operators    *)
(* are strict, except the conditional; what a script rejects has no value. *)
(***************************************************************************)
EXTENDS SilverAst

(* Values: integers, booleans, byte strings, arrays of values, structs; Nothing where evaluation fails. *)
Val(k, v, c, n) == [k |-> k, v |-> v, c |-> c, n |-> n]
IntV(v) == Val("int", v, <<>>, <<>>)
BoolV(p) == Val("bool", IF p THEN 1 ELSE 0, <<>>, <<>>)
BytesV(b) == Val("bytes", 0, b, <<>>)
ArrayV(vs) == Val("array", 0, vs, <<>>)
StructV(ns, vs) == Val("struct", 0, vs, ns)
Nothing == Val("nothing", 0, <<>>, <<>>)
OrNothing(p, v) == IF p THEN v ELSE Nothing
FieldV(v, f) ==
    LET at == {i \in DOMAIN v.n : v.n[i] = f} IN
    IF v.k # "struct" \/ at = {} THEN Nothing ELSE v.c[CHOOSE i \in at : TRUE]

RECURSIVE LeafValues(_)
LeafValues(v) == IF v.k = "struct" THEN FlattenSeq([i \in DOMAIN v.c |-> LeafValues(v.c[i])]) ELSE <<v>>

(* Numbers as bytes: little-endian, the sign in the last bit. *)
RECURSIVE Digits(_, _)
Digits(n, size) == IF size = 0 THEN <<>> ELSE <<n % 256>> \o Digits(n \div 256, size - 1)
Magnitude(n) == IF n < 0 THEN -n ELSE n
Fits(n, size) == size >= 4 \/ Magnitude(n) < (CASE size = 0 -> 1 [] size = 1 -> 128 [] size = 2 -> 32768 [] size = 3 -> 8388608)
NumberBytes(n, size) ==
    LET d == Digits(Magnitude(n), size) IN
    IF n < 0 THEN Front(d) \o <<Last(d) + 128>> ELSE d
RECURSIVE Magnitudes(_)
Magnitudes(b) == IF b = <<>> THEN 0 ELSE b[1] + 256 * Magnitudes(Tail(b))
BytesNumber(b) ==
    IF b # <<>> /\ Last(b) >= 128 THEN -Magnitudes(Front(b) \o <<Last(b) - 128>>) ELSE Magnitudes(b)
Number(v) == IF v.k = "bytes" THEN BytesNumber(v.c) ELSE v.v

(* A value stored under a declared type: a number in a byte, an empty literal in a byte array. *)
Stored(v, t) ==
    CASE v.k = "int" /\ t = TByte -> BytesV(<<v.v>>)
      [] v = ArrayV(<<>>) /\ IsArray(t) /\ ElementType(t) = TByte -> BytesV(<<>>)
      [] v.k = "bytes" /\ t = TInt -> IntV(BytesNumber(v.c))
      [] OTHER -> v

ArithmeticValue(op, a, b) ==
    LET q == IF (a < 0) = (b < 0) THEN Magnitude(a) \div Magnitude(b) ELSE -(Magnitude(a) \div Magnitude(b)) IN
    CASE op = "+" -> IntV(a + b) [] op = "-" -> IntV(a - b) [] op = "*" -> IntV(a * b)
      [] op = "/" -> OrNothing(b # 0, IntV(q))
      [] op = "%" -> OrNothing(b # 0, IntV(a - b * q))
      [] op = "<" -> BoolV(a < b) [] op = "<=" -> BoolV(a <= b)
      [] op = ">" -> BoolV(a > b) [] op = ">=" -> BoolV(a >= b)
Same(a, b) ==
    IF {a.k, b.k} = {"int", "bytes"} THEN BytesV(<<(IF a.k = "int" THEN a ELSE b).v>>) \in {a, b}
    ELSE IF {a.k, b.k} = {"array", "bytes"} THEN a.c = <<>> /\ b.c = <<>>
    ELSE a.k = b.k /\ a = b
BinaryValue(op, a, b) ==
    CASE op = "==" -> BoolV(Same(a, b))
      [] op = "!=" -> BoolV(~Same(a, b))
      [] op = "&&" -> BoolV(a.v = 1 /\ b.v = 1)
      [] op = "||" -> BoolV(a.v = 1 \/ b.v = 1)
      [] op = "+" /\ a.k \in {"bytes", "array"} -> [a EXCEPT !.c = @ \o b.c, !.k = IF a.c = <<>> THEN b.k ELSE @]
      [] OTHER -> ArithmeticValue(op, Number(a), Number(b))

Between(v, from, to) == OrNothing(0 <= from /\ from <= to /\ to <= Len(v.c), [v EXCEPT !.c = SubSeq(@, from + 1, to)])
(* An array of bytes is a byte string, and so is its element. *)
LiteralValue(vs) ==
    IF vs # <<>> /\ \A i \in DOMAIN vs : vs[i].k = "byteliteral" THEN BytesV([i \in DOMAIN vs |-> vs[i].v])
    ELSE ArrayV([i \in DOMAIN vs |-> IF vs[i].k = "byteliteral" THEN BytesV(<<vs[i].v>>) ELSE vs[i]])
IndexValue(v, i) ==
    OrNothing(i.v + 1 \in DOMAIN v.c, IF v.k = "bytes" THEN BytesV(<<v.c[i.v + 1]>>) ELSE v.c[i.v + 1])

ToBytes(v, size) == IF v.k = "bytes" THEN v ELSE OrNothing(Fits(v.v, size), BytesV(NumberBytes(v.v, size)))
CastValue(t, vs) ==
    CASE t = TBytes /\ Len(vs) = 2 -> ToBytes(IntV(Number(vs[1])), vs[2].v)
      [] IsArray(t) /\ ElementType(t) = TByte /\ t # TBytes -> ToBytes(vs[1], Last(t.d).v)
      [] t = TInt -> IntV(Number(vs[1]))
      [] OTHER -> vs[1]

(* The transaction. *)
NullaryValue(op, tx) ==
    CASE op = "this.activeInputIndex" -> IntV(tx.active)
      [] op = "tx.inputs.length" -> IntV(Len(tx.ins))
      [] op = "tx.outputs.length" -> IntV(Len(tx.outs))
      [] op = "tx.locktime" -> IntV(tx.time)
      [] OTHER -> Nothing
IntrospectValue(op, i, tx) ==
    CASE op = "InputValue" -> OrNothing(i + 1 \in DOMAIN tx.ins, IntV(tx.ins[i + 1].value))
      [] op = "OutputValue" -> OrNothing(i + 1 \in DOMAIN tx.outs, IntV(tx.outs[i + 1].value))
      [] OTHER -> Nothing

(* Covenant binding: outputs and inputs of a covenant id, and the outputs an input authorizes, in order. *)
CovenantOf(ios, id) == SelectSeq([i \in DOMAIN ios |-> i], LAMBDA i : ios[i].cov = id)
AuthorizedBy(tx, j) == SelectSeq([i \in DOMAIN tx.outs |-> i], LAMBDA i : tx.outs[i].auth = j)
Nth(s, k) == OrNothing(k + 1 \in DOMAIN s, IntV(s[k + 1] - 1))
BuiltinValue(f, vs, tx) ==
    CASE f \in {"sha256", "blake2b"} -> BytesV(<<IF f = "sha256" THEN 301 ELSE 300>> \o vs[1].c)
      [] f = "checkSig" -> BoolV(vs[1].c = <<302>> \o vs[2].c)
      [] f = "bytes" -> IF Len(vs) = 2 THEN ToBytes(vs[1], vs[2].v) ELSE ToBytes(vs[1], 8)
      [] f = "OpTxInputIndex" -> IntV(tx.active)
      [] f = "OpAuthOutputCount" -> IntV(Len(AuthorizedBy(tx, vs[1].v)))
      [] f = "OpAuthOutputIdx" -> Nth(AuthorizedBy(tx, vs[1].v), vs[2].v)
      [] f = "OpInputCovenantId" -> BytesV(tx.ins[vs[1].v + 1].cov)
      [] f = "OpCovInputCount" -> IntV(Len(CovenantOf(tx.ins, vs[1].c)))
      [] f = "OpCovInputIdx" -> Nth(CovenantOf(tx.ins, vs[1].c), vs[2].v)
      [] f = "OpCovOutputCount" -> IntV(Len(CovenantOf(tx.outs, vs[1].c)))
      [] f = "OpCovOutputIdx" -> Nth(CovenantOf(tx.outs, vs[1].c), vs[2].v)
      [] f = "readInputState" -> OrNothing(vs[1].v + 1 \in DOMAIN tx.ins, tx.ins[vs[1].v + 1].state)
      [] OTHER -> Nothing

(* A run: the variables, whether nothing has failed, and the values returned. *)
Run(vars) == [vars |-> vars, ok |-> TRUE, ret |-> <<>>]
Stop(x) == [x EXCEPT !.ok = FALSE]
SetVar(x, n, v) == IF v = Nothing THEN Stop(x) ELSE [x EXCEPT !.vars = (n :> v) @@ @]

RECURSIVE Eval(_, _, _)
RECURSIVE EvalAll(_, _, _)
RECURSIVE Step(_, _, _)
RECURSIVE Exec(_, _, _)
(* world: the functions of the contract, its global names and the transaction. *)
EvalAll(es, vars, world) == [i \in DOMAIN es |-> Eval(es[i], vars, world)]
CallFunction(f, vs, vars, world) ==
    LET params == [x \in {f.params[i].n : i \in DOMAIN f.params} |->
                      LET i == CHOOSE j \in DOMAIN f.params : f.params[j].n = x IN Stored(vs[i], f.params[i].t)]
    IN  Exec(f.body, Run(params @@ [x \in world.globals |-> vars[x]]), world)

FirstOf(r) == OrNothing(r.ok /\ r.ret # <<>>, r.ret[1])
ResultAt(r, i) == OrNothing(r.ok, r.ret[i])
(* The value of e, all of whose operands have the values vs. *)
Strict(e, vs, vars, world) ==
    CASE \E i \in DOMAIN vs : vs[i] = Nothing -> Nothing
      [] e.k = "unary" -> IF e.n = "!" THEN BoolV(vs[1].v = 0) ELSE IntV(-Number(vs[1]))
      [] e.k = "binary" -> BinaryValue(e.n, vs[1], vs[2])
      [] e.k = "array" -> LiteralValue([i \in DOMAIN vs |-> IF e.c[i].k = "byte" THEN Val("byteliteral", e.c[i].v, <<>>, <<>>) ELSE vs[i]])
      [] e.k = "object" -> StructV([i \in DOMAIN e.c |-> e.c[i].n], vs)
      [] e.k = "field" -> vs[1]
      [] e.k = "dot" -> FieldV(vs[1], e.n)
      [] e.k = "index" -> IndexValue(vs[1], vs[2])
      [] e.k = "length" -> IntV(Len(vs[1].c))
      [] e.k = "split" -> IF e.n = "left" THEN Between(vs[1], 0, vs[2].v) ELSE Between(vs[1], vs[2].v, Len(vs[1].c))
      [] e.k = "slice" -> Between(vs[1], vs[2].v, vs[3].v)
      [] e.k = "append" -> BinaryValue("+", vs[1], LiteralValue(Tail(vs)))
      [] e.k = "cast" -> CastValue(e.t, vs)
      [] e.k = "introspect" -> IntrospectValue(e.n, vs[1].v, world.tx)
      [] e.k = "call" -> IF e.n \in DOMAIN world.funs THEN FirstOf(CallFunction(world.funs[e.n], vs, vars, world))
                                                      ELSE BuiltinValue(e.n, vs, world.tx)
      [] OTHER -> Nothing
Chosen(p, e, vars, world) == IF p = Nothing THEN Nothing ELSE Eval(e.c[IF p.v = 1 THEN 2 ELSE 3], vars, world)
Eval(e, vars, world) ==
    CASE e.k = "int" -> IntV(e.v)
      [] e.k = "bool" -> BoolV(e.v = 1)
      [] e.k = "byte" -> BytesV(<<e.v>>)
      [] e.k = "string" -> BytesV([i \in DOMAIN e.c |-> e.c[i].v])
      [] e.k = "id" -> IF e.n \in DOMAIN vars THEN vars[e.n] ELSE Nothing
      [] e.k = "nullary" -> NullaryValue(e.n, world.tx)
      [] e.k = "ifelse" -> Chosen(Eval(e.c[1], vars, world), e, vars, world)
      [] e.k = "tupledot" ->
            ResultAt(CallFunction(world.funs[e.c[1].n], EvalAll(e.c[1].c, vars, world), vars, world), e.v + 1)
      [] OTHER -> Strict(e, EvalAll(e.c, vars, world), vars, world)

(* The output pays to this contract in the given state. *)
PaysTo(tx, i, leaves) == i + 1 \in DOMAIN tx.outs /\ LeafValues(tx.outs[i + 1].state) = leaves

BindResults(x, ps, vs) == FoldLeft(LAMBDA a, i : SetVar(a, ps[i].n, Stored(vs[i], ps[i].t)), x, [i \in DOMAIN ps |-> i])
ParamField(ps, v) == [i \in DOMAIN ps |-> FieldV(v, ps[i].f)]
InnerScope(after, x) == [after EXCEPT !.vars = [n \in DOMAIN x.vars |-> @[n]]]

(* At most left more iterations, each only while the loop variable is below what the end now is. *)
RECURSIVE Loop(_, _, _, _, _)
Loop(s, i, left, x, world) ==
    IF ~x.ok \/ left = 0 \/ i >= Eval(s.c[2], x.vars, world).v THEN x
    ELSE Loop(s, i + 1, left - 1, InnerScope(Exec(s.b[1], SetVar(x, s.n, IntV(i)), world), x), world)

Taking(x, ps, r) == IF r.ok THEN BindResults(x, ps, r.ret) ELSE Stop(x)
(* The arguments of a check, after the output's index: the state, or its leaves. *)
CheckedLeaves(state) == FlattenSeq([i \in DOMAIN state |-> LeafValues(state[i])])
Arm(s, v) == IF v.v = 1 THEN s.b[1] ELSE IF Len(s.b) = 2 THEN s.b[2] ELSE <<>>
(* The statement s, whose expressions have the values vs. *)
StepWith(s, vs, x, world) ==
    CASE \E i \in DOMAIN vs : vs[i] = Nothing -> Stop(x)
      [] s.k = "def" -> SetVar(x, s.n, Stored(IF vs = <<>> THEN ArrayV(<<>>) ELSE vs[1], s.t))
      [] s.k = "assign" ->
            SetVar(x, s.n, IF s.n \in DOMAIN x.vars /\ x.vars[s.n].k = "bytes" /\ Len(x.vars[s.n].c) = 1
                           THEN Stored(vs[1], TByte) ELSE vs[1])
      [] s.k = "require" -> IF vs[1].v = 1 THEN x ELSE Stop(x)
      [] s.k = "time" -> IF vs[1].v <= (IF s.n = "tx.time" THEN world.tx.time ELSE world.tx.age) THEN x ELSE Stop(x)
      [] s.k \in {"block", "if"} -> InnerScope(Exec(IF s.k = "if" THEN Arm(s, vs[1]) ELSE s.b[1], x, world), x)
      [] s.k = "for" -> IF vs[2].v - vs[1].v > vs[3].v THEN Stop(x) ELSE Loop(s, vs[1].v, vs[3].v, x, world)
      [] s.k = "tuple" ->
            BindResults(x, s.p, [i \in 1 .. 2 |-> Eval([s.c[1] EXCEPT !.n = <<"left", "right">>[i]], x.vars, world)])
      [] s.k = "destructure" -> BindResults(x, s.p, ParamField(s.p, vs[1]))
      [] s.k = "statecall" -> BindResults(x, s.p, ParamField(s.p, BuiltinValue(s.n, vs, world.tx)))
      [] s.k = "call" /\ s.n \in {"validateOutputState", "__validateOutputStateInner"} ->
            IF PaysTo(world.tx, vs[1].v, CheckedLeaves(Tail(vs))) THEN x ELSE Stop(x)
      [] s.k \in {"call", "callassign"} /\ s.n \in DOMAIN world.funs ->
            Taking(x, s.p, CallFunction(world.funs[s.n], vs, x.vars, world))
      [] s.k = "return" -> [x EXCEPT !.ret = vs]
      [] OTHER -> Stop(x)
Step(s, x, world) == StepWith(s, EvalAll(s.c, x.vars, world), x, world)

Exec(ss, x, world) == FoldLeft(LAMBDA a, s : IF a.ok THEN Step(s, a, world) ELSE a, x, ss)

(* An entrypoint called with values in a transaction, in a contract whose constructor was given values. *)
Globals(ds, vars, world) == FoldLeft(LAMBDA vs, d : (d.n :> Stored(Eval(d.e, vs, world), d.t)) @@ vs, vars, ds)
Named(ps, vs) == FoldLeft(LAMBDA m, i : (ps[i].n :> Stored(vs[i], ps[i].t)) @@ m, <<>>, [i \in DOMAIN ps |-> i])
World(c, tx) ==
    [funs |-> FoldLeft(LAMBDA m, g : (g.n :> g) @@ m, <<>>, c.funs), tx |-> tx,
     globals |-> {x.n : x \in Range(c.params) \cup Range(c.consts) \cup Range(c.fields)}]
Outcome(c, given, f, vs, tx) ==
    LET world == World(c, tx) IN
    CallFunction(f, vs, Globals(c.consts \o c.fields, Named(c.params, given), world), world)
Meaning(c, given, f, vs, tx) == Outcome(c, given, f, vs, tx).ok
FieldState(ds, vars) == StructV([i \in DOMAIN ds |-> ds[i].n], [i \in DOMAIN ds |-> vars[ds[i].n]])
StateOf(c, given, tx) == FieldState(c.fields, Globals(c.consts \o c.fields, Named(c.params, given), World(c, tx)))

(* A value as the leaves it is stored as; the fields of an array's elements are arrays themselves. *)
RECURSIVE StoredLeaves(_, _, _)
Column(vs, t) == IF ElementType(t) = TByte THEN BytesV(FlattenSeq([j \in DOMAIN vs |-> vs[j].c])) ELSE ArrayV(vs)
StoredLeaves(v, t, structs) ==
    LET fields == structs[t.b]
        column(f) == LET ct == [f.t EXCEPT !.d = @ \o t.d] IN
                     StoredLeaves(Column([j \in DOMAIN v.c |-> FieldV(v.c[j], f.n)], ct), ct, structs)
    IN  CASE IsStruct(t, structs) -> FlattenSeq([i \in DOMAIN fields |-> StoredLeaves(FieldV(v, fields[i].n), fields[i].t, structs)])
          [] IsStructArray(t, structs) -> FlattenSeq([i \in DOMAIN fields |-> column(fields[i])])
          [] OTHER -> <<v>>
=============================================================================
