----------------------------- MODULE SilverAst -----------------------------
(***************************************************************************)
(* The syntax trees of SilverScript as the compiler's passes see them, and *)
(* the questions more than one pass asks of a tree or of a type.           *)
(*                                                                         *)
(* An expression, a statement and a type are records of one shape each, so *)
(* that a traversal is one operator instead of one arm per variant.  Spans *)
(* are left out; strings are the byte arrays they compile to and dates the *)
(* integers they are; a cast is a call whose name is a type.               *)
(***************************************************************************)
EXTENDS Integers, Sequences, FiniteSets, SequencesExt, TLC

(* Types: a base and array dimensions, the outermost last. *)
TypeRef(base, dims) == [b |-> base, d |-> dims]
NoType == TypeRef("", <<>>)
TInt == TypeRef("int", <<>>)
TBool == TypeRef("bool", <<>>)
TByte == TypeRef("byte", <<>>)
Fixed(n) == [k |-> "fixed", v |-> n, n |-> ""]
Sized(c) == [k |-> "const", v |-> 0, n |-> c]
Dynamic == [k |-> "dynamic", v |-> 0, n |-> ""]
Inferred == [k |-> "inferred", v |-> 0, n |-> ""]
IsArray(t) == t.d # <<>>
ArrayOf(t, dim) == [t EXCEPT !.d = Append(@, dim)]
ElementType(t) == IF IsArray(t) THEN [t EXCEPT !.d = Front(@)] ELSE NoType
TBytes == ArrayOf(TByte, Dynamic)
TByteN(n) == ArrayOf(TByte, Fixed(n))
Builtin == {"int", "bool", "byte", "string", "pubkey", "sig", "datasig"}

(* Expressions: kind, name or operator, integer value, type, children. *)
Expr(k, n, v, t, c) == [k |-> k, n |-> n, v |-> v, t |-> t, c |-> c]
IntLit(v) == Expr("int", "", v, NoType, <<>>)
BoolLit(b) == Expr("bool", "", IF b THEN 1 ELSE 0, NoType, <<>>)
ByteLit(v) == Expr("byte", "", v, NoType, <<>>)
Str(bs) == Expr("string", "", 0, NoType, [i \in DOMAIN bs |-> ByteLit(bs[i])])
Id(x) == Expr("id", x, 0, NoType, <<>>)
Unary(op, e) == Expr("unary", op, 0, NoType, <<e>>)
Binary(op, l, r) == Expr("binary", op, 0, NoType, <<l, r>>)
IfElse(c, a, b) == Expr("ifelse", "", 0, NoType, <<c, a, b>>)
Array(es) == Expr("array", "", 0, NoType, es)
Bytes(bs) == Array([i \in DOMAIN bs |-> ByteLit(bs[i])])
StateObject(names, es) ==
    Expr("object", "", 0, NoType,
         [i \in DOMAIN es |-> Expr("field", names[i], 0, NoType, <<es[i]>>)])
FieldAccess(e, f) == Expr("dot", f, 0, NoType, <<e>>)
TupleField(e, i) == Expr("tupledot", "", i, NoType, <<e>>)
Call(f, es) == Expr("call", f, 0, NoType, es)
Cast(t, es) == Expr("cast", "", 0, t, es)
New(f, es) == Expr("new", f, 0, NoType, es)
Split(part, e, i) == Expr("split", part, 0, NoType, <<e, i>>)
Slice(e, a, b) == Expr("slice", "", 0, NoType, <<e, a, b>>)
Index(e, i) == Expr("index", "", 0, NoType, <<e, i>>)
AppendTo(e, es) == Expr("append", "", 0, NoType, <<e>> \o es)
Length(e) == Expr("length", "", 0, NoType, <<e>>)
Nullary(op) == Expr("nullary", op, 0, NoType, <<>>)
Introspect(op, e) == Expr("introspect", op, 0, NoType, <<e>>)

(* Statements: kind, name, type, expressions, blocks, bindings. *)
Stmt(k, n, t, c, b, p) == [k |-> k, n |-> n, t |-> t, c |-> c, b |-> b, p |-> p]
Param(t, x) == [n |-> x, t |-> t, f |-> ""]
Binding(f, t, x) == [n |-> x, t |-> t, f |-> f]
VarDef(t, x, e) == Stmt("def", x, t, <<e>>, <<>>, <<>>)
Declare(t, x) == Stmt("def", x, t, <<>>, <<>>, <<>>)
TupleAssign(lt, l, rt, r, e) == Stmt("tuple", "", NoType, <<e>>, <<>>, <<Param(lt, l), Param(rt, r)>>)
FunctionCall(f, es) == Stmt("call", f, NoType, es, <<>>, <<>>)
FunctionCallAssign(ps, f, es) == Stmt("callassign", f, NoType, es, <<>>, ps)
StateCallAssign(ps, f, es) == Stmt("statecall", f, NoType, es, <<>>, ps)
Destructure(ps, e) == Stmt("destructure", "", NoType, <<e>>, <<>>, ps)
Assign(x, e) == Stmt("assign", x, NoType, <<e>>, <<>>, <<>>)
Require(e) == Stmt("require", "", NoType, <<e>>, <<>>, <<>>)
TimeOp(var, e) == Stmt("time", var, NoType, <<e>>, <<>>, <<>>)
Block(ss) == Stmt("block", "", NoType, <<>>, <<ss>>, <<>>)
If(e, th, el) == Stmt("if", "", NoType, <<e>>, <<th, el>>, <<>>)
IfOnly(e, th) == Stmt("if", "", NoType, <<e>>, <<th>>, <<>>)
For(x, from, to, max, ss) == Stmt("for", x, TInt, <<from, to, max>>, <<ss>>, <<>>)
Return(es) == Stmt("return", "", NoType, es, <<>>, <<>>)
Console(es) == Stmt("console", "", NoType, es, <<>>, <<>>)
TypesOf(ps) == [i \in DOMAIN ps |-> ps[i].t]
Define(x, t, e) == [n |-> x, t |-> t, e |-> e]

(* What stands in the tree where a pass found an error: the pass fails if its result holds one. *)
NoExpr == Expr("none", "", 0, NoType, <<>>)
Wrong == Expr("wrong", "", 0, NoType, <<>>)
WrongStmt == Require(Wrong)

(* Every node below an expression, and every statement below a list. *)
RECURSIVE SubExprs(_)
SubExprs(e) == {e} \cup UNION {SubExprs(e.c[i]) : i \in DOMAIN e.c}

RECURSIVE SubStmts(_)
SubStmts(ss) == UNION {{ss[i]} \cup UNION {SubStmts(ss[i].b[j]) : j \in DOMAIN ss[i].b} : i \in DOMAIN ss}

StmtExprs(s) == UNION {SubExprs(s.c[i]) : i \in DOMAIN s.c}

RECURSIVE MapExpr(_, _)
(* The tree with every identifier in the domain of env replaced by its value. *)
MapExpr(e, env) ==
    IF e.k = "id" /\ e.n \in DOMAIN env THEN env[e.n]
    ELSE [e EXCEPT !.c = [i \in DOMAIN e.c |-> MapExpr(e.c[i], env)]]

ContainsReturn(ss) == \E s \in SubStmts(ss) : s.k = "return"

(* this.scriptSize is needed by the operators that name it and by the state readers and checks. *)
SizeReaders == {"validateOutputState", "__validateOutputStateInner",
                "validateOutputStateWithTemplate", "__validateOutputStateWithTemplateInner"}
ExprUsesScriptSize(e) ==
    \E x \in SubExprs(e) : \/ x.k = "nullary" /\ x.n \in {"this.scriptSize", "this.scriptSizeDataPrefix"}
                           \/ x.k = "call" /\ x.n = "readInputState"
StatementsUseScriptSize(ss) ==
    \E s \in SubStmts(ss) : \/ \E i \in DOMAIN s.c : ExprUsesScriptSize(s.c[i])
                            \/ s.k = "call" /\ s.n \in SizeReaders
                            \/ s.k = "statecall" /\ s.n = "readInputState"
ContractUsesScriptSize(c) ==
    \/ \E i \in DOMAIN c.consts : ExprUsesScriptSize(c.consts[i].e)
    \/ \E i \in DOMAIN c.fields : ExprUsesScriptSize(c.fields[i].e)
    \/ \E i \in DOMAIN c.funs : StatementsUseScriptSize(c.funs[i].body)

(* Sizes in bytes; -1 where the size is not known at compile time. *)
ArraySize(t, consts) ==
    IF ~IsArray(t) THEN -1
    ELSE LET dim == Last(t.d) IN
         CASE dim.k = "fixed" -> dim.v
           [] dim.k = "const" /\ dim.n \in DOMAIN consts /\ consts[dim.n].k = "int" /\ consts[dim.n].v >= 0
                -> consts[dim.n].v
           [] OTHER -> -1

BaseSize(b) == CASE b = "int" -> 8
                 [] b \in {"bool", "byte"} -> 1
                 [] b = "pubkey" -> 32
                 [] b = "sig" -> 65
                 [] b = "datasig" -> 64
                 [] OTHER -> -1

RECURSIVE FixedSize(_, _)
FixedSize(t, consts) ==
    IF ~IsArray(t) THEN BaseSize(t.b)
    ELSE LET n == ArraySize(t, consts)
             size == FixedSize(ElementType(t), consts)
         IN  IF n = -1 \/ size = -1 THEN -1 ELSE n * size

(* What codegen can encode: a scalar, or one fixed level of bytes or ints. *)
TypeSize(t) ==
    IF ~IsArray(t) THEN BaseSize(t.b)
    ELSE IF Len(t.d) = 1 /\ t.d[1].k = "fixed" /\ t.b \in {"byte", "int"} THEN FixedSize(t, <<>>)
    ELSE -1
ElementSize(t) == IF IsArray(t) THEN TypeSize(ElementType(t)) ELSE -1

Assignable(actual, expected, consts) ==
    \/ actual = expected
    \/ /\ IsArray(actual) /\ IsArray(expected)
       /\ ElementType(actual) = ElementType(expected)
       /\ \/ Last(expected.d).k \in {"dynamic", "inferred"}
          \/ ArraySize(actual, consts) # -1 /\ ArraySize(actual, consts) = ArraySize(expected, consts)

IsBytesType(t) == IsArray(t) \/ t.b \in {"byte", "pubkey", "sig", "datasig", "string"}

(* structs maps a struct's name to its fields, each [n, t]. *)
IsStruct(t, structs) == ~IsArray(t) /\ t.b \in DOMAIN structs
IsStructArray(t, structs) == IsArray(t) /\ IsStruct(ElementType(t), structs)
RECURSIVE Leaves(_, _)
(* What a type is stored as: each leaf with its path; the fields of an array's elements are arrays themselves. *)
Leaves(t, structs) ==
    LET fields == structs[t.b]
        below(f) == LET ls == Leaves([f.t EXCEPT !.d = @ \o t.d], structs) IN
                    [i \in DOMAIN ls |-> [ls[i] EXCEPT !.path = <<f.n>> \o @]]
    IN  IF IsStruct(t, structs) \/ IsStructArray(t, structs)
        THEN FlattenSeq([i \in DOMAIN fields |-> below(fields[i])])
        ELSE <<[path |-> <<>>, t |-> t]>>
LeafTypes(t, structs) == LET ls == Leaves(t, structs) IN [i \in DOMAIN ls |-> ls[i].t]

(* A literal of a struct: each of its fields once. *)
FieldValue(e, f) ==
    LET at == {i \in DOMAIN e.c : e.c[i].n = f.n} IN
    IF Cardinality(at) = 1 THEN e.c[CHOOSE i \in at : TRUE].c[1] ELSE NoExpr
IsObjectOf(e, fields) ==
    e.k = "object" /\ Len(e.c) = Len(fields) /\ \A i \in DOMAIN fields : FieldValue(e, fields[i]) # NoExpr

(* Each field of a layout is bound once, under the field's own type. *)
BindsEach(bindings, fields) ==
    /\ Len(bindings) = Len(fields)
    /\ \A i \in DOMAIN fields : \E j \in DOMAIN bindings : bindings[j].f = fields[i].n /\ bindings[j].t = fields[i].t
BoundName(bindings, f) == bindings[CHOOSE j \in DOMAIN bindings : bindings[j].f = f].n

(* The types of a list of names; a later one hides an earlier one. *)
Typed(ps) == FoldLeft(LAMBDA types, p : (p.n :> p.t) @@ types, <<>>, ps)

TString == TypeRef("string", <<>>)
IsByteArrayLiteral(e) == e.k = "array" /\ \A i \in DOMAIN e.c : e.c[i].k = "byte"

(* The byte length a value of the type has when cast to byte[n]: -1 unknown, -2 not bytes. *)
CastSize(t) == CASE t = TByte -> 1
                 [] ~IsArray(t) /\ t.b \in {"pubkey", "sig", "datasig"} -> BaseSize(t.b)
                 [] t = TString -> -1
                 [] ElementType(t) = TByte -> ArraySize(t, <<>>)
                 [] OTHER -> -2
=============================================================================
