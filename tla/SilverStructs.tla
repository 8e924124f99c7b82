---------------------------- MODULE SilverStructs ----------------------------
(***************************************************************************)
(* The pass that takes structs apart: a struct variable becomes one        *)
(* variable per leaf, an array of structs one array per leaf, and every    *)
(* statement over a struct a statement per leaf, in field order.           *)
(*                                                                         *)
(* env.vars maps the names in scope to the types they were declared with,  *)
(* env.structs is the registry, env.consts the constants, env.funs the     *)
(* functions and env.rets the types the function returns.                  *)
(***************************************************************************)
EXTENDS SilverTypes

StateType == "State"

(* The registry: the declared structs and the contract's state. *)
FieldsOf(ds) == [i \in DOMAIN ds |-> [n |-> ds[i].n, t |-> ds[i].t]]
StructRegistry(c) ==
    FoldLeft(LAMBDA r, s : (s.n :> s.fields) @@ r, StateType :> FieldsOf(c.fields), c.structs)
DistinctNames(ds) == Cardinality({ds[i].n : i \in DOMAIN ds}) = Len(ds)
ValidRegistry(c) ==
    /\ DistinctNames(c.structs) /\ \A i \in DOMAIN c.structs : c.structs[i].n # StateType /\ DistinctNames(c.structs[i].fields)
    /\ DistinctNames(c.fields)

FlatName(base, path) == FoldLeft(LAMBDA s, f : s \o "_" \o f, "__struct_" \o base, path)
With(env, ps) == [env EXCEPT !.vars = Typed(ps) @@ @]
VarType(x, env) == IF x \in DOMAIN env.vars THEN env.vars[x] ELSE NoType
HasLeaves(t, env) == IsStruct(t, env.structs) \/ IsStructArray(t, env.structs)
FieldType(t, f, structs) ==
    LET at == {i \in DOMAIN structs[t.b] : structs[t.b][i].n = f} IN
    IF at = {} THEN NoType ELSE structs[t.b][CHOOSE i \in at : TRUE].t

(* box.top_left.x is the leaf top_left_x of the variable box. *)
RECURSIVE ResolveAccess(_, _)
ResolveAccess(e, env) ==
    LET of == ResolveAccess(e.c[1], env)
        access(base, path, t) == [base |-> base, path |-> path, t |-> t]
    IN  CASE e.k = "id" -> access(e.n, <<>>, VarType(e.n, env))
          [] e.k = "dot" /\ IsStruct(of.t, env.structs) ->
                access(of.base, Append(of.path, e.n), FieldType(of.t, e.n, env.structs))
          [] OTHER -> access("", <<>>, NoType)

(* A byte sequence is cast only to its own length, where that is known. *)
WrongCast(t, es, env) ==
    LET size == CastSize(InferType(es[1], [types |-> env.vars, consts |-> <<>>])) IN
    /\ t.b = "byte" /\ IsArray(t) /\ t # TBytes /\ Len(es) = 1
    /\ Len(t.d) > 1 \/ t.d[1].k # "fixed" \/ (size >= 0 /\ size # t.d[1].v)

RECURSIVE LowerExpr(_, _)
LowerAll(es, env) == [i \in DOMAIN es |-> LowerExpr(es[i], env)]
LowerInside(e, env) == [e EXCEPT !.c = LowerAll(@, env)]
CheckedCast(e, env) == IF WrongCast(e.t, e.c, env) THEN Wrong ELSE e
LeafAccess(access, env) ==
    IF access.t = NoType \/ IsStruct(access.t, env.structs) THEN Wrong ELSE Id(FlatName(access.base, access.path))
(* rows[i].f is an element of the array of the fields f. *)
ElementField(row, f, i, env) ==
    LET field == IF IsStructArray(row.t, env.structs) THEN FieldType(ElementType(row.t), f, env.structs) ELSE NoType
    IN  IF field = NoType \/ HasLeaves(field, env) THEN Wrong
        ELSE Index(Id(FlatName(row.base, Append(row.path, f))), LowerExpr(i, env))
RowCount(x, leaves) == IF leaves = <<>> THEN Wrong ELSE Length(Id(FlatName(x, leaves[1].path)))
NamedType(e, env) == IF e.k = "id" THEN VarType(e.n, env) ELSE NoType
LowerExpr(e, env) ==
    CASE e.k = "dot" /\ e.c[1].k = "index" ->
            ElementField(ResolveAccess(e.c[1].c[1], env), e.n, e.c[1].c[2], env)
      [] e.k = "dot" /\ e.c[1].k # "index" -> LeafAccess(ResolveAccess(e, env), env)
      [] e.k \in {"object", "tupledot"} -> Wrong
      [] e.k = "cast" -> CheckedCast(LowerInside(e, env), env)
      [] e.k = "length" /\ IsStructArray(NamedType(e.c[1], env), env.structs) ->
            RowCount(e.c[1].n, Leaves(VarType(e.c[1].n, env), env.structs))
      [] OTHER -> LowerInside(e, env)

LeafNames(x, path, t, env) ==
    LET ls == Leaves(t, env.structs) IN [i \in DOMAIN ls |-> FlatName(x, path \o ls[i].path)]
LeafIds(x, path, t, env) == LET ns == LeafNames(x, path, t, env) IN [i \in DOMAIN ns |-> Id(ns[i])]

(* A struct value, leaf by leaf.  Reading another input's state has no place in one: it names no variable. *)
VariableLeaves(access, t, env) == IF access.t = t THEN LeafIds(access.base, access.path, t, env) ELSE <<Wrong>>
ElementLeaves(rows, at) == [i \in DOMAIN rows |-> Index(rows[i], at)]
RECURSIVE LowerStruct(_, _, _)
FieldLeaves(e, t, env) == IF IsStruct(t, env.structs) THEN LowerStruct(e, t, env) ELSE <<LowerExpr(e, env)>>
LowerStruct(e, t, env) ==
    LET fields == env.structs[t.b] IN
    CASE e.k \in {"id", "dot"} -> VariableLeaves(ResolveAccess(e, env), t, env)
      [] e.k = "index" /\ e.c[1].k = "id" /\ ElementType(VarType(e.c[1].n, env)) = t ->
            ElementLeaves(LeafIds(e.c[1].n, <<>>, t, env), LowerExpr(e.c[2], env))
      [] e.k = "object" /\ IsObjectOf(e, fields) ->
            FlattenSeq([i \in DOMAIN fields |-> FieldLeaves(FieldValue(e, fields[i]), fields[i].t, env)])
      [] OTHER -> <<Wrong>>

(* An array of structs, leaf by leaf: the columns of its rows. *)
Columns(rows, n) ==
    IF \E j \in DOMAIN rows : Wrong \in Range(rows[j]) THEN <<Wrong>>
    ELSE [i \in 1 .. n |-> Array([j \in DOMAIN rows |-> rows[j][i]])]
Concatenated(left, right) ==
    IF Len(left) # Len(right) THEN <<Wrong>> ELSE [i \in DOMAIN left |-> Binary("+", left[i], right[i])]
RECURSIVE LowerStructArray(_, _, _)
LowerStructArray(e, t, env) ==
    CASE e.k = "id" /\ IsStructArray(VarType(e.n, env), env.structs) /\ Assignable(VarType(e.n, env), t, env.consts) ->
            LeafIds(e.n, <<>>, t, env)
      [] e.k = "array" ->
            Columns([j \in DOMAIN e.c |-> LowerStruct(e.c[j], ElementType(t), env)], Len(Leaves(t, env.structs)))
      [] e.k = "append" ->
            Concatenated(LowerStructArray(e.c[1], t, env), LowerStructArray(Array(Tail(e.c)), t, env))
      [] OTHER -> <<Wrong>>

LowerValue(e, t, env) ==
    CASE IsStruct(t, env.structs) -> LowerStruct(e, t, env)
      [] IsStructArray(t, env.structs) -> LowerStructArray(e, t, env)
      [] OTHER -> <<LowerExpr(e, env)>>
LowerValues(es, ts, env) == FlattenSeq([i \in 1 .. Min({Len(es), Len(ts)}) |-> LowerValue(es[i], ts[i], env)])
LowerParam(p, env) ==
    LET names == LeafNames(p.n, <<>>, p.t, env)
        types == LeafTypes(p.t, env.structs)
    IN  IF HasLeaves(p.t, env) THEN [i \in DOMAIN names |-> Param(types[i], names[i])] ELSE <<p>>
LowerParams(ps, env) == FlattenSeq([i \in DOMAIN ps |-> LowerParam(ps[i], env)])
DefinedBy(names, values, x, t) ==
    IF Len(values) # Len(names) THEN <<Define(x, t, Wrong)>>
    ELSE [i \in DOMAIN names |-> Define(names[i].n, names[i].t, values[i])]
LowerDefine(x, t, e, env) == DefinedBy(LowerParam(Param(t, x), env), LowerValue(e, t, env), x, t)

(* Statements: the lowered ones and the environment after them. *)
Lowered(ss, env) == [ss |-> ss, env |-> env]
Extended(a, r) == Lowered(a.ss \o r.ss, r.env)
DeclareAll(ps) == [i \in DOMAIN ps |-> Declare(ps[i].t, ps[i].n)]
VarDefs(ds) == [i \in DOMAIN ds |-> VarDef(ds[i].t, ds[i].n, ds[i].e)]
Assigns(ds) == [i \in DOMAIN ds |-> Assign(ds[i].n, ds[i].e)]
StateReaders == {"readInputState", "readInputStateWithTemplate"}
IsStateRead(e) == e.k = "call" /\ e.n \in StateReaders

(* A variable that is read from a state is bound field by field, if its fields are no structs. *)
LowerVarDef(s, env) ==
    LET fields == env.structs[s.t.b]
        flat == IsStruct(s.t, env.structs) /\ \A i \in DOMAIN fields : ~HasLeaves(fields[i].t, env)
        bindings == [i \in DOMAIN fields |-> Binding(fields[i].n, fields[i].t, FlatName(s.n, <<fields[i].n>>))]
    IN  CASE s.c = <<>> -> DeclareAll(LowerParam(Param(s.t, s.n), env))
          [] s.c # <<>> /\ IsStateRead(s.c[1]) /\ flat ->
                <<StateCallAssign(bindings, s.c[1].n, LowerAll(s.c[1].c, env))>>
          [] OTHER -> VarDefs(LowerDefine(s.n, s.t, s.c[1], env))

(* Taking a struct apart into variables, in the order of its fields. *)
DestructuredType(e, env) ==
    CASE e.k \in {"id", "dot"} -> ResolveAccess(e, env).t
      [] e.k = "index" /\ e.c[1].k = "id" -> ElementType(VarType(e.c[1].n, env))
      [] OTHER -> NoType
LowerDestructure(s, t, env) ==
    LET fields == env.structs[t.b]
        field(f) == LowerDefine(BoundName(s.p, f.n), f.t, FieldAccess(s.c[1], f.n), env)
    IN  IF ~IsStruct(t, env.structs) THEN <<WrongStmt>>
        ELSE IF ~BindsEach(s.p, fields) THEN <<WrongStmt>>
        ELSE FlattenSeq([i \in DOMAIN fields |-> VarDefs(field(fields[i]))])

(* rows = rows.append(row): each leaf's array grows by the row's leaf; a state read is bound to temporaries first. *)
Growing(x, leaves, values) ==
    LET push(y, v) == Assign(y, AppendTo(Id(y), <<v>>)) IN
    IF Len(values) # Len(leaves) THEN <<WrongStmt>>
    ELSE [i \in DOMAIN leaves |-> push(FlatName(x, leaves[i].path), values[i])]
AppendRead(x, leaves, row, temp, env) ==
    LET bindings == [i \in DOMAIN leaves |-> Binding(Last(leaves[i].path), leaves[i].t, FlatName(temp, leaves[i].path))]
    IN  Lowered(<<StateCallAssign(bindings, row.n, LowerAll(row.c, env))>>
                \o Growing(x, leaves, [i \in DOMAIN bindings |-> Id(bindings[i].n)]), With(env, bindings))
LowerAppended(x, t, row, env, at) ==
    LET leaves == Leaves(t, env.structs) IN
    IF IsStateRead(row) THEN AppendRead(x, leaves, row, "append_" \o x \o "_" \o ToString(at), env)
    ELSE Lowered(Growing(x, leaves, LowerStruct(row, t, env)), env)

LowerAssign(s, env, at) ==
    LET t == VarType(s.n, env)
        e == s.c[1]
    IN  IF IsStructArray(t, env.structs) /\ e.k = "append" /\ e.c[1] = Id(s.n)
        THEN FoldLeft(LAMBDA a, row : Extended(a, LowerAppended(s.n, ElementType(t), row, a.env, at + Len(a.ss))),
                      Lowered(<<>>, env), Tail(e.c))
        ELSE Lowered(Assigns(LowerDefine(s.n, t, e, env)), env)

(* A call's arguments and results, by the callee's types if it is one of the contract's functions. *)
CallArgs(f, es, env) ==
    IF f \in DOMAIN env.funs THEN LowerValues(es, TypesOf(env.funs[f].params), env) ELSE LowerAll(es, env)
CallBindings(f, ps, env) ==
    IF f \in DOMAIN env.funs THEN LowerParams([i \in DOMAIN ps |-> [ps[i] EXCEPT !.t = env.funs[f].rets[i]]], env) ELSE ps

(* What a block or a branch declares stays known after an if or a loop, unless the name was known before. *)
Merge(env, others) == FoldLeft(LAMBDA a, o : [a EXCEPT !.vars = @ @@ o.env.vars], env, others)

LowerSimple(s, inside, env) ==
    LET after == CASE s.k \in {"tuple", "callassign", "statecall"} -> With(env, s.p)
                   [] s.k \in {"if", "for"} -> Merge(env, inside)
                   [] OTHER -> env
        exprs == CASE s.k = "return" -> LowerValues(s.c, env.rets, env)
                   [] s.k \in {"call", "callassign"} -> CallArgs(s.n, s.c, after)
                   [] OTHER -> LowerAll(s.c, after)
    IN  Lowered(<<[s EXCEPT !.c = exprs, !.b = [i \in DOMAIN @ |-> inside[i].ss],
                            !.p = IF s.k = "callassign" THEN CallBindings(s.n, @, env) ELSE @]>>, after)

RECURSIVE LowerStatement(_, _, _)
LowerStatements(ss, env) ==
    FoldLeft(LAMBDA a, s : Extended(a, LowerStatement(s, a.env, Len(a.ss))), Lowered(<<>>, env), ss)
LowerStatement(s, env, at) ==
    LET typed == With(env, IF s.k = "destructure" THEN s.p ELSE <<s>>)
        inside == IF s.k = "for" THEN typed ELSE env
    IN  CASE s.k = "def" -> Lowered(LowerVarDef(s, typed), typed)
          [] s.k = "assign" -> LowerAssign(s, env, at)
          [] s.k = "destructure" -> Lowered(LowerDestructure(s, DestructuredType(s.c[1], typed), typed), typed)
          [] OTHER -> LowerSimple(s, [i \in DOMAIN s.b |-> LowerStatements(s.b[i], inside)], env)

(* The contract, its names entering the scope in the order params, constants, fields. *)
AddDefine(a, d, env) == Lowered(a.ss \o LowerDefine(d.n, d.t, d.e, env), env)
LowerDefines(ds, env) == FoldLeft(LAMBDA a, d : AddDefine(a, d, With(a.env, <<d>>)), Lowered(<<>>, env), ds)
FunctionMap(c) == FoldLeft(LAMBDA m, f : (f.n :> f) @@ m, <<>>, c.funs)
LowerFunction(f, env) ==
    LET typed == [With(env, f.params) EXCEPT !.rets = f.rets] IN
    [f EXCEPT !.params = LowerParams(@, env), !.body = LowerStatements(@, typed).ss,
              !.rets = FlattenSeq([i \in DOMAIN @ |-> LeafTypes(@[i], env.structs)])]
LowerFunctions(c, fs) ==
    [c EXCEPT !.fields = fs.ss, !.funs = [i \in DOMAIN @ |-> LowerFunction(@[i], fs.env)]]
LowerFields(c, cs) == LowerFunctions([c EXCEPT !.consts = cs.ss], LowerDefines(c.fields, cs.env))
LowerStructs(c, structs, consts) ==
    LET env == [vars |-> Typed(c.params), structs |-> structs, consts |-> consts, funs |-> FunctionMap(c), rets |-> <<>>]
    IN  LowerFields([c EXCEPT !.params = LowerParams(@, env), !.structs = structs], LowerDefines(c.consts, env))

(* The constructor's arguments as constants, leaf by leaf. *)
ConstructorConstants(params, args, structs) ==
    LET env == [vars |-> <<>>, structs |-> structs, consts |-> <<>>, funs |-> <<>>, rets |-> <<>>]
        leaves == FlattenSeq([i \in DOMAIN args |-> LowerDefine(params[i].n, params[i].t, args[i], env)])
    IN  FoldLeft(LAMBDA m, d : (d.n :> d.e) @@ m, <<>>, leaves)
=============================================================================
