---------------------------- MODULE SilverCheck ----------------------------
(***************************************************************************)
(* The type checker, which sees the source before any pass but the one     *)
(* that sizes arrays: what names mean, what may be assigned, compared,     *)
(* called and returned.  Entrypoints are allowed to return.                *)
(*                                                                         *)
(* env.vars maps names to types and env.vals the names that have one to    *)
(* the expression they were last given; env.halves are the names that hold *)
(* a part of a split.  env also has the structs, the contract's constants  *)
(* (env.consts) and fields, the functions, the types the function returns, *)
(* and whether all is well so far (env.ok).                                *)
(***************************************************************************)
EXTENDS SilverStructs, SilverStatements

(***************************************************************************)
(* Types.                                                                  *)
(***************************************************************************)
KnownType(t, structs) == t.b \in Builtin \/ IsStruct(t, structs)

RECURSIVE SizeKnown(_, _)
SizeKnown(t, structs) ==
    /\ \A i \in DOMAIN t.d : t.d[i].k = "fixed"
    /\ \/ BaseSize(t.b) # -1
       \/ IsStruct(t, structs) /\ \A i \in DOMAIN structs[t.b] : SizeKnown(structs[t.b][i].t, structs)
ElementsSized(t, structs) == IsArray(t) => SizeKnown(ElementType(t), structs)

(* No struct is part of itself. *)
RECURSIVE WellFounded(_, _, _)
WellFounded(name, structs, around) ==
    /\ name \notin around
    /\ \A f \in Range(structs[name]) :
          /\ KnownType(f.t, structs)
          /\ IsStruct(f.t, structs) => WellFounded(f.t.b, structs, around \cup {name})

InferEnv(env) == [types |-> env.vars, consts |-> env.vals]
NoValues(env) == [env EXCEPT !.vals = <<>>, !.halves = {}]
LiteralEnv(env) == [types |-> env.vars, consts |-> env.consts]

OneResult(f) == ~f.entry /\ ~f.tuple /\ Len(f.rets) = 1
TupleFieldType(e, env) ==
    LET f == env.funs[e.c[1].n] IN
    IF e.c[1].k = "call" /\ e.c[1].n \in DOMAIN env.funs /\ ~f.entry /\ f.tuple /\ e.v + 1 \in DOMAIN f.rets
    THEN f.rets[e.v + 1] ELSE NoType

(* The type that comparisons, ternaries and appends go by. *)
RECURSIVE CheckedType(_, _)
CheckedType(e, env) ==
    LET of(i) == CheckedType(e.c[i], env) IN
    CASE e.k = "id" -> IF e.n \in env.halves THEN InferType(env.vals[e.n], InferEnv(env)) ELSE VarType(e.n, env)
      [] e.k = "tupledot" -> TupleFieldType(e, env)
      [] e.k = "dot" -> IF IsStruct(of(1), env.structs) THEN FieldType(of(1), e.n, env.structs) ELSE NoType
      [] e.k = "index" -> ElementType(of(1))
      [] e.k = "append" -> of(1)
      [] e.k = "ifelse" -> IF of(2) = of(3) THEN of(2) ELSE NoType
      [] e.k = "call" /\ e.n = "readInputState" /\ env.fields # <<>> -> TypeRef(StateType, <<>>)
      [] e.k = "call" /\ e.n \in DOMAIN env.funs ->
            IF OneResult(env.funs[e.n]) THEN env.funs[e.n].rets[1] ELSE NoType
      [] OTHER -> InferType(e, InferEnv(env))

Comparable(l, r) ==
    \/ NoType \in {l, r} \/ l = r
    \/ {l, r} = {TByte, TByteN(1)}

(***************************************************************************)
(* What may stand where a type is declared.                                *)
(***************************************************************************)
SignatureArgs == [checkSigFromStack |-> <<TypeRef("datasig", <<>>), TByteN(32), TypeRef("pubkey", <<>>)>>,
                  checkSigFromStackECDSA |-> <<TypeRef("datasig", <<>>), TByteN(32), TByteN(33)>>]

RECURSIVE MatchesDeclared(_, _, _)
MatchesDeclared(e, t, structs) ==
    CASE IsStruct(t, structs) ->
            LET fields == structs[t.b] IN
            IsObjectOf(e, fields) /\ \A i \in DOMAIN fields : MatchesDeclared(FieldValue(e, fields[i]), fields[i].t, structs)
      [] IsStructArray(t, structs) ->
            e.k = "array" /\ \A i \in DOMAIN e.c : MatchesDeclared(e.c[i], ElementType(t), structs)
      [] OTHER -> LiteralMatchesType(e, t)

(* What may be returned; beyond literals and names only the shape of a struct is asked for. *)
RECURSIVE MatchesReturn(_, _, _)
MatchesReturn(e, t, env) ==
    IF e.k = "id" THEN Assignable(VarType(e.n, env), t, env.consts)
    ELSE CASE IsStruct(t, env.structs) ->
                LET fields == env.structs[t.b] IN
                IsObjectOf(e, fields) /\ \A i \in DOMAIN fields : MatchesReturn(FieldValue(e, fields[i]), fields[i].t, env)
           [] IsStructArray(t, env.structs) ->
                e.k = "array" /\ \A i \in DOMAIN e.c : MatchesReturn(e.c[i], ElementType(t), env)
           [] OTHER ->
                CASE e.k = "ifelse" -> Assignable(InferType(e, InferEnv(NoValues(env))), t, env.consts)
                  [] e.k = "array" -> \/ LiteralMatchesType(e, t)
                                      \/ IsArray(t) /\ LiteralMatches(e.c, t, [types |-> <<>>, consts |-> <<>>])
                  [] e.k \in {"int", "bool", "byte", "string"} -> LiteralMatchesType(e, t)
                  [] e.k = "call" -> e.n \in DOMAIN SignatureArgs => t = TBool
                  [] OTHER -> TRUE

(* The expressions whose type is certain: it alone decides. *)
CertainType(e, env) ==
    CASE e.k = "call" /\ e.n \in DOMAIN env.funs -> env.funs[e.n].rets[1]
      [] e.k = "call" /\ e.n \in DOMAIN SignatureArgs \ DOMAIN env.funs -> TBool
      [] e.k \in {"tupledot", "ifelse"} -> CheckedType(e, NoValues(env))
      [] OTHER -> NoType

RECURSIVE AssignableTo(_, _, _)
StructAssignable(e, t, env) ==
    LET fields == env.structs[t.b]
        leaves == LeafTypes(t, env.structs)
        bare == [env EXCEPT !.funs = <<>>, !.fields = <<>>]
    IN  CASE e.k = "call" /\ e.n = "readInputState" -> t.b = StateType /\ env.fields # <<>> /\ Len(e.c) = 1
          [] e.k = "call" /\ e.n = "readInputStateWithTemplate" ->
                Len(e.c) = 4 /\ leaves # <<>> /\ Encodable(leaves, env.consts)
          [] e.k = "object" -> /\ IsObjectOf(e, fields)
                               /\ \A i \in DOMAIN fields : AssignableTo(FieldValue(e, fields[i]), fields[i].t, bare)
          [] OTHER -> Wrong \notin Range(LowerStruct(e, t, env))

(* A value of another type: its array type if that can be told, else what remains of it once structs are taken apart. *)
ValueAssignable(e, t, env) ==
    LET value == LowerExpr(e, env) IN
    \/ IsArray(t) /\ Assignable(InferType(e, InferEnv(NoValues(env))), t, env.consts)
    \/ Wrong \notin SubExprs(value) /\ MatchesReturn(value, t, env)

AssignableTo(e, t, env) ==
    LET certain == CertainType(e, env) IN
    CASE e.k = "call" /\ e.n \in DOMAIN env.funs /\ ~OneResult(env.funs[e.n]) -> FALSE
      [] OTHER ->
         IF certain # NoType THEN Assignable(certain, t, env.consts)
         ELSE CASE t = TByte /\ e.k = "int" -> e.v \in 0 .. 255
                [] IsArray(t) /\ e.k = "array" -> LiteralMatches(e.c, t, LiteralEnv(env))
                [] IsStruct(t, env.structs) -> StructAssignable(e, t, env)
                [] IsStructArray(t, env.structs) /\ e.k # "array" ->
                      IF e.k = "id" THEN Assignable(VarType(e.n, env), t, env.consts) ELSE FALSE
                [] OTHER -> ValueAssignable(e, t, env)

(***************************************************************************)
(* Expressions.                                                            *)
(***************************************************************************)
ValidBuiltin(f, es, env) ==
    f \in DOMAIN SignatureArgs =>
        /\ Len(es) = 3
        /\ \A i \in 1 .. 3 : LET t == CheckedType(es[i], env) IN
              /\ t # NoType
              /\ Assignable(t, SignatureArgs[f][i], env.consts) \/ LiteralMatchesType(es[i], SignatureArgs[f][i])

Callable(f, es, env) ==
    /\ f \in DOMAIN env.funs /\ ~env.funs[f].entry /\ Len(env.funs[f].params) = Len(es)
    /\ \A i \in DOMAIN es : /\ ~(es[i].k = "call" /\ es[i].n = "readInputStateWithTemplate")
                            /\ AssignableTo(es[i], env.funs[f].params[i].t, env)

ComparisonValid(e, env) ==
    LET left == CheckedType(e.c[1], env) IN
    Comparable(left, CheckedType(CoerceToByte(e.c[2], left), env))

RECURSIVE ValidExpr(_, _)
ValidExpr(e, env) ==
    LET parts == IF e.k = "tupledot" THEN e.c[1].c ELSE e.c
        of(i) == InferType(e.c[i], InferEnv(env))
        branches == {CheckedType(e.c[2], env), CheckedType(e.c[3], env)}
        target == CheckedType(e.c[1], env)
    IN  /\ \A i \in DOMAIN parts : ValidExpr(parts[i], env)
        /\ CASE e.k = "binary" /\ e.n = "+" -> TByte \notin {of(1), of(2)}
             [] e.k = "binary" /\ e.n \in Comparisons -> ComparisonValid(e, env)
             [] e.k = "ifelse" -> NoType \in branches \/ Cardinality(branches) = 1
             [] e.k = "call" -> /\ ValidBuiltin(e.n, e.c, env)
                                /\ e.n \in DOMAIN env.funs => OneResult(env.funs[e.n])
             [] e.k = "append" ->
                   /\ IsArray(target)
                   /\ \A i \in 2 .. Len(e.c) : AssignableTo(e.c[i], ElementType(target), [env EXCEPT !.consts = <<>>])
             [] e.k = "tupledot" -> TupleFieldType(e, env) # NoType
             [] e.k = "id" -> e.n \in DOMAIN env.vars \cup DOMAIN env.vals
             [] OTHER -> TRUE

(***************************************************************************)
(* Statements: the environment after one.                                  *)
(***************************************************************************)
Demand(p, env) == [env EXCEPT !.ok = @ /\ p]
(* A name of a struct type brings the names of its leaves. *)
InScope(x, t, env) == [env EXCEPT !.vars = (x :> t) @@ Typed(LowerParam(Param(t, x), env)) @@ @]
AllInScope(ps, env) == FoldLeft(LAMBDA a, p : InScope(p.n, p.t, a), env, ps)
AllSized(ps, env) == \A i \in DOMAIN ps : ElementsSized(ps[i].t, env.structs)
Assigned(x, e, env) == [env EXCEPT !.vals = (x :> e) @@ @, !.halves = @ \ {x}]

CheckDef(s, env) ==
    LET e == s.c[1]
        sized == IF s.c # <<>> /\ IsArray(s.t) /\ Last(s.t.d).k = "inferred" THEN InferredType(s.t, e, LiteralEnv(env)) ELSE NoType
        t == IF sized = NoType THEN s.t ELSE sized
        starts == CASE s.c = <<>> -> ArraySize(t, env.consts) = -1
                    [] s.c # <<>> /\ e.k = "id" -> Assignable(VarType(e.n, env), t, env.consts)
                    [] s.c # <<>> /\ e.k = "array" -> LiteralMatches(e.c, t, LiteralEnv(env))
                    [] OTHER -> TRUE
    IN  InScope(s.n, t, Demand(/\ ElementsSized(t, env.structs) /\ (IsArray(t) => starts)
                               /\ s.c # <<>> => AssignableTo(e, s.t, env),
                             IF s.c = <<>> THEN env ELSE Assigned(s.n, e, env)))

CheckTuple(s, env) ==
    LET e == s.c[1]
        half(i, side) == s.p[i].n :> Split(side, e.c[1], e.c[2])
        split == [env EXCEPT !.vals = half(2, "right") @@ half(1, "left") @@ @, !.halves = @ \cup {s.p[1].n, s.p[2].n}]
    IN  AllInScope(s.p, Demand(AllSized(s.p, env), IF e.k = "split" THEN split ELSE env))

NoStructFields(fields, env) == \A i \in DOMAIN fields : ~IsStruct(fields[i].t, env.structs)
CheckStateCall(s, env) ==
    LET layouts == StructsBoundBy(s.p, env.structs)
        layout == env.structs[CHOOSE n \in layouts : TRUE]
        valid == CASE s.n = "readInputState" -> Len(s.c) = 1 /\ env.fields # <<>> /\ BindsEach(s.p, env.fields)
                   [] s.n = "readInputStateWithTemplate" ->
                         Len(s.c) = 4 /\ Cardinality(layouts) = 1 /\ NoStructFields(layout, env)
                   [] OTHER -> TRUE
    IN  AllInScope(s.p, Demand(valid /\ AllSized(s.p, env), env))

RECURSIVE StructTypeOf(_, _)
StructTypeOf(e, env) ==
    LET of == StructTypeOf(e.c[1], env) IN
    CASE e.k = "id" -> VarType(e.n, env)
      [] e.k = "dot" -> IF IsStruct(of, env.structs) THEN FieldType(of, e.n, env.structs) ELSE NoType
      [] e.k = "index" /\ e.c[1].k = "id" -> ElementType(VarType(e.c[1].n, env))
      [] e.k = "call" /\ e.n = "readInputState" /\ env.fields # <<>> -> TypeRef(StateType, <<>>)
      [] OTHER -> NoType
CheckDestructure(s, env) ==
    LET e == s.c[1]
        t == StructTypeOf(e, env)
        fields == env.structs[t.b]
        valid == /\ IsStruct(t, env.structs) /\ DistinctNames(s.p) /\ BindsEach(s.p, fields)
                 /\ \A i \in DOMAIN s.p : KnownType(s.p[i].t, env.structs)
                 /\ e.k = "call" => NoStructFields(fields, env)
    IN  AllInScope(s.p, Demand(valid /\ AllSized(s.p, env), env))

CheckCallAssign(s, env) ==
    AllInScope(s.p, Demand(Callable(s.n, s.c, env) /\ TypesOf(s.p) = env.funs[s.n].rets, env))
CheckAssign(s, env) ==
    Assigned(s.n, s.c[1], Demand(s.n \in DOMAIN env.vars => AssignableTo(s.c[1], env.vars[s.n], env), env))
CheckReturn(s, env) ==
    Demand(/\ env.rets # <<>> /\ Len(env.rets) = Len(s.c)
           /\ \A i \in DOMAIN s.c : MatchesReturn(s.c[i], env.rets[i], env), env)

RECURSIVE CheckStatement(_, _)
RECURSIVE CheckStatements(_, _)
(* After an error nothing more is looked at. *)
CheckStatements(ss, env) == FoldLeft(LAMBDA a, s : IF a.ok THEN CheckStatement(s, a) ELSE a, env, ss)
CheckStatement(s, env) ==
    LET inside == IF s.k = "for" THEN With(env, <<s>>) ELSE env IN
    IF \E i \in DOMAIN s.c : ~ValidExpr(s.c[i], env) THEN Demand(FALSE, env)
    ELSE CASE s.k = "def" -> CheckDef(s, env)
           [] s.k = "tuple" -> CheckTuple(s, env)
           [] s.k = "statecall" -> CheckStateCall(s, env)
           [] s.k = "destructure" -> CheckDestructure(s, env)
           [] s.k = "call" -> Demand(/\ ValidBuiltin(s.n, s.c, env)
                                     /\ s.n \in DOMAIN env.funs => Callable(s.n, s.c, env), env)
           [] s.k = "callassign" -> CheckCallAssign(s, env)
           [] s.k = "return" -> CheckReturn(s, env)
           [] s.k = "assign" -> CheckAssign(s, env)
           [] OTHER -> Demand(\A i \in DOMAIN s.b : CheckStatements(s.b[i], inside).ok, env)

(***************************************************************************)
(* The contract.                                                           *)
(***************************************************************************)
CheckEnv(c, structs, funs) ==
    LET consts == FoldLeft(LAMBDA m, d : (d.n :> d.e) @@ m, <<>>, c.consts) IN
    [vars |-> <<>>, vals |-> consts, halves |-> {}, structs |-> structs, consts |-> consts, fields |-> c.fields,
     funs |-> funs, rets |-> <<>>, ok |-> TRUE]

(* Each field is checked with the fields before it. *)
ValidField(f, env) == ValidExpr(f.e, env) /\ ElementsSized(f.t, env.structs) /\ AssignableTo(f.e, f.t, env)
CheckFields(c, structs) ==
    FoldLeft(LAMBDA env, f : IF env.ok THEN With(Demand(ValidField(f, env), env), <<f>>) ELSE env,
             With(CheckEnv(c, structs, <<>>), c.params \o c.consts), c.fields).ok

ReturnsLast(f) ==
    ContainsReturn(f.body) => Last(f.body).k = "return" /\ ~ContainsReturn(Front(f.body)) /\ f.rets # <<>>
CheckFunction(f, c, structs) ==
    LET env == AllInScope(c.params \o c.fields \o c.consts \o f.params, CheckEnv(c, structs, FunctionMap(c))) IN
    /\ AllSized(f.params, env) /\ \A i \in DOMAIN f.rets : ElementsSized(f.rets[i], structs)
    /\ ReturnsLast(f)
    /\ CheckStatements(f.body, [env EXCEPT !.rets = f.rets]).ok

ValidContract(c, args) ==
    LET structs == StructRegistry(c) IN
    /\ c.funs # <<>> /\ Len(args) = Len(c.params)
    /\ ValidRegistry(c) /\ \A name \in DOMAIN structs : WellFounded(name, structs, {})
    /\ \A d \in Range(c.params) \cup Range(c.fields) \cup Range(c.consts) : KnownType(d.t, structs)
    /\ CheckFields(c, structs)
    /\ \A i \in DOMAIN c.funs : CheckFunction(c.funs[i], c, structs)
    /\ \A i \in DOMAIN args : MatchesDeclared(args[i], c.params[i].t, structs)
=============================================================================
