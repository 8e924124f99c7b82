---------------------------- MODULE SilverPasses ----------------------------
(***************************************************************************)
(* The smaller lowering passes: array sizes left to be inferred, checks of *)
(* an output's state, appends, loops, and locals that are used once.       *)
(***************************************************************************)
EXTENDS SilverStructs

LowerBodies(c, bodies) == [c EXCEPT !.funs = [i \in DOMAIN @ |-> [@[i] EXCEPT !.body = bodies[i]]]]

(***************************************************************************)
(* T[_] takes its length from its initializer.                             *)
(***************************************************************************)
RECURSIVE SizedType(_, _, _)
(* The type of an initializer; a literal is an array of element, or of what its values are. *)
SizedType(e, env, element) ==
    LET of(i) == SizedType(e.c[i], env, NoType)
        sized(t, n) == IF n < 0 THEN NoType ELSE ArrayOf(ElementType(t), Fixed(n))
        size(t) == ArraySize(t, env.consts)
        values == IF element # NoType THEN element
                  ELSE IF e.c # <<>> /\ \A i \in DOMAIN e.c : of(i) = of(1) THEN of(1) ELSE NoType
        f == env.funs[e.n]
    IN  CASE e.k = "id" -> VarType(e.n, env)
          [] e.k = "array" -> IF values = NoType THEN NoType ELSE ArrayOf(values, Fixed(Len(e.c)))
          [] e.k = "call" /\ e.n \in DOMAIN env.funs -> IF f.entry \/ Len(f.rets) # 1 THEN NoType ELSE f.rets[1]
          [] e.k = "cast" -> e.t
          [] e.k = "binary" /\ e.n = "+" ->
                IF -1 \in {size(of(1)), size(of(2))} \/ ElementType(of(1)) # ElementType(of(2)) THEN NoType
                ELSE sized(of(1), size(of(1)) + size(of(2)))
          [] e.k = "ifelse" -> IF of(2) = of(3) THEN of(2) ELSE NoType
          [] e.k = "append" -> IF size(of(1)) = -1 THEN NoType ELSE sized(of(1), size(of(1)) + Len(e.c) - 1)
          [] OTHER -> NoType

IsInferred(t) == IsArray(t) /\ Last(t.d).k = "inferred"
OfLength(t, init, n) == IF n = -1 \/ ElementType(init) # ElementType(t) THEN NoType ELSE ArrayOf(ElementType(t), Fixed(n))
SizedAs(t, init, consts) == OfLength(t, init, ArraySize(init, consts))
WithSize(t, es, env) ==
    IF ~IsInferred(t) THEN t ELSE IF es = <<>> THEN NoType ELSE SizedAs(t, SizedType(es[1], env, ElementType(t)), env.consts)

RECURSIVE InferStatement(_, _)
RECURSIVE InferBlock(_, _)
InferBlock(ss, env) ==
    FoldLeft(LAMBDA a, s : Extended(a, InferStatement(s, a.env)), Lowered(<<>>, env), ss)
InferredDef(s, t, env) ==
    Lowered(IF t = NoType THEN <<WrongStmt>> ELSE <<[s EXCEPT !.t = t]>>, With(env, <<Param(t, s.n)>>))
(* What the branches declare is known after them, the else's over the then's. *)
InferredIn(s, inside, env) ==
    Lowered(<<[s EXCEPT !.b = [i \in DOMAIN @ |-> inside[i].ss]]>>,
            IF s.k = "if" THEN [env EXCEPT !.vars = inside[Len(inside)].env.vars @@ inside[1].env.vars] ELSE env)
InferStatement(s, env) ==
    CASE s.k = "def" -> InferredDef(s, WithSize(s.t, s.c, env), env)
      [] s.k = "callassign" -> Lowered(IF \E i \in DOMAIN s.p : IsInferred(s.p[i].t) THEN <<WrongStmt>> ELSE <<s>>,
                                       With(env, s.p))
      [] OTHER -> InferredIn(s, [i \in DOMAIN s.b |-> InferBlock(s.b[i], IF s.k = "for" THEN With(env, <<s>>) ELSE env)], env)

InferredDefine(d, t, a) ==
    Lowered(Append(a.ss, IF t = NoType THEN [d EXCEPT !.e = Wrong] ELSE [d EXCEPT !.t = t]), With(a.env, <<Param(t, d.n)>>))
InferDefines(ds, env) ==
    FoldLeft(LAMBDA a, d : InferredDefine(d, WithSize(d.t, <<d.e>>, a.env), a), Lowered(<<>>, env), ds)
InferFunctions(c, fs) ==
    LowerBodies([c EXCEPT !.fields = fs.ss],
                [i \in DOMAIN c.funs |-> InferBlock(c.funs[i].body, With(fs.env, c.funs[i].params)).ss])
InferFields(c, cs) == InferFunctions([c EXCEPT !.consts = cs.ss], InferDefines(c.fields, cs.env))
InferArraySizes(c, consts) ==
    InferFields(c, InferDefines(c.consts, [vars |-> Typed(c.params), consts |-> consts, funs |-> FunctionMap(c)]))

(***************************************************************************)
(* validateOutputState takes a struct: its leaves become the arguments.    *)
(***************************************************************************)
OutputChecks == [validateOutputState |-> <<"__validateOutputStateInner", 2>>,
                 validateOutputStateWithTemplate |-> <<"__validateOutputStateWithTemplateInner", 5>>]
TempName(k) == "__validate_output_state_" \o ToString(k)
FieldChain(x, path) == FoldLeft(FieldAccess, Id(x), path)

(* The struct a template's state is of: it must be a variable, a field or an element of one. *)
TemplateStateType(e, env) ==
    CASE e.k \in {"id", "dot"} -> ResolveAccess(e, env).t
      [] e.k = "index" /\ e.c[1].k = "id" -> ElementType(VarType(e.c[1].n, env))
      [] OTHER -> NoType

(* A state that is not a variable is put in one first. *)
LowerOutputCheck(s, env) ==
    LET check == OutputChecks[s.n]
        e == s.c[2]
        t == IF s.n = "validateOutputState" THEN TypeRef(StateType, <<>>) ELSE TemplateStateType(e, env)
        k == CHOOSE n \in env.temp .. env.temp + Cardinality(DOMAIN env.vars) :
                /\ TempName(n) \notin DOMAIN env.vars
                /\ \A m \in env.temp .. n - 1 : TempName(m) \in DOMAIN env.vars
        named == e.k = "id"
        x == IF named THEN e.n ELSE TempName(k)
        after == IF named THEN env ELSE [With(env, <<Param(t, x)>>) EXCEPT !.temp = k + 1]
        leaves == Leaves(t, env.structs)
        call == FunctionCall(check[1], <<s.c[1]>> \o [i \in DOMAIN leaves |-> FieldChain(x, leaves[i].path)]
                                       \o SubSeq(s.c, 3, Len(s.c)))
    IN  IF Len(s.c) # check[2] \/ ~IsStruct(t, env.structs) \/ VarType(x, after) # t THEN Lowered(<<WrongStmt>>, env)
        ELSE Lowered((IF named THEN <<>> ELSE <<VarDef(t, x, e)>>) \o <<call>>, after)

RECURSIVE LowerChecks(_, _)
LowerChecks(ss, env) ==
    LET inside(s, a) == [s EXCEPT !.b = [i \in DOMAIN @ |->
                            LowerChecks(@[i], IF s.k = "for" THEN With(a.env, <<s>>) ELSE a.env)]]
        known(s, a) == CASE s.k = "def" -> With(a.env, <<s>>)
                         [] s.k \in {"tuple", "callassign", "statecall", "destructure"} -> With(a.env, s.p)
                         [] OTHER -> a.env
        step(a, s) ==
            IF s.k = "call" /\ s.n \in DOMAIN OutputChecks
            THEN Extended(a, LowerOutputCheck(s, a.env))
            ELSE Lowered(Append(a.ss, inside(s, a)), known(s, a))
    IN  FoldLeft(step, Lowered(<<>>, env), ss).ss
LowerOutputState(c, structs) ==
    LET names == Typed(c.params \o c.consts \o c.fields)
        bodies == [i \in DOMAIN c.funs |-> LowerChecks(c.funs[i].body, [vars |-> Typed(c.funs[i].params) @@ names, temp |-> 0, structs |-> structs])]
    IN  LowerBodies(c, bodies)

(***************************************************************************)
(* x.append(y) is x + [y].                                                 *)
(***************************************************************************)
RECURSIVE LowerAppend(_)
LowerAppend(e) ==
    LET es == [i \in DOMAIN e.c |-> LowerAppend(e.c[i])] IN
    IF e.k = "append" THEN Binary("+", es[1], Array(Tail(es))) ELSE [e EXCEPT !.c = es]
RECURSIVE LowerAppendsIn(_)
LowerAppendsIn(ss) ==
    [i \in DOMAIN ss |-> [ss[i] EXCEPT !.c = [j \in DOMAIN @ |-> LowerAppend(@[j])],
                                       !.b = [j \in DOMAIN @ |-> LowerAppendsIn(@[j])]]]
LowerAppends(c) ==
    LET defines(ds) == [i \in DOMAIN ds |-> [ds[i] EXCEPT !.e = LowerAppend(@)]]
        bodies == [i \in DOMAIN c.funs |-> LowerAppendsIn(c.funs[i].body)]
    IN  LowerBodies([c EXCEPT !.consts = defines(@), !.fields = defines(@)], bodies)

(***************************************************************************)
(* Loops are unrolled.                                                     *)
(***************************************************************************)
RECURSIVE ConstInt(_, _)
(* The value of a constant expression, <<v>>, or <<>>. *)
ConstInt(e, consts) ==
    LET a == ConstInt(e.c[1], consts)
        b == ConstInt(e.c[2], consts)
        quotient == LET q == (IF a[1] < 0 THEN -a[1] ELSE a[1]) \div (IF b[1] < 0 THEN -b[1] ELSE b[1])
                    IN  IF (a[1] < 0) = (b[1] < 0) THEN q ELSE -q
    IN  CASE e.k = "int" -> <<e.v>>
          [] e.k = "id" /\ e.n \in DOMAIN consts -> ConstInt(consts[e.n], Hide(consts, e.n))
          [] e.k = "unary" /\ e.n = "-" /\ a # <<>> -> <<-a[1]>>
          [] e.k = "binary" /\ a # <<>> /\ b # <<>> ->
                CASE e.n = "+" -> <<a[1] + b[1]>>
                  [] e.n = "-" -> <<a[1] - b[1]>>
                  [] e.n = "*" -> <<a[1] * b[1]>>
                  [] e.n = "/" /\ b[1] # 0 -> <<quotient>>
                  [] e.n = "%" /\ b[1] # 0 -> <<a[1] - b[1] * quotient>>
                  [] OTHER -> <<>>
          [] OTHER -> <<>>

(* Known bounds: one block per iteration.  Otherwise as many guarded copies as there may be iterations. *)
Unrolled(s, from, to, max, body) ==
    IF to - from > max THEN <<WrongStmt>>
    ELSE [i \in 1 .. (IF to > from THEN to - from ELSE 0) |->
             Block(<<VarDef(TInt, s.n, IntLit(from + i - 1))>> \o body)]
Guarded(s, acc, max, body) ==
    LET from == s.c[1]
        to == s.c[2]
        next == Assign(acc, Binary("+", Id(s.n), IntLit(1)))
        once == IfOnly(Binary("<", Id(acc), to), <<VarDef(TInt, s.n, Id(acc))>> \o body \o <<next>>)
    IN  <<VarDef(TInt, acc, from), Require(Binary("<=", Binary("-", to, from), IntLit(max)))>>
        \o [i \in 1 .. max |-> once]

RECURSIVE Unroll(_, _, _)
(* next numbers the loops whose bounds are not known. *)
Unroll(ss, next, consts) ==
    LET blocks(s, n) == FoldLeft(LAMBDA a, b : LET r == Unroll(b, a.next, consts) IN
                                               [bs |-> Append(a.bs, r.ss), next |-> r.next],
                                 [bs |-> <<>>, next |-> n], s.b)
        loop(a, s) ==
            LET max == ConstInt(s.c[3], consts)
                from == ConstInt(s.c[1], consts)
                to == ConstInt(s.c[2], consts)
                inside == blocks(s, a.next)
                acc == "__for_" \o ToString(inside.next) \o "_" \o s.n
            IN  CASE max = <<>> \/ max[1] < 0 -> [ss |-> Append(a.ss, WrongStmt), next |-> a.next]
                  [] max # <<>> /\ max[1] >= 0 /\ from # <<>> /\ to # <<>> ->
                        [ss |-> a.ss \o Unrolled(s, from[1], to[1], max[1], inside.bs[1]), next |-> inside.next]
                  [] OTHER -> [ss |-> a.ss \o Guarded(s, acc, max[1], inside.bs[1]), next |-> inside.next + 1]
        step(a, s) ==
            IF s.k = "for" THEN loop(a, s)
            ELSE LET inside == blocks(s, a.next) IN
                 [ss |-> Append(a.ss, [s EXCEPT !.b = inside.bs]), next |-> inside.next]
    IN  FoldLeft(step, [ss |-> <<>>, next |-> next], ss)
UnrollLoops(c, consts) ==
    LET done == FoldLeft(LAMBDA a, f : LET r == Unroll(f.body, a.next, consts) IN
                                       [fs |-> Append(a.fs, [f EXCEPT !.body = r.ss]), next |-> r.next],
                         [fs |-> <<>>, next |-> 0], c.funs)
    IN  [c EXCEPT !.funs = done.fs]

(***************************************************************************)
(* A local that is never assigned and is used at most once, initialized    *)
(* from nothing that is assigned, is replaced by its initializer.          *)
(***************************************************************************)
AssignedNames(ss) == {s.n : s \in {x \in SubStmts(ss) : x.k \in {"assign", "for"}}}
References(e, names) == \E x \in SubExprs(e) : x.k = "id" /\ x.n \in names
RECURSIVE ExprUses(_, _)
ExprUses(e, x) ==
    FoldLeft(LAMBDA n, child : n + ExprUses(child, x), IF e.k = "id" /\ e.n = x THEN 1 ELSE 0, e.c)
RECURSIVE BodyUses(_, _)
BodyUses(ss, x) ==
    LET uses(s) == FoldLeft(LAMBDA n, e : n + ExprUses(e, x), 0, s.c) + FoldLeft(LAMBDA n, b : n + BodyUses(b, x), 0, s.b)
    IN  FoldLeft(LAMBDA n, s : n + uses(s), 0, ss)

CoercedTo(e, t) == IF t = TByte /\ e.k = "int" THEN (IF e.v \in 0 .. 255 THEN ByteLit(e.v) ELSE Wrong) ELSE e
Forget(aliases, xs) == [x \in DOMAIN aliases \ xs |-> aliases[x]]
Rebound(s) == CASE s.k \in {"def", "assign", "for"} -> {s.n}
                [] s.k \in {"tuple", "callassign", "statecall", "destructure"} -> {s.p[i].n : i \in DOMAIN s.p}
                [] OTHER -> {}

RECURSIVE LowerAliases(_, _, _)
LowerAliases(ss, whole, aliases) ==
    LET assigned == AssignedNames(whole)
        isAlias(s) == /\ s.k = "def" /\ s.c # <<>> /\ s.n \notin assigned
                      /\ BodyUses(whole, s.n) <= 1 /\ ~References(s.c[1], assigned)
        step(a, s) ==
            LET known == Forget(a.aliases, Rebound(s))
                e == CoercedTo(MapExpr(s.c[1], a.aliases), s.t)
            IN  CASE isAlias(s) -> [ss |-> IF e = Wrong THEN Append(a.ss, WrongStmt) ELSE a.ss,
                                    aliases |-> (s.n :> e) @@ a.aliases]
                  [] OTHER -> [ss |-> Append(a.ss, [s EXCEPT !.c = [i \in DOMAIN @ |-> MapExpr(@[i], known)],
                                                             !.b = [i \in DOMAIN @ |-> LowerAliases(@[i], whole, known)]]),
                               aliases |-> known]
    IN  FoldLeft(step, [ss |-> <<>>, aliases |-> aliases], ss).ss
LowerLocals(c) == LowerBodies(c, [i \in DOMAIN c.funs |-> LowerAliases(c.funs[i].body, c.funs[i].body, <<>>)])
=============================================================================
