---------------------------- MODULE SilverInline ----------------------------
(***************************************************************************)
(* The pass that puts the bodies of the contract's functions in place of   *)
(* their calls.  Every name a body or an entrypoint declares is renamed to *)
(* a fresh one; the parameters of an entrypoint, the state and the         *)
(* constants keep theirs.  A call inside an expression becomes statements  *)
(* before the statement that holds the expression.                         *)
(*                                                                         *)
(* env.scope maps the visible source names to their new ones, env.next     *)
(* counts the fresh names, env.funs are the functions that can be inlined  *)
(* and env.visited the ones being inlined.                                 *)
(***************************************************************************)
EXTENDS SilverAst

(* A plausible bug, against which the runs are tried: the counter is forgotten, so every copy of a local has one name. *)
UnnumberedName(n, base) == "__inline_" \o base
FreshName(n, base) == "__inline_" \o ToString(n) \o "_" \o base
Bind(env, x) ==
    IF x \in DOMAIN env.scope THEN env
    ELSE [env EXCEPT !.scope = (x :> FreshName(env.next, x)) @@ @, !.next = @ + 1]
BindAll(env, xs) == FoldLeft(Bind, env, xs)
Renamed(x, env) == IF x \in DOMAIN env.scope THEN env.scope[x] ELSE x
RenamedParams(ps, env) == [i \in DOMAIN ps |-> [ps[i] EXCEPT !.n = Renamed(@, env)]]
Leave(inner, env) == [env EXCEPT !.next = inner.next]      \* back to the names of an outer scope

DeclaredNames(s) == IF s.k = "def" THEN <<s.n>> ELSE [i \in DOMAIN s.p |-> s.p[i].n]
(* A branch declares the names of its own statements before any of them is lowered. *)
Predeclare(ss, env) == BindAll(env, FlattenSeq([i \in DOMAIN ss |-> DeclaredNames(ss[i])]))

Inlined(ss, env) == [ss |-> ss, env |-> env]
Value(pre, e, env) == [pre |-> pre, e |-> e, env |-> env]
Defining(a, p, x, r, env) == Inlined(a.ss \o r.pre \o <<VarDef(p.t, x, r.e)>>, env)
After(a, b) == Inlined(a.ss \o b.ss, b.env)

RECURSIVE InlineExpr(_, _)
RECURSIVE InlineCall(_, _, _, _)
RECURSIVE InlineStatement(_, _)

NextValue(a, r) == [pre |-> a.pre \o r.pre, es |-> Append(a.es, r.e), env |-> r.env]
InlineExprs(es, env) ==
    FoldLeft(LAMBDA a, e : NextValue(a, InlineExpr(e, a.env)), [pre |-> <<>>, es |-> <<>>, env |-> env], es)

(* A call used as a value is bound to a temporary; one whose field is taken, to as many as it returns. *)
ValueIn(x, call) == Value(call.ss, Id(x), call.env)
CallValue(f, args, env) ==
    LET temp == FreshName(env.next, f.n) IN
    IF f.tuple \/ Len(f.rets) # 1 THEN Value(<<>>, Wrong, env)
    ELSE ValueIn(temp, InlineCall(f, args, <<Param(f.rets[1], temp)>>, [env EXCEPT !.next = @ + 1]))
TupleValue(f, args, i, env) ==
    LET temp(k) == FreshName(env.next + k - 1, f.n) IN
    IF ~f.tuple \/ i >= Len(f.rets) THEN Value(<<>>, Wrong, env)
    ELSE ValueIn(temp(i + 1), InlineCall(f, args, [k \in DOMAIN f.rets |-> Param(f.rets[k], temp(k))],
                                         [env EXCEPT !.next = @ + Len(f.rets)]))

CalledWith(args, f) == [CallValue(f, args.es, args.env) EXCEPT !.pre = args.pre \o @]
RebuiltWith(args, e) == Value(args.pre, [e EXCEPT !.c = args.es], args.env)
InlineExpr(e, env) ==
    CASE e.k = "id" -> Value(<<>>, Id(Renamed(e.n, env)), env)
      [] e.k = "call" /\ e.n \in DOMAIN env.funs -> CalledWith(InlineExprs(e.c, env), env.funs[e.n])
      [] e.k = "tupledot" /\ e.c[1].k = "call" /\ e.c[1].n \in DOMAIN env.funs ->
            TupleValue(env.funs[e.c[1].n], e.c[1].c, e.v, env)
      [] OTHER -> RebuiltWith(InlineExprs(e.c, env), e)

InlineBlock(ss, env) == FoldLeft(LAMBDA a, s : After(a, InlineStatement(s, a.env)), Inlined(<<>>, env), ss)

(* The parameters as variables, each argument lowered with the caller's names; then the body, then the results. *)
AddParam(a, p, local, r) == Defining(a, p, Renamed(p.n, local), r, Leave(r.env, local))
BindParam(a, p, arg, local, scope) == AddParam(a, p, local, InlineExpr(arg, [local EXCEPT !.scope = scope]))
BindParams(f, args, env) ==
    FoldLeft(LAMBDA a, i : BindParam(a, f.params[i], args[i], Bind(a.env, f.params[i].n), env.scope),
             Inlined(<<>>, [env EXCEPT !.scope = <<>>, !.visited = @ \cup {f.n}]), [i \in DOMAIN args |-> i])
EndsInReturn(f) == f.body # <<>> /\ Last(f.body).k = "return"
AddBody(a, f) == After(a, InlineBlock(IF EndsInReturn(f) THEN Front(f.body) ELSE f.body, a.env))
AddResult(a, p, r) == Defining(a, p, p.n, r, r.env)
AddResults(a, f, bindings) ==
    LET values == IF EndsInReturn(f) THEN Last(f.body).c ELSE <<>> IN
    FoldLeft(LAMBDA b, i : AddResult(b, bindings[i], InlineExpr(values[i], b.env)),
             a, [i \in 1 .. Min({Len(bindings), Len(values)}) |-> i])
Outside(a, env) == Inlined(a.ss, Leave(a.env, env))
InlineCall(f, args, bindings, env) ==
    IF f.n \in env.visited \/ Len(args) # Len(f.params) THEN Inlined(<<WrongStmt>>, env)
    ELSE Outside(AddResults(AddBody(BindParams(f, args, env), f), f, bindings), env)

(* The names a statement declares are bound before its expressions are lowered. *)
SimpleWith(s, r) ==
    Inlined(r.pre \o <<[s EXCEPT !.n = IF s.k \in {"def", "assign"} THEN Renamed(@, r.env) ELSE @,
                                 !.p = RenamedParams(@, r.env), !.c = r.es]>>, r.env)
InlineSimple(s, env) == SimpleWith(s, InlineExprs(s.c, BindAll(env, DeclaredNames(s))))

AddBranch(a, r) == [bs |-> Append(a.bs, r.ss), env |-> Leave(r.env, a.env)]
IfWith(s, cond, a) == Inlined(cond.pre \o <<[s EXCEPT !.c = <<cond.e>>, !.b = a.bs]>>, a.env)
InlineIf(s, cond) ==
    IfWith(s, cond, FoldLeft(LAMBDA a, ss : AddBranch(a, InlineBlock(ss, Predeclare(ss, a.env))),
                             [bs |-> <<>>, env |-> cond.env], s.b))

(* The body of a loop is lowered before its bounds, which are lowered outside it. *)
ForWith(s, inside, body, bounds) ==
    Inlined(bounds.pre \o <<[s EXCEPT !.n = Renamed(@, inside), !.c = bounds.es, !.b = <<body.ss>>]>>, bounds.env)
ForAround(s, inside, body, env) == ForWith(s, inside, body, InlineExprs(s.c, Leave(body.env, env)))
InlineFor(s, inside, env) == ForAround(s, inside, InlineBlock(s.b[1], inside), env)

InlineScope(a, env) == Inlined(<<Block(a.ss)>>, Leave(a.env, env))
InlineStatement(s, env) ==
    LET bound == BindAll(env, DeclaredNames(s)) IN
    CASE s.k \in {"call", "callassign"} /\ s.n \in DOMAIN env.funs ->
            InlineCall(env.funs[s.n], s.c, RenamedParams(s.p, bound), bound)
      [] s.k = "block" -> InlineScope(InlineBlock(s.b[1], env), env)
      [] s.k = "if" -> InlineIf(s, InlineExpr(s.c[1], env))
      [] s.k = "for" -> InlineFor(s, Bind(env, s.n), env)
      [] OTHER -> InlineSimple(s, env)

(* Only the entrypoints are left. *)
AddEntrypoint(a, f, r) == [fs |-> Append(a.fs, [f EXCEPT !.body = r.ss]), next |-> r.env.next]
InlineFunctions(c) ==
    LET Entry(f) == f.entry
        Callee(f) == ~f.entry
        funs == FoldLeft(LAMBDA m, f : (f.n :> f) @@ m, <<>>, SelectSeq(c.funs, Callee))
        enter(f, next) == [scope |-> FoldLeft(LAMBDA m, p : (p.n :> p.n) @@ m, <<>>, f.params), next |-> next,
                           funs |-> funs, visited |-> {}]
    IN  [c EXCEPT !.funs = FoldLeft(LAMBDA a, f : AddEntrypoint(a, f, InlineBlock(f.body, enter(f, a.next))),
                                    [fs |-> <<>>, next |-> 0], SelectSeq(c.funs, Entry)).fs]
=============================================================================
