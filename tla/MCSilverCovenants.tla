------------------------- MODULE MCSilverCovenants -------------------------
(***************************************************************************)
(* Covenant declarations, each with the promise it makes: which spends of  *)
(* the contract it lets through.  The promise is written from the          *)
(* declaration's own terms, over the states that the transaction's inputs  *)
(* and outputs hold, and knows nothing of the entrypoints that are         *)
(* generated.                                                              *)
(***************************************************************************)
EXTENDS MCSilverCompiler

Policy(f, path, args, ps, rs, ss) ==
    [n |-> f, entry |-> FALSE, params |-> ps, rets |-> rs, tuple |-> FALSE,
     attrs |-> <<[path |-> path, args |-> args]>>, body |-> ss]
Arg(n, e) == [n |-> n, e |-> e]
Option(n, x) == Arg(n, Id(x))
StateOfN(e) == StateObject(<<"n">>, <<e>>)
N(x) == FieldAccess(Id(x), "n")
Holding(v) == StructV(<<"n">>, <<IntV(v)>>)

Held(v, cov, auth) == [value |-> 1, state |-> IF v = -1 THEN Nothing ELSE Holding(v), cov |-> cov, auth |-> auth, spk |-> <<>>, sig |-> <<>>]
Bound(active, ins, outs) == [active |-> active, ins |-> ins, outs |-> outs, time |-> 0, age |-> 0]

(***************************************************************************)
(* What a declaration promises.  rule: the policy, its binding, mode and   *)
(* bounds, whether exactly one new state is asked for, and whether the     *)
(* input's outputs must be all the covenant's outputs.                     *)
(***************************************************************************)
CovenantId(tx) == tx.ins[tx.active + 1].cov
SharedInputs(tx) == CovenantOf(tx.ins, CovenantId(tx))
SharedOutputs(tx) == CovenantOf(tx.outs, CovenantId(tx))
BoundOutputs(rule, tx) == IF rule.binding = "auth" THEN AuthorizedBy(tx, tx.active) ELSE SharedOutputs(tx)
OldStates(rule, tx) ==
    IF rule.binding = "auth" THEN tx.ins[tx.active + 1].state
    ELSE LET is == SharedInputs(tx) IN ArrayV([i \in DOMAIN is |-> tx.ins[is[i]].state])
NewStates(rule, tx) == LET os == BoundOutputs(rule, tx) IN [i \in DOMAIN os |-> tx.outs[os[i]].state]
Listed(v) == IF v.k = "array" THEN v.c ELSE <<v>>
PolicyRun(rule, vs, tx) == Outcome(program.c, Constructed, FunctionNamed(program.c, rule.policy), vs, tx)

Promised(rule, args, tx) ==
    LET new == NewStates(rule, tx)
        stateless == program.c.fields = <<>>
        run == PolicyRun(rule, IF stateless THEN args ELSE <<OldStates(rule, tx)>> \o args, tx)
        states == IF rule.mode = "transition" THEN run.ret[1] ELSE args[1]
    IN  /\ rule.binding = "cov" => SharedInputs(tx)[1] = tx.active + 1 /\ Len(SharedInputs(tx)) <= rule.from
        /\ rule.binding = "cov" /\ ~stateless => \A i \in Range(SharedInputs(tx)) : tx.ins[i].state # Nothing
        /\ rule.groups = "single" => Len(SharedOutputs(tx)) = Len(BoundOutputs(rule, tx))
        /\ Len(new) <= rule.to /\ (rule.one => Len(new) = 1)
        /\ run.ok
        /\ ~stateless => new = Listed(states)

(* A spend through a covenant's entrypoint is let through exactly when its declaration promises it; one through    *)
(* a delegate exactly when the input is not the first of its covenant.                                               *)
CovenantKept ==
    stage = "done" /\ program.ok /\ "rule" \in DOMAIN program =>
        \A k \in program.calls :
            LET tx == Spending(k.tx) IN
            Accepts(ScriptOutcome(k)) = (IF k.delegate THEN SharedInputs(tx)[1] # tx.active + 1
                                         ELSE Promised(program.rule, Values(k.args), tx))

(***************************************************************************)
(* The declarations.                                                       *)
(***************************************************************************)
Old == Param(TState, "old")
Olds == Param(TStates, "olds")
Next1 == Param(TState, "new")
News == Param(TStates, "news")
By == Param(TInt, "by")
Rule(policy, binding, mode, from, to, one, groups) ==
    [policy |-> policy, binding |-> binding, mode |-> mode, from |-> from, to |-> to, one |-> one, groups |-> groups]
Fields == <<Define("n", TInt, Num(3))>>
Declared(fs, f, rule, calls) == [c |-> Contract(<<>>, fs, <<>>, <<>>, <<f>>), args |-> <<>>, calls |-> calls, ok |-> TRUE, rule |-> rule]
Spend(name, delegate, args, tx) == [f |-> name, delegate |-> delegate, args |-> args, tx |-> tx]

(* Two inputs, the second in state 4, of one covenant or of two; up to two outputs. *)
In(c1, c2) == <<Held(3, c1, -1), Held(4, c2, -1)>>
One1 == <<1>>
Two2 == <<2>>
Txs(active, outss) == {Bound(active, In(One1, c2), outs) : c2 \in {One1, Two2}, outs \in outss}
AuthOuts(to) == {<<Held(v, One1, 0)>> : v \in {5, -1}} \cup {<<>>, <<Held(5, One1, 0), Held(6, One1, 0)>>, <<Held(5, One1, 1), Held(5, One1, 0)>>}
CovOuts == {<<>>, <<Held(7, One1, 0)>>, <<Held(9, Two2, 0), Held(4, One1, 0), Held(3, One1, 1)>>, <<Held(3, One1, 0), Held(4, One1, 0)>>}
States(vs) == Array([i \in DOMAIN vs |-> StateOfN(Num(vs[i]))])
AuthCalls(name, argss) == {Spend(AuthName(name), FALSE, args, tx) : args \in argss, tx \in Txs(0, AuthOuts(2))}
CovCalls(name, argss) ==
    {Spend(LeaderName(name), FALSE, args, tx) : args \in argss, tx \in Txs(0, CovOuts) \cup Txs(1, {<<Held(7, One1, 0)>>})}
    \cup {Spend(DelegateName(name), TRUE, <<>>, tx) : tx \in Txs(0, {<<>>}) \cup Txs(1, {<<>>})}

Grow == <<Return(<<StateOfN(Bin(N("old"), "+", Id("by")))>>)>>
Singleton ==
    Declared(Fields, Policy("step", <<"covenant", "singleton">>, <<>>, <<Old, Next1, By>>, <<>>,
                           <<Require(Bin(N("new"), "==", Bin(N("old"), "+", Id("by"))))>>),
            Rule("step", "auth", "verification", 1, 1, TRUE, "multiple"),
            AuthCalls("step", {<<StateOfN(Num(5)), Num(2)>>, <<StateOfN(Num(5)), Num(1)>>}))
SingletonTransition ==
    Declared(Fields, Policy("grow", <<"covenant", "singleton">>, <<Option("mode", "transition")>>, <<Old, By>>, <<TState>>, Grow),
            Rule("grow", "auth", "transition", 1, 1, TRUE, "multiple"), AuthCalls("grow", {<<Num(2)>>, <<Num(3)>>}))
Ending ==
    Declared(Fields, Policy("close", <<"covenant", "singleton">>, <<Option("termination", "allowed")>>, <<Old, Param(TStates, "next")>>, <<TStates>>,
                           <<Require(Bin(Length(Id("next")), "<=", Num(1))), Return(<<Id("next")>>)>>),
            Rule("close", "auth", "transition", 1, 1, FALSE, "multiple"), AuthCalls("close", {<<States(<<>>)>>, <<States(<<5>>)>>}))
Fanout(groups) ==
    Declared(Fields, Policy("split", <<"covenant", "fanout">>, <<Arg("to", Num(2)), Option("groups", groups)>>, <<Old, News>>, <<>>,
                           <<Require(Bin(Length(Id("news")), ">", Num(0))), Require(Bin(FieldAccess(Index(Id("news"), Num(0)), "n"), ">", N("old")))>>),
            Rule("split", "auth", "verification", 1, 2, FALSE, groups), AuthCalls("split", {<<States(<<5>>)>>, <<States(<<5, 6>>)>>}))
Merge2 ==
    Declared(Fields, Policy("merge", <<"covenant">>, <<Arg("from", Num(2)), Arg("to", Num(2))>>, <<Olds, News>>, <<>>,
                           <<IntVar("sum", Num(0)),
                             For("i", Num(0), Length(Id("olds")), Num(2), <<Assign("sum", Bin(Id("sum"), "+", FieldAccess(Index(Id("olds"), Id("i")), "n")))>>),
                             For("j", Num(0), Length(Id("news")), Num(2), <<Assign("sum", Bin(Id("sum"), "-", FieldAccess(Index(Id("news"), Id("j")), "n")))>>),
                             Require(Bin(Id("sum"), "==", Num(0)))>>),
            Rule("merge", "cov", "verification", 2, 2, FALSE, "single"), CovCalls("merge", {<<States(<<7>>)>>, <<States(<<4, 3>>)>>, <<States(<<3, 4>>)>>}))
Rotate ==
    Declared(Fields, Policy("rotate", <<"covenant">>, <<Arg("from", Num(2)), Arg("to", Num(2)), Option("mode", "transition")>>, <<Olds>>, <<TStates>>,
                           <<Return(<<Id("olds")>>)>>),
            Rule("rotate", "cov", "transition", 2, 2, FALSE, "single"), CovCalls("rotate", {<<>>}))
Stateless ==
    Declared(<<>>, Policy("pass", <<"covenant">>, <<Arg("from", Num(1)), Arg("to", Num(1))>>, <<By>>, <<>>, <<Require(Bin(Id("by"), ">", Num(0)))>>),
            Rule("pass", "auth", "verification", 1, 1, FALSE, "multiple"), AuthCalls("pass", {<<Num(0)>>, <<Num(1)>>}))
Covenants == {Singleton, SingletonTransition, Ending, Fanout("single"), Fanout("multiple"), Merge2, Rotate, Stateless}
AllPrograms == CompilerPrograms \cup Covenants
=============================================================================
