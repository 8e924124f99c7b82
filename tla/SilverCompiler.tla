--------------------------- MODULE SilverCompiler ---------------------------
(***************************************************************************)
(* The compiler: the source goes through the passes in their order, each   *)
(* of which may refuse it, and the contract's script is then compiled for  *)
(* one size after another until it has the size it was compiled for.       *)
(*                                                                         *)
(* A program is a contract, the arguments of its constructor, the calls it *)
(* is examined with, each a function, arguments and a transaction, and     *)
(* whether the language accepts it.                                        *)
(***************************************************************************)
EXTENDS SilverCheck, SilverContract, SilverInline, SilverCovenants, SilverEval

CONSTANTS Programs, MaxIterations

VARIABLES program, stage, ast, declared, structs, size, tries, script
vars == <<program, stage, ast, declared, structs, size, tries, script>>

(* The constants by name: before structs are taken apart, and after. *)
SourceConstants ==
    LET given == [i \in DOMAIN program.args |-> Define(program.c.params[i].n, NoType, program.args[i])] IN
    FoldLeft(LAMBDA m, d : (d.n :> d.e) @@ m, <<>>, program.c.consts \o given)
LoweredConstants ==
    FoldLeft(LAMBDA m, d : (d.n :> d.e) @@ m,
             ConstructorConstants(declared.params, program.args, structs), ast.consts)

ContractExprs(c) ==
    UNION ({SubExprs(d.e) : d \in Range(c.consts \o c.fields)}
           \cup {StmtExprs(s) : s \in UNION {SubStmts(c.funs[i].body) : i \in DOMAIN c.funs}})
Refused(c) == Wrong \in ContractExprs(c)

Init ==
    /\ program \in Programs
    /\ stage = "infer"
    /\ ast = program.c
    /\ declared = program.c
    /\ structs = <<>>
    /\ size = -1
    /\ tries = 0
    /\ script = <<>>

Pass(name, result, next) ==
    /\ stage = name
    /\ IF Refused(result) THEN stage' = "refused" /\ UNCHANGED ast
                          ELSE stage' = next /\ ast' = result
    /\ UNCHANGED <<program, size, tries, script>>

InferSizes == Pass("infer", InferArraySizes(ast, SourceConstants), "check") /\ UNCHANGED <<declared, structs>>
CheckTypes ==
    /\ stage = "check"
    /\ stage' = IF ValidContract(ast, program.args) THEN "covenants" ELSE "refused"
    /\ UNCHANGED <<program, ast, declared, structs, size, tries, script>>
DeclareCovenants ==
    /\ Pass("covenants", LowerCovenants(ast, SourceConstants), "inline")
    /\ declared' = IF stage' = "refused" THEN declared ELSE ast'
    /\ UNCHANGED structs
Inline == Pass("inline", InlineFunctions(ast), "registry") /\ UNCHANGED <<declared, structs>>
BuildRegistry ==
    /\ stage = "registry"
    /\ IF ValidRegistry(ast) THEN stage' = "outputs" /\ structs' = StructRegistry(ast)
                             ELSE stage' = "refused" /\ UNCHANGED structs
    /\ UNCHANGED <<program, ast, declared, size, tries, script>>
CheckOutputs == Pass("outputs", LowerOutputState(ast, structs), "structs") /\ UNCHANGED <<declared, structs>>
TakeStructsApart == Pass("structs", LowerStructs(ast, structs, SourceConstants), "appends") /\ UNCHANGED <<declared, structs>>
ReplaceAppends == Pass("appends", LowerAppends(ast), "loops") /\ UNCHANGED <<declared, structs>>
UnrollAll == Pass("loops", UnrollLoops(ast, SourceConstants), "locals") /\ UNCHANGED <<declared, structs>>
(* With debug information the locals stay. *)
ReplaceLocals == Pass("locals", LowerLocals(ast), "select") /\ UNCHANGED <<declared, structs>>
KeepLocals == Pass("locals", ast, "select") /\ UNCHANGED <<declared, structs>>

(* The first size to try is 100 where the script needs its size. *)
SelectEntrypoints ==
    /\ stage = "select"
    /\ stage' = IF Selected(ast) = <<>> THEN "refused" ELSE "emit"
    /\ size' = IF ContractUsesScriptSize(ast) THEN 100 ELSE -1
    /\ UNCHANGED <<program, ast, declared, structs, tries, script>>

(* The contract compiled for a size gives a script r. *)
Settled(r) == size \in {-1, ScriptLen(r.s)}
Finish(r) ==
    /\ ~r.fail /\ Settled(r)
    /\ stage' = "done" /\ script' = r.s
    /\ UNCHANGED <<size, tries>>
(* Plausible bugs: the size for the next try counts a trailing byte, or adds to the last size. *)
TryOneMore(r) ==
    /\ ~r.fail /\ ~Settled(r) /\ tries + 1 < MaxIterations
    /\ size' = ScriptLen(r.s) + 1 /\ tries' = tries + 1
    /\ UNCHANGED <<stage, script>>
TryLarger(r) ==
    /\ ~r.fail /\ ~Settled(r) /\ tries + 1 < MaxIterations
    /\ size' = size + ScriptLen(r.s) /\ tries' = tries + 1
    /\ UNCHANGED <<stage, script>>
TryAgain(r) ==
    /\ ~r.fail /\ ~Settled(r) /\ tries + 1 < MaxIterations
    /\ size' = ScriptLen(r.s) /\ tries' = tries + 1
    /\ UNCHANGED <<stage, script>>
GiveUp(r) ==
    /\ r.fail \/ (~Settled(r) /\ tries + 1 = MaxIterations)
    /\ stage' = "refused"
    /\ UNCHANGED <<size, tries, script>>
EmitScript ==
    /\ stage = "emit"
    /\ \E r \in {CompileContract(ast, LoweredConstants, size)} : Finish(r) \/ TryAgain(r) \/ GiveUp(r)
    /\ UNCHANGED <<program, ast, declared, structs>>

Next == \/ InferSizes \/ CheckTypes \/ DeclareCovenants \/ Inline \/ BuildRegistry \/ CheckOutputs \/ TakeStructsApart
        \/ ReplaceAppends \/ UnrollAll \/ ReplaceLocals \/ KeepLocals \/ SelectEntrypoints
        \/ EmitScript
Spec == Init /\ [][Next]_vars

(***************************************************************************)
(* The transactions of the calls.  An input or output is of this contract  *)
(* in a state, or has the state Nothing and another script.                *)
(***************************************************************************)
Values(es) == LET world == World(program.c, [ins |-> <<>>]) IN [i \in DOMAIN es |-> Eval(es[i], <<>>, world)]
Constructed == Values(program.args)
FunctionNamed(c, f) == CHOOSE g \in Range(c.funs) : g.n = f

(* The input that is spent is in the contract's own state. *)
Spending(tx) == [tx EXCEPT !.ins[tx.active + 1].state = StateOf(program.c, Constructed, tx)]

LiteralOf(v) == CASE v.k = "int" -> IntLit(v.v)
                  [] v.k = "bool" -> BoolLit(v.v = 1)
                  [] v.k = "bytes" -> Bytes(v.c)
(* The leaves of a state as the values of the fields of the contract. *)
FieldHolding(d, v) == [d EXCEPT !.e = IF d.t = TByte THEN ByteLit(v.c[1]) ELSE LiteralOf(v)]
Respelled(leaves) == [ast EXCEPT !.fields = [i \in DOMAIN @ |-> FieldHolding(@[i], leaves[i])]]
(* The script with its first bytes after the selector, the code of the fields, replaced by another state's. *)
WithFields(code, from) ==
    ScriptBytes(SubSeq(script, 1, from) \o code \o SubSeq(script, from + Len(code) + 1, Len(script)))
ScriptInState(v) ==
    WithFields(FieldsCode(Respelled(LeafValues(v)), LoweredConstants, size).s, IF NoSelector(ast) THEN 0 ELSE 1)
PayTo(scriptBytes) == <<0, 0, 170, 32>> \o Hash("Blake2b", scriptBytes) \o <<135>>
Paying(io, code) == [io EXCEPT !.spk = PayTo(code), !.sig = <<7>> \o code]
Placed(io) == IF io.state = Nothing THEN [io EXCEPT !.spk = <<9>>] ELSE Paying(io, ScriptInState(io.state))
OnChain(tx) == [tx EXCEPT !.ins = [i \in DOMAIN @ |-> Placed(@[i])], !.outs = [i \in DOMAIN @ |-> Placed(@[i])]]

(***************************************************************************)
(* Properties.                                                             *)
(***************************************************************************)
(* The passes run in their order and the sizes tried stay small and few. *)
TypeOK ==
    /\ program \in Programs
    /\ stage \in {"infer", "check", "covenants", "inline", "registry", "outputs", "structs", "appends", "loops", "locals",
                  "select", "emit", "done", "refused"}
    /\ size \in -1 .. 2000 /\ tries \in 0 .. MaxIterations - 1

(* What a call comes to: accepted or not, and the leaves of what it returns.  A pass may only change the form of  *)
(* the program: after it every call comes to what it does in the source.                                            *)
Come(o) == IF o.ok THEN <<FlattenSeq([i \in DOMAIN o.ret |-> LeafValues(o.ret[i])])>> ELSE <<>>
SourceOutcome(k) == Come(Outcome(declared, Constructed, FunctionNamed(declared, k.f), Values(k.args), Spending(k.tx)))
TakenApart == stage \in {"appends", "loops", "locals", "select", "emit", "done"}
AsLeaves(vs, ps) ==
    IF TakenApart THEN FlattenSeq([i \in DOMAIN vs |-> StoredLeaves(vs[i], ps[i].t, structs)]) ELSE vs
StoredAll(es, ps) == AsLeaves(Values(es), ps)
StageOutcome(k) ==
    Come(Outcome(ast, StoredAll(program.args, declared.params), FunctionNamed(ast, k.f),
                 StoredAll(k.args, FunctionNamed(declared, k.f).params), Spending(k.tx)))
Declares(k) == \E f \in Range(declared.funs) : f.n = k.f
MeaningKept == stage # "refused" => \A k \in program.calls : Declares(k) => SourceOutcome(k) = StageOutcome(k)

(* The script run on what the caller's signature script pushes comes to what the source says: it fails where the   *)
(* source rejects, and otherwise leaves true, or the values that are returned, and nothing below them.               *)
Holds(item, v) == CASE v.k = "int" -> NumOf(item) = v.v
                    [] v.k = "bool" -> Truth(item) = (v.v = 1)
                    [] v.k = "bytes" -> item = v.c
                    [] v.k = "array" -> item = FlattenSeq([i \in DOMAIN v.c |-> IF v.c[i].k = "int" THEN Padded(v.c[i].v, 8) ELSE v.c[i].c])
Ran(stack, tx) == IF stack = <<>> THEN Failed(Start(<<>>)) ELSE Execute(script, stack[1], OnChain(tx))
ScriptOutcome(k) == Ran(SigStack(declared, FunctionNamed(declared, k.f), k.args, structs), Spending(k.tx))
Agree(source, m) ==
    CASE source = <<>> -> m.fail
      [] source = <<<<>>>> -> Accepts(m)
      [] OTHER -> /\ ~m.fail /\ Len(m.st) = Len(source[1])
                  /\ \A i \in DOMAIN m.st : Holds(m.st[Len(m.st) + 1 - i], source[1][i])
ScriptMeans == stage = "done" => \A k \in program.calls : Agree(SourceOutcome(k), ScriptOutcome(k))

(* The compiler compiles what the language accepts and nothing else. *)
RefusesOnlyWrong == (stage = "refused" => ~program.ok) /\ (stage = "done" => program.ok)

(* The sizes that are tried settle before the tries are used up. *)
SettlesInTime == tries + 1 < MaxIterations
=============================================================================
