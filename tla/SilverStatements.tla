-------------------------- MODULE SilverStatements --------------------------
(***************************************************************************)
(* Code generation for statements.                                         *)
(*                                                                         *)
(* env is the expression generator's environment with the contract's state *)
(* fields, the offset just after them in the script (env.prefix) and the   *)
(* structs.  A statement yields its code, the environment after it and the *)
(* names it put on the stack.                                              *)
(***************************************************************************)
EXTENDS SilverCodegen

Emitted(s, env, added) == [s |-> s, env |-> env, added |-> added, fail |-> FALSE]
NotEmitted(env) == [s |-> <<>>, env |-> env, added |-> <<>>, fail |-> TRUE]
Emit(code, tail, env) == IF code.fail THEN NotEmitted(env) ELSE Emitted(code.s \o tail, env, <<>>)
Follow(r, q) == IF q.fail THEN q ELSE Emitted(r.s \o q.s, q.env, r.added \o q.added)

(* A new stack slot.  Its type is known to its own initializer. *)
TopSlot(x, code, env, typed) ==
    IF x \in Names(env.bind) \/ code.fail THEN NotEmitted(env)
    ELSE Emitted(code.s, [typed EXCEPT !.bind = PushBinding(@, x)], <<x>>)
DefineOnStack(x, t, e, env) ==
    LET typed == [env EXCEPT !.types = (x :> t) @@ @] IN TopSlot(x, Compile(e, typed), env, typed)
DefineAll(defs, env) ==
    FoldLeft(LAMBDA r, d : IF r.fail THEN r ELSE Follow(r, DefineOnStack(d.n, d.t, d.e, r.env)),
             Emitted(<<>>, env, <<>>), defs)

(* What a literal may stand for.  Under a fixed size the elements of any byte type are taken for single bytes. *)
RECURSIVE LiteralMatchesType(_, _)
LiteralMatchesType(e, t) ==
    LET elements == e.k = "array" /\ \A i \in DOMAIN e.c : LiteralMatchesType(e.c[i], ElementType(t)) IN
    CASE IsArray(t) /\ Last(t.d).k = "fixed" ->
            Len(e.c) = Last(t.d).v /\ (IF t.b = "byte" THEN IsByteArrayLiteral(e) ELSE elements)
      [] IsArray(t) /\ Last(t.d).k # "fixed" -> IsByteArrayLiteral(e) \/ elements
      [] t \in {TInt, TBool, TString, TByte} -> e.k = t.b
      [] ~IsArray(t) /\ t.b \in {"pubkey", "sig", "datasig"} -> IsByteArrayLiteral(e) /\ Len(e.c) = BaseSize(t.b)
      [] OTHER -> FALSE
LiteralMatches(es, t, env) ==
    /\ ArraySize(t, env.consts) \in {-1, Len(es)}
    /\ \A i \in DOMAIN es :
          IF es[i].k = "id"
          THEN es[i].n \in DOMAIN env.types /\ Assignable(env.types[es[i].n], ElementType(t), env.consts)
          ELSE LiteralMatchesType(es[i], ElementType(t))

(* T[_] takes its length from an array literal or from an array of known length. *)
InferredType(t, e, env) ==
    LET sized(n) == ArrayOf(ElementType(t), Fixed(n))
        other == IF e.k = "id" /\ e.n \in DOMAIN env.types THEN env.types[e.n] ELSE NoType
    IN  CASE e.k = "array" /\ LiteralMatches(e.c, sized(Len(e.c)), env) -> sized(Len(e.c))
          [] IsArray(other) /\ ElementType(other) = ElementType(t) /\ ArraySize(other, env.consts) # -1 ->
                sized(ArraySize(other, env.consts))
          [] OTHER -> NoType

CompileVarDef(s, env) ==
    LET e == IF s.c = <<>> THEN Array(<<>>) ELSE s.c[1]
        t == IF IsArray(s.t) /\ Last(s.t.d).k = "inferred" THEN InferredType(s.t, e, env) ELSE s.t
    IN  CASE t = NoType \/ (~IsArray(t) /\ s.c = <<>>) -> NotEmitted(env)
          [] IsArray(t) /\ e.k = "id" /\ ~(e.n \in DOMAIN env.types /\ Assignable(env.types[e.n], t, env.consts)) ->
                NotEmitted(env)
          [] OTHER -> DefineOnStack(s.n, t, CoerceToByte(e, t), env)

CompileTuple(s, env) ==
    LET e == s.c[1]
        part(i, side) == Define(s.p[i].n, s.p[i].t, Split(side, e.c[1], e.c[2]))
    IN  IF e.k # "split" THEN NotEmitted(env) ELSE DefineAll(<<part(1, "left"), part(2, "right")>>, env)

Reassigned(x, code, env) ==
    IF x \notin DOMAIN env.types \/ x \notin Names(env.bind) \/ code.fail THEN NotEmitted(env)
    ELSE Emitted(code.s \o UpdateForRebinding(env.bind, x), [env EXCEPT !.bind = MoveToTop(@, x)], <<>>)
CompileAssign(s, env) == Reassigned(s.n, Compile(CoerceToByte(s.c[1], env.types[s.n]), env), env)

(* State in a script: each field is a push of its fixed-size encoding. *)
ChunkSize(t, consts) == DataPrefixLen(FixedSize(t, consts)) + FixedSize(t, consts)
Encodable(types, consts) == \A i \in DOMAIN types : FixedSize(types[i], consts) # -1
StateLen(types, consts) == FoldLeft(LAMBDA n, t : n + ChunkSize(t, consts), 0, types)

StateStart(env) == env.prefix - StateLen(TypesOf(env.fields), env.consts)

(* Reading field i of a state in a script of the given size, at the end of a signature script; at[k] is the      *)
(* offset in the script of the state's byte k.                                                                     *)
Plus(a, b) == Binary("+", a, b)
ScriptBase(idx, size) == Binary("-", Call("OpTxInputScriptSigLen", <<idx>>), size)
SigSubstr(idx, from, to) == Call("OpTxInputScriptSigSubstr", <<idx, from, to>>)
ReadField(idx, types, i, at, size, consts) ==
    LET len == FixedSize(types[i], consts)
        payload == StateLen(SubSeq(types, 1, i - 1), consts) + DataPrefixLen(len)
        from == Plus(ScriptBase(idx, size), at[payload])
    IN  Cast(types[i], <<SigSubstr(idx, from, Plus(from, IntLit(len)))>>)

ReadFields(bindings, fields, idx, at, size, env) ==
    LET types == TypesOf(fields) IN
    DefineAll([i \in DOMAIN fields |-> Define(BoundName(bindings, fields[i].n), types[i],
                                              ReadField(idx, types, i, at, size, env.consts))], env)

CompileReadInputState(s, env) ==
    IF \/ Len(s.c) # 1 \/ env.fields = <<>> \/ env.size < 0
       \/ ~BindsEach(s.p, env.fields) \/ ~Encodable(TypesOf(env.fields), env.consts) \/ StateStart(env) < 0
    THEN NotEmitted(env)
    ELSE LET at == [k \in 0 .. env.prefix |-> IntLit(StateStart(env) + k)] IN
         ReadFields(s.p, env.fields, s.c[1], at, IntLit(env.size), env)

(* A foreign script is its template's prefix, the state and the suffix; it must hash to the template and be the    *)
(* script the input pays to.                                                                                       *)
TemplateParts(idx, prefix, suffix, hash, types, env) ==
    LET size == Plus(Plus(prefix, IntLit(StateLen(types, env.consts))), suffix)
        base == ScriptBase(idx, size)
        prefixEnd == Plus(base, prefix)
        suffixStart == Plus(prefixEnd, IntLit(StateLen(types, env.consts)))
        template == Plus(SigSubstr(idx, base, prefixEnd), SigSubstr(idx, suffixStart, Plus(suffixStart, suffix)))
        spk == New("ScriptPubKeyP2SHFromRedeemScript", <<SigSubstr(idx, base, Plus(base, size))>>)
    IN  <<E(Introspect("InputScriptPubKey", idx)), E(spk), O(<<"Equal", "Verify">>, -2),
          E(template), E(hash), O(<<"Swap", "Blake2b", "Equal", "Verify">>, -2)>>

StructsBoundBy(bindings, structs) == {n \in DOMAIN structs : BindsEach(bindings, structs[n])}
CheckedRead(check, reads, env) ==
    IF check.fail \/ reads.fail THEN NotEmitted(env) ELSE Emitted(check.s \o reads.s, reads.env, reads.added)
CompileReadWithTemplate(s, env) ==
    LET candidates == StructsBoundBy(s.p, env.structs)
        name == CHOOSE n \in candidates : TRUE
        types == LeafTypes(TypeRef(name, <<>>), env.structs)
        size == Plus(Plus(s.c[2], IntLit(StateLen(types, env.consts))), s.c[3])
        at == [k \in 0 .. StateLen(types, env.consts) |-> Plus(s.c[2], IntLit(k))]
    IN  IF Len(s.c) # 4 \/ Cardinality(candidates) # 1 \/ types = <<>> \/ ~Encodable(types, env.consts)
        THEN NotEmitted(env)
        ELSE CheckedRead(CompileParts(TemplateParts(s.c[1], s.c[2], s.c[3], s.c[4], types, env), env, 0),
                         ReadFields(s.p, env.structs[name], s.c[1], at, size, env), env)

(* Packing new state: numbers and booleans into their width, each value behind the push of its length.            *)
EncodedField(e, env) ==
    LET t == InferType(e, env)
        size == FixedSize(t, env.consts)
        pack == IF t \in {TInt, TBool} THEN <<Push(size), O(<<"Num2Bin">>, -1)>> ELSE <<>>
    IN  OnlyIf(t # NoType /\ size # -1, <<E(e)>> \o pack \o <<Data(DataPrefix(size)), O(<<"Swap", "Cat">>, -1)>>)
EncodedState(es, env) ==
    FlattenSeq([i \in DOMAIN es |-> EncodedField(es[i], env)]) \o [i \in 1 .. Len(es) - 1 |-> O(<<"Cat">>, -1)]

HashToOutput(output) ==
    <<O(<<"Blake2b">>, 0)>> \o PayToScriptHash \o <<E(output), O(<<"TxOutputSpk", "Equal", "Verify">>, -2)>>

(* This script with the new state in place of the old must be what the output pays to. *)
CompileValidateOutputState(es, env) ==
    LET before == <<O(<<"TxInputIndex">>, 1), O(<<"Dup", "TxInputScriptSigLen">>, 1), Push(env.size), O(<<"Sub">>, -1),
                    O(<<"Dup">>, 1), Push(StateStart(env)), O(<<"Add">>, -1),
                    O(<<"TxInputScriptSigSubstr">>, -2), O(<<"Swap", "Cat">>, -1)>>
        after == <<O(<<"TxInputIndex">>, 1), O(<<"Dup", "TxInputScriptSigLen">>, 1), O(<<"Dup">>, 1), Push(env.size),
                   O(<<"Sub">>, -1), Push(env.prefix), O(<<"Add">>, -1),
                   O(<<"Swap", "TxInputScriptSigSubstr">>, -2), O(<<"Cat">>, -1)>>
    IN  IF \/ Len(es) # Len(env.fields) + 1 \/ env.fields = <<>> \/ env.size < 0
           \/ ~Encodable(TypesOf(env.fields), env.consts) \/ StateStart(env) < 0
        THEN NoCode
        ELSE CompileParts(EncodedState(Tail(es), env) \o (IF StateStart(env) > 0 THEN before ELSE <<>>)
                          \o after \o HashToOutput(es[1]), env, 0)

(* The template's parts, checked against its hash, around the new state. *)
CompileValidateWithTemplate(es, env) ==
    LET n == Len(es)
        prefix == E(es[n - 2])
        suffix == E(es[n - 1])
        check == <<prefix, suffix, O(<<"Cat">>, -1), E(es[n]), O(<<"Swap", "Blake2b", "Equal", "Verify">>, -2)>>
        script == EncodedState(SubSeq(es, 2, n - 3), env)
                  \o <<prefix, O(<<"Swap", "Cat">>, -1), suffix, O(<<"Cat">>, -1)>> \o HashToOutput(es[1])
    IN  IF n < 5 THEN NoCode ELSE Then(CompileParts(check, env, 0), CompileParts(script, env, 0))

CompileCallStatement(s, env) ==
    CASE s.n = "__validateOutputStateInner" -> Emit(CompileValidateOutputState(s.c, env), <<>>, env)
      [] s.n = "__validateOutputStateWithTemplateInner" -> Emit(CompileValidateWithTemplate(s.c, env), <<>>, env)
      [] OTHER -> NotEmitted(env)

TimeOps == ("this.age" :> "CheckSequenceVerify") @@ ("tx.time" :> "CheckLockTimeVerify")

(* A block drops the slots it added, wherever they are by then. *)
Scoped(r) ==
    LET drop == DropBindings(r.env.bind, Range(r.added)) IN
    IF r.fail THEN r
    ELSE Emitted(r.s \o drop.code,
                 [r.env EXCEPT !.bind = drop.layout, !.types = [x \in DOMAIN @ \ Range(r.added) |-> @[x]]], <<>>)

(* Both arms leave the layout of the first one; without an else the arm restores the layout before. *)
Conditional(cond, th, tail, env) == Emitted(cond.s \o Ops(<<"If">>) \o th.s \o tail \o Ops(<<"EndIf">>), env, <<>>)
WithoutElse(cond, th, env) ==
    IF cond.fail \/ th.fail THEN NotEmitted(env) ELSE Conditional(cond, th, Reordering(th.env.bind, env.bind), env)
WithElse(cond, th, el, env) ==
    IF cond.fail \/ th.fail \/ el.fail THEN NotEmitted(env)
    ELSE [Conditional(cond, th, Ops(<<"Else">>) \o el.s \o Reordering(el.env.bind, th.env.bind), env)
            EXCEPT !.env.bind = th.env.bind]

RECURSIVE CompileStatement(_, _)
CompileBlock(ss, env) ==
    FoldLeft(LAMBDA r, x : IF r.fail THEN r ELSE Follow(r, CompileStatement(x, r.env)), Emitted(<<>>, env, <<>>), ss)
CompileStatement(s, env) ==
    LET block(i) == Scoped(CompileBlock(s.b[i], env)) IN
    CASE s.k = "def" -> CompileVarDef(s, env)
      [] s.k = "require" -> Emit(Compile(s.c[1], env), Ops(<<"Verify">>), env)
      [] s.k = "time" -> Emit(Compile(s.c[1], env), Ops(<<TimeOps[s.n]>>), env)
      [] s.k = "block" -> block(1)
      [] s.k = "if" -> IF Len(s.b) = 1 THEN WithoutElse(Compile(s.c[1], env), block(1), env)
                       ELSE WithElse(Compile(s.c[1], env), block(1), block(2), env)
      [] s.k = "tuple" -> CompileTuple(s, env)
      [] s.k = "assign" -> CompileAssign(s, env)
      [] s.k = "call" -> CompileCallStatement(s, env)
      [] s.k = "statecall" /\ s.n = "readInputState" -> CompileReadInputState(s, env)
      [] s.k = "statecall" /\ s.n = "readInputStateWithTemplate" -> CompileReadWithTemplate(s, env)
      [] s.k = "console" -> Emitted(<<>>, env, <<>>)
      [] OTHER -> NotEmitted(env)      \* calls, loops and destructuring are lowered before
=============================================================================
