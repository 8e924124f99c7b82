---------------------------- MODULE SilverContract ----------------------------
(***************************************************************************)
(* The script of a contract: the pushes of its state, then its one         *)
(* entrypoint, or a selection among several by the number the signature    *)
(* script leaves on top.  The script's own size may be needed inside it,   *)
(* so it is compiled for a size that is tried.  Here c is lowered, and     *)
(* c.structs maps the names of its structs to their fields.                *)
(***************************************************************************)
EXTENDS SilverStatements

Selected(c) == SelectSeq(c.funs, LAMBDA f : f.entry)

(* The state prolog: fixed-size fields packed, others as the expressions they are. *)
FieldCode(c, i, consts, size) ==
    LET f == c.fields[i]
        value == Resolve(f.e, consts)
        packed == EncodeFixed(value, f.t)
        env == [bind |-> <<>>, types |-> Typed(SubSeq(c.fields, 1, i - 1)), consts |-> consts, size |-> size]
    IN  CASE FixedSize(f.t, consts) = -1 -> Compile(value, env)
          [] FixedSize(f.t, consts) # -1 /\ packed = <<>> -> NoCode
          [] OTHER -> Code(PushData(packed[1]), 0)
Joint(codes) ==
    IF \E i \in DOMAIN codes : codes[i].fail THEN NoCode ELSE Code(FlattenSeq([i \in DOMAIN codes |-> codes[i].s]), 0)
FieldsCode(c, consts, size) == Joint([i \in DOMAIN c.fields |-> FieldCode(c, i, consts, size)])

(* At entry the last field is on top, then the other fields, then the parameters, the last one first. *)
EntryEnv(c, f, prefix, consts, size) ==
    LET names(ps) == Reverse([i \in DOMAIN ps |-> ps[i].n])
    IN  [bind |-> names(c.fields) \o names(f.params), consts |-> consts, size |-> size,
         types |-> Typed(c.fields) @@ Typed(f.params) @@ Typed(c.consts) @@ Typed(c.params),
         fields |-> c.fields, prefix |-> prefix, structs |-> c.structs]

Repeated(code, n) == FlattenSeq([i \in 1 .. n |-> code])
Bury(k, n) == Repeated(PushNum(k) \o Ops(<<"Roll", "Drop">>), n)
(* What an entrypoint returns stays, above whatever the body left. *)
Leaving(body, results, n, params) ==
    LET extra == Len(body.env.bind) - params IN
    CASE body.fail \/ results.fail -> NoCode
      [] ~(body.fail \/ results.fail) /\ n = 0 ->
            Code(body.s \o Bury(0, extra) \o Repeated(Ops(<<"Drop">>), params) \o Ops(<<"True">>), 0)
      [] OTHER -> Code(body.s \o results.s \o Bury(n, extra + params), 0)
WithResults(body, returns, params) ==
    Leaving(body, CompileParts(Args(returns), body.env, 0), Len(returns), params)
CompileEntrypoint(f, env) ==
    LET returns == FlattenSeq([i \in DOMAIN f.body |-> IF f.body[i].k = "return" THEN f.body[i].c ELSE <<>>])
    IN  WithResults(CompileBlock(SelectSeq(f.body, LAMBDA s : s.k # "return"), env), returns, Len(env.bind))

(* The state is laid out once, before the selection, with the selector kept aside. *)
Dispatch(codes) ==
    LET n == Len(codes)
        branch(i) == Ops(<<"Dup">>) \o PushNum(i - 1) \o Ops(<<"NumEqual", "If", "Drop">>) \o codes[i].s
                     \o Ops(<<"Else">>) \o (IF i = n THEN Ops(<<"Drop", "False", "Verify">>) ELSE <<>>)
    IN  FlattenSeq([i \in 1 .. n |-> branch(i)]) \o Repeated(Ops(<<"EndIf">>), n)

NoSelector(c) == Len(Selected(c)) = 1
Assembled(c, fields, codes) ==
    IF codes = <<>> \/ fields.fail \/ \E i \in DOMAIN codes : codes[i].fail
    THEN [fail |-> TRUE, s |-> <<>>, start |-> 0, len |-> 0]
    ELSE [fail |-> FALSE, start |-> IF NoSelector(c) THEN 0 ELSE 1, len |-> ScriptLen(fields.s),
          s |-> IF NoSelector(c) THEN fields.s \o codes[1].s
                ELSE Ops(<<"ToAltStack">>) \o fields.s \o Ops(<<"FromAltStack">>) \o Dispatch(codes)]
WithEntrypoints(c, fields, consts, size) ==
    LET entries == Selected(c)
        prefix == (IF NoSelector(c) THEN 0 ELSE 1) + ScriptLen(fields.s)
    IN  Assembled(c, fields,
                  [i \in DOMAIN entries |-> CompileEntrypoint(entries[i], EntryEnv(c, entries[i], prefix, consts, size))])
CompileContract(c, consts, size) == WithEntrypoints(c, FieldsCode(c, consts, size), consts, size)

(* What a caller pushes: each leaf of each argument in order, then the selector if there is one. *)
PushedLeaf(e, t) ==
    CASE ~LiteralMatchesType(e, t) -> <<>>
      [] LiteralMatchesType(e, t) /\ IsArray(t) ->
            IF IsByteArrayLiteral(e) THEN <<ByteValues(e)>> ELSE EncodeArray(e.c, t)
      [] OTHER -> CASE e.k \in {"int", "bool"} -> <<NumBytes(e.v)>>
                    [] e.k = "byte" -> <<<<e.v>>>>
                    [] OTHER -> <<ByteValues(e)>>
RECURSIVE PushedLeaves(_, _, _)
(* Every leaf is <<bytes>>, or <<>> where the argument does not match the type. *)
PushedLeaves(e, t, structs) ==
    LET fields == structs[t.b]
        column(i) == Array([j \in DOMAIN e.c |-> FieldValue(e.c[j], fields[i])])
    IN  CASE IsStruct(t, structs) ->
                IF ~IsObjectOf(e, fields) THEN <<<<>>>>
                ELSE FlattenSeq([i \in DOMAIN fields |->
                                    PushedLeaves(FieldValue(e, fields[i]), fields[i].t, structs)])
          [] IsArray(t) /\ IsStruct(ElementType(t), structs) ->
                IF e.k # "array" \/ \E j \in DOMAIN e.c : ~IsObjectOf(e.c[j], fields) THEN <<<<>>>>
                ELSE FlattenSeq([i \in DOMAIN fields |->
                                    PushedLeaves(column(i), ArrayOf(fields[i].t, Dynamic), structs)])
          [] OTHER -> <<PushedLeaf(e, t)>>

(* The stack a signature script leaves, top first; <<>> stands for a call that cannot be built. *)
SigStack(c, f, args, structs) ==
    LET leaves == FlattenSeq([i \in DOMAIN args |-> PushedLeaves(args[i], f.params[i].t, structs)])
        selector == IF NoSelector(c) THEN <<>> ELSE <<NumBytes(IndexOf(Selected(c), f) - 1)>>
    IN  IF Len(args) # Len(f.params) \/ <<>> \in Range(leaves) THEN <<>>
        ELSE <<selector \o Reverse([i \in DOMAIN leaves |-> leaves[i][1]])>>
=============================================================================
