--------------------------- MODULE SilverCodegen ---------------------------
(***************************************************************************)
(* Code generation for expressions.                                        *)
(*                                                                         *)
(* The generator keeps a count of the temporaries an expression has pushed *)
(* so far, because a named slot is copied from its depth in the layout     *)
(* plus that count.  What an expression compiles to is a sequence of       *)
(* parts: a subexpression, or opcodes with the change the generator makes  *)
(* to its count.  The count is the generator's belief, kept apart from     *)
(* what the opcodes do.                                                    *)
(*                                                                         *)
(* env.bind is the layout, env.types and env.consts as in SilverTypes, and *)
(* env.size the script size being tried, -1 when none is.                  *)
(***************************************************************************)
EXTENDS SilverTypes, SilverStack

Part(x, hide, s, d, fail) == [x |-> x, hide |-> hide, s |-> s, d |-> d, fail |-> fail]
E(x) == Part(x, "", <<>>, 0, FALSE)
O(names, d) == Part(NoExpr, "", Ops(names), d, FALSE)
Push(n) == Part(NoExpr, "", PushNum(n), 1, FALSE)
Data(b) == Part(NoExpr, "", PushData(b), 1, FALSE)
Error == <<Part(NoExpr, "", <<>>, 0, TRUE)>>
OnlyIf(p, parts) == IF p THEN parts ELSE Error
Args(es) == [i \in DOMAIN es |-> E(es[i])]

(* Script bytes of the opcodes the compiler writes as data. *)
OpByte == [Blake2b |-> 170, Equal |-> 135, CheckSig |-> 172, Data32 |-> 32, Return |-> 106]

(* A literal in its packed form: <<bytes>>, or <<>> when it does not fit the type. *)
ByteValues(e) == [i \in DOMAIN e.c |-> e.c[i].v]
BytesOfLength(e, n) == IF IsByteArrayLiteral(e) /\ Len(e.c) = n THEN <<ByteValues(e)>> ELSE <<>>
Joined(parts) == IF <<>> \in Range(parts) THEN <<>> ELSE <<FlattenSeq([i \in DOMAIN parts |-> parts[i][1]])>>
RECURSIVE EncodeFixed(_, _)
EncodeFixed(e, t) ==
    CASE t = TInt -> IF e.k = "int" THEN <<Padded(e.v, 8)>> ELSE <<>>
      [] t \in {TBool, TByte} -> IF e.k = t.b THEN <<<<e.v>>>> ELSE <<>>
      [] ~IsArray(t) /\ t.b \in {"pubkey", "sig", "datasig"} -> BytesOfLength(e, BaseSize(t.b))
      [] IsArray(t) /\ ElementType(t) = TByte /\ Last(t.d).k = "fixed" -> BytesOfLength(e, Last(t.d).v)
      [] IsArray(t) /\ ElementType(t) # TByte /\ Last(t.d).k = "fixed" /\ e.k = "array" /\ Len(e.c) = Last(t.d).v ->
            Joined([i \in DOMAIN e.c |-> EncodeFixed(e.c[i], ElementType(t))])
      [] OTHER -> <<>>
EncodeArray(es, t) == Joined([i \in DOMAIN es |-> EncodeFixed(es[i], ElementType(t))])

ElementParts(e, t) ==
    CASE t = TInt -> <<E(e), Push(8), O(<<"Num2Bin">>, -1)>>
      [] t = TBool -> <<E(Cast(TByteN(1), <<e>>))>>
      [] OTHER -> <<E(e)>>
Elements(es, t) ==
    FlattenSeq([i \in DOMAIN es |-> ElementParts(es[i], t) \o (IF i > 1 THEN <<O(<<"Cat">>, -1)>> ELSE <<>>)])
PackedOrElements(packed, es, t) == IF packed # <<>> THEN <<Data(packed[1])>> ELSE Elements(es, ElementType(t))
TypedArrayParts(es, t) == IF t = NoType THEN Error ELSE PackedOrElements(EncodeArray(es, t), es, t)
ArrayParts(es, env) == IF es = <<>> THEN <<Data(<<>>)>> ELSE TypedArrayParts(es, ArrayRuntimeType(es, env))

IdentifierParts(x, env) ==
    IF x \in DOMAIN env.consts THEN <<Part(env.consts[x], x, <<>>, 0, FALSE)>> ELSE Error

(* Output scripts: a template around the value on top. *)
PayToScriptHash ==
    <<Data(<<0, 0>>), Data(<<OpByte.Blake2b>>), O(<<"Cat">>, -1), Data(<<32>>), O(<<"Cat">>, -1),
      O(<<"Swap", "Cat">>, -1), Data(<<OpByte.Equal>>), O(<<"Cat">>, -1)>>
NumberPushBytes(n) ==
    CASE n = 0 -> <<0>> [] n = -1 -> <<79>> [] n \in 1 .. 16 -> <<80 + n>>
      [] OTHER -> <<Len(NumBytes(n))>> \o NumBytes(n)
DataPushBytes(b) == DataPrefix(Len(b)) \o b
NullDataItem(e) ==
    CASE e.k = "int" -> <<NumberPushBytes(e.v)>>
      [] IsByteArrayLiteral(e) \/ e.k = "string" -> <<DataPushBytes(ByteValues(e))>>
      [] e.k = "cast" /\ e.t = TBytes /\ Len(e.c) = 1 /\ e.c[1].k = "string" -> <<DataPushBytes(ByteValues(e.c[1]))>>
      [] OTHER -> <<>>
NullDataParts(e) ==
    LET script == Joined([i \in DOMAIN e.c |-> NullDataItem(e.c[i])]) IN
    OnlyIf(e.k = "array" /\ script # <<>>, <<Data(<<0, 0, OpByte.Return>> \o script[1])>>)
NewParts(f, es) ==
    CASE Len(es) # 1 -> Error
      [] Len(es) = 1 /\ f = "LockingBytecodeNullData" -> NullDataParts(es[1])
      [] Len(es) = 1 /\ f = "ScriptPubKeyP2PK" ->
            <<E(es[1]), Data(<<0, 0, OpByte.Data32>>), O(<<"Swap", "Cat">>, -1),
              Data(<<OpByte.CheckSig>>), O(<<"Cat">>, -1)>>
      [] Len(es) = 1 /\ f = "ScriptPubKeyP2SH" -> <<E(es[1])>> \o PayToScriptHash
      [] Len(es) = 1 /\ f = "ScriptPubKeyP2SHFromRedeemScript" -> <<E(es[1]), O(<<"Blake2b">>, 0)>> \o PayToScriptHash
      [] OTHER -> Error

BinaryOps == ("||" :> "BoolOr") @@ ("&&" :> "BoolAnd") @@ ("|" :> "Or") @@ ("^" :> "Xor") @@ ("&" :> "And") @@
             ("==" :> "NumEqual") @@ ("!=" :> "NumNotEqual") @@ ("<" :> "LessThan") @@ ("<=" :> "LessThanOrEqual") @@
             (">" :> "GreaterThan") @@ (">=" :> "GreaterThanOrEqual") @@ ("+" :> "Add") @@ ("-" :> "Sub") @@
             ("*" :> "Mul") @@ ("/" :> "Div") @@ ("%" :> "Mod")
ConcatOperand(e, types) ==
    IF ExprIsBytes(e, types) THEN <<E(e)>> ELSE <<E(e), Push(1), O(<<"Num2Bin">>, -1)>>
Normalised == O(<<"Not", "Not", "Swap", "Not", "Not">>, 0)
Compared(op, l, r, bytes, bools) ==
    <<E(l), E(r)>> \o (IF bools THEN <<Normalised>> ELSE <<>>)
    \o <<O(IF bytes THEN IF op = "==" THEN <<"Equal">> ELSE <<"Equal", "Not">> ELSE <<BinaryOps[op]>>, -1)>>
Operated(op, l, r, bytes, bools, types) ==
    CASE op = "+" /\ bytes -> ConcatOperand(l, types) \o ConcatOperand(r, types) \o <<O(<<"Cat">>, -1)>>
      [] op \in {"==", "!="} -> Compared(op, l, r, bytes, bools)
      [] OTHER -> Compared(op, l, r, FALSE, FALSE)
BinaryWith(op, l, r, env) ==
    Operated(op, l, r, ExprIsBytes(l, env.types) \/ ExprIsBytes(r, env.types),
             InferType(l, env) = TBool /\ InferType(r, env) = TBool, env.types)
BinaryParts(op, l, r, env) ==
    BinaryWith(op, l, IF op \in Comparisons THEN CoerceToByte(r, ComparisonType(l, env)) ELSE r, env)

SplitParts(part, e, i) ==
    IF part = "left" THEN <<E(e), E(i), Push(0), O(<<"Swap", "Substr">>, -2)>>
    ELSE <<E(e), O(<<"Size">>, 1), E(i), O(<<"Swap", "Substr">>, -2)>>

(* A name bound to a constant is followed; one on the stack keeps its name. *)
RECURSIVE Resolve(_, _)
Resolve(e, consts) ==
    IF e.k = "id" /\ e.n \in DOMAIN consts THEN Resolve(consts[e.n], Hide(consts, e.n))
    ELSE [e EXCEPT !.c = [i \in DOMAIN e.c |-> Resolve(e.c[i], consts)]]

IndexParts(e, i, env) ==
    LET source == IF e.k = "id" THEN e ELSE Resolve(e, env.consts)
        size == ElementSize(InferType(source, env))
    IN  OnlyIf(size # -1,
            <<E(source), E(i), Push(size), O(<<"Mul">>, -1), O(<<"Dup">>, 1), Push(size), O(<<"Add">>, -1),
              O(<<"Substr">>, -2)>>)

LengthParts(e, env) ==
    LET named == e.k = "id" /\ e.n \in DOMAIN env.types
        t == IF named THEN env.types[e.n] ELSE NoType
    IN  CASE ArraySize(t, env.consts) # -1 -> <<Push(ArraySize(t, env.consts))>>
          [] ArraySize(t, env.consts) = -1 /\ ElementSize(t) # -1 ->
                <<E(e), O(<<"Size", "Swap", "Drop">>, 0), Push(ElementSize(t)), O(<<"Div">>, -1)>>
          [] e.k = "array" -> <<Push(Len(e.c))>>
          [] OTHER -> <<E(e), O(<<"Size", "Swap", "Drop">>, 0)>>

(* The size operators fail when the size is not being compiled for. *)
NullaryParts(op, env) ==
    CASE op = "this.activeInputIndex" -> <<O(<<"TxInputIndex">>, 1)>>
      [] op = "this.activeScriptPubKey" -> <<O(<<"TxInputIndex", "TxInputSpk">>, 1)>>
      [] op = "this.scriptSize" -> OnlyIf(env.size >= 0, <<Push(env.size)>>)
      [] op = "this.scriptSizeDataPrefix" -> OnlyIf(env.size >= 0, <<Data(DataPrefix(env.size))>>)
      [] op = "tx.inputs.length" -> <<O(<<"TxInputCount">>, 1)>>
      [] op = "tx.outputs.length" -> <<O(<<"TxOutputCount">>, 1)>>
      [] op = "tx.version" -> <<O(<<"TxVersion">>, 1)>>
      [] op = "tx.locktime" -> <<O(<<"TxLockTime">>, 1)>>

IntrospectionOps == [InputValue |-> <<"TxInputAmount">>, InputScriptPubKey |-> <<"TxInputSpk">>,
                     InputOutpointTransactionHash |-> <<"OutpointTxId">>, InputOutpointIndex |-> <<"OutpointIndex">>,
                     InputSequenceNumber |-> <<"TxInputSeq">>, OutputValue |-> <<"TxOutputAmount">>,
                     OutputScriptPubKey |-> <<"TxOutputSpk">>]
IntrospectParts(kind, e) ==
    IF kind # "InputSigScript" THEN <<E(e), O(IntrospectionOps[kind], 0)>>
    ELSE <<E(e), O(<<"Dup", "TxInputScriptSigLen">>, 0),
           Part(NoExpr, "", PushNum(0), 0, FALSE), O(<<"Swap", "TxInputScriptSigSubstr">>, 0)>>

(* bytes(x) of what is not bytes packs a number into eight. *)
BytesCallParts(es, env) ==
    LET text == es[1].k = "id" /\ es[1].n \in DOMAIN env.consts /\ env.consts[es[1].n].k = "string" IN
    CASE Len(es) = 2 -> Args(es) \o <<O(<<"Num2Bin">>, -1)>>
      [] Len(es) = 1 /\ text -> <<Data(ByteValues(env.consts[es[1].n]))>>
      [] Len(es) = 1 /\ ~text /\ ExprIsBytes(es[1], env.types) -> Args(es)
      [] Len(es) = 1 /\ ~text /\ ~ExprIsBytes(es[1], env.types) -> Args(es) \o <<Push(8), O(<<"Num2Bin">>, -1)>>
      [] OTHER -> Error

HashOps == [sha256 |-> "SHA256", blake2b |-> "Blake2b"]
CallParts(f, es, env) ==
    CASE f \in DOMAIN OpcodeCalls ->
            OnlyIf(Len(es) = OpcodeCalls[f][2], Args(es) \o <<O(<<OpcodeCalls[f][1]>>, 1 - Len(es))>>)
      [] f \in DOMAIN HashOps -> OnlyIf(Len(es) = 1, Args(es) \o <<O(<<HashOps[f]>>, 0)>>)
      [] f = "bytes" -> OnlyIf(es # <<>>, BytesCallParts(es, env))
      [] f = "length" -> OnlyIf(Len(es) = 1, LengthParts(es[1], env))
      [] f = "checkSig" -> OnlyIf(Len(es) = 2, Args(es) \o <<O(<<"CheckSig">>, -1)>>)
      [] f = "checkSigFromStack" -> OnlyIf(Len(es) = 3, Args(es) \o <<O(<<"CheckSigFromStack">>, -2)>>)
      [] f = "checkSigFromStackECDSA" -> OnlyIf(Len(es) = 3, Args(es) \o <<O(<<"CheckSigFromStackECDSA">>, -2)>>)
      [] OTHER -> Error

(* byte[](x, n): the count is raised by the second argument, and by one more. *)
DynamicBytesParts(es) ==
    IF Len(es) = 2 THEN Args(es) \o <<Part(NoExpr, "", <<>>, 1, FALSE), O(<<"Num2Bin">>, -1)>>
    ELSE OnlyIf(Len(es) = 1, Args(es))
FixedBytesParts(n, es, env) ==
    LET size == CastSize(InferType(es[1], env)) IN
    CASE Len(es) # 1 \/ (size >= 0 /\ size # n) -> Error
      [] size \in {-1, n} -> Args(es)
      [] OTHER -> Args(es) \o <<Push(n), O(<<"Num2Bin">>, -1)>>
CastParts(t, es, env) ==
    CASE t = TBytes -> DynamicBytesParts(es)
      [] IsArray(t) /\ t.b = "byte" /\ t # TBytes ->
            OnlyIf(Len(t.d) = 1 /\ t.d[1].k = "fixed" /\ es # <<>>, FixedBytesParts(t.d[1].v, es, env))
      [] OTHER -> OnlyIf(Len(es) = 1, Args(es))

ExprParts(e, env) ==
    CASE e.k = "int" -> <<Push(e.v)>>
      [] e.k = "bool" -> <<O(<<IF e.v = 1 THEN "True" ELSE "False">>, 1)>>
      [] e.k = "byte" -> <<Data(<<e.v>>)>>
      [] e.k = "string" -> <<Data(ByteValues(e))>>
      [] e.k = "array" -> ArrayParts(e.c, env)
      [] e.k = "id" -> IdentifierParts(e.n, env)
      [] e.k = "unary" -> <<E(e.c[1]), O(<<IF e.n = "!" THEN "Not" ELSE "Negate">>, 0)>>
      [] e.k = "binary" -> BinaryParts(e.n, e.c[1], e.c[2], env)
      [] e.k = "append" -> BinaryParts("+", e.c[1], Array(Tail(e.c)), env)
      [] e.k = "split" -> SplitParts(e.n, e.c[1], e.c[2])
      [] e.k = "slice" -> Args(e.c) \o <<O(<<"Substr">>, -2)>>
      [] e.k = "index" -> IndexParts(e.c[1], e.c[2], env)
      [] e.k = "length" -> LengthParts(e.c[1], env)
      [] e.k = "nullary" -> NullaryParts(e.n, env)
      [] e.k = "introspect" -> IntrospectParts(e.n, e.c[1])
      [] e.k = "call" -> CallParts(e.n, e.c, env)
      [] e.k = "cast" -> CastParts(e.t, e.c, env)
      [] e.k = "new" -> NewParts(e.n, e.c)
      [] OTHER -> Error      \* struct values are lowered before

(* The code of an expression, and the count after it; each arm of a conditional starts from the same count. *)
Code(s, d) == [s |-> s, d |-> d, fail |-> FALSE]
NoCode == [s |-> <<>>, d |-> 0, fail |-> TRUE]
Then(r, q) == IF r.fail \/ q.fail THEN NoCode ELSE Code(r.s \o q.s, q.d)
Branch(cond, yes, no) ==
    Then(Then(Then(Then(cond, Code(Ops(<<"If">>), 0)), yes), Then(Code(Ops(<<"Else">>), 0), no)),
         Code(Ops(<<"EndIf">>), cond.d))
RECURSIVE CompileExpr(_, _, _)
CompilePart(r, p, env) ==
    CASE r.fail \/ p.fail -> NoCode
      [] ~r.fail /\ ~p.fail /\ p.x = NoExpr -> Code(r.s \o p.s, r.d + p.d)
      [] OTHER -> Then(r, CompileExpr(p.x, [env EXCEPT !.consts = Hide(@, p.hide)], r.d))
CompileParts(parts, env, depth) == FoldLeft(LAMBDA r, p : CompilePart(r, p, env), Code(<<>>, depth), parts)
CompileArms(cond, e, env) ==
    LET arm(i) == CompileExpr(e.c[i], env, cond.d - 1) IN Branch(cond, arm(2), arm(3))
CompileExpr(e, env, depth) ==
    CASE e.k = "id" /\ e.n \in Names(env.bind) -> Code(CopyToTop(env.bind, e.n, depth), depth + 1)
      [] e.k = "ifelse" -> CompileArms(CompileExpr(e.c[1], env, depth), e, env)
      [] OTHER -> CompileParts(ExprParts(e, env), env, depth)
Compile(e, env) == CompileExpr(e, env, 0)
=============================================================================
