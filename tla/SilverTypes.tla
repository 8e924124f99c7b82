---------------------------- MODULE SilverTypes ----------------------------
(***************************************************************************)
(* The type the code generator gives an expression, the expressions it     *)
(* takes for bytes, and the array types it reads off an initializer.       *)
(*                                                                         *)
(* env.types maps the names in scope to types and env.consts the constants *)
(* to expressions.  NoType stands for a type that cannot be inferred.      *)
(***************************************************************************)
EXTENDS SilverAst

(* Builtins that are one opcode: the opcode and the arguments it takes. *)
OpcodeCalls ==
    [OpSha256 |-> <<"SHA256", 1>>, OpTxSubnetId |-> <<"TxSubnetId", 0>>, OpTxGas |-> <<"TxGas", 0>>,
     OpTxPayloadLen |-> <<"TxPayloadLen", 0>>, OpTxPayloadSubstr |-> <<"TxPayloadSubstr", 2>>,
     OpOutpointTxId |-> <<"OutpointTxId", 1>>, OpOutpointIndex |-> <<"OutpointIndex", 1>>,
     OpTxInputScriptSigLen |-> <<"TxInputScriptSigLen", 1>>,
     OpTxInputScriptSigSubstr |-> <<"TxInputScriptSigSubstr", 3>>,
     OpTxInputSeq |-> <<"TxInputSeq", 1>>, OpTxInputDaaScore |-> <<"TxInputDaaScore", 1>>,
     OpTxInputIsCoinbase |-> <<"TxInputIsCoinbase", 1>>, OpTxInputSpkLen |-> <<"TxInputSpkLen", 1>>,
     OpTxInputSpkSubstr |-> <<"TxInputSpkSubstr", 3>>, OpTxOutputSpkLen |-> <<"TxOutputSpkLen", 1>>,
     OpTxOutputSpkSubstr |-> <<"TxOutputSpkSubstr", 3>>, OpAuthOutputCount |-> <<"AuthOutputCount", 1>>,
     OpAuthOutputIdx |-> <<"AuthOutputIdx", 2>>, OpInputCovenantId |-> <<"InputCovenantId", 1>>,
     OpOutputCovenantId |-> <<"OutputCovenantId", 1>>, OpCovInputCount |-> <<"CovInputCount", 1>>,
     OpCovInputIdx |-> <<"CovInputIdx", 2>>, OpCovOutputCount |-> <<"CovOutputCount", 1>>,
     OpCovOutputIdx |-> <<"CovOutputIdx", 2>>, OpNum2Bin |-> <<"Num2Bin", 2>>, OpBin2Num |-> <<"Bin2Num", 1>>,
     OpChainblockSeqCommit |-> <<"ChainblockSeqCommit", 1>>]

IntCalls == {"OpBin2Num", "OpTxInputDaaScore", "OpTxGas", "OpTxPayloadLen", "OpTxInputIndex",
             "OpTxInputScriptSigLen", "OpTxInputSpkLen", "OpOutpointIndex", "OpTxOutputSpkLen",
             "OpAuthOutputCount", "OpAuthOutputIdx", "OpCovInputCount", "OpCovInputIdx",
             "OpCovOutputCount", "OpCovOutputIdx"}
HashCalls == {"blake2b", "sha256", "OpSha256", "OpInputCovenantId", "OpOutputCovenantId"}
BuiltinCallType(f) ==
    CASE f \in IntCalls -> TInt
      [] f \in {"OpTxInputIsCoinbase", "checkSig", "checkSigFromStack", "checkSigFromStackECDSA"} -> TBool
      [] f \in HashCalls -> TByteN(32)
      [] OTHER -> TBytes

NullaryType(op) == IF op \in {"this.activeScriptPubKey", "this.scriptSizeDataPrefix"} THEN TBytes ELSE TInt
BytesIntrospections == {"InputScriptPubKey", "InputSigScript", "InputOutpointTransactionHash", "OutputScriptPubKey"}
IntrospectionType(kind) == IF kind \in BytesIntrospections THEN TBytes ELSE TInt

Comparisons == {"==", "!=", "<", "<=", ">", ">="}

SumType(l, r) ==
    CASE l = NoType \/ r = NoType -> NoType
      [] TString \in {l, r} -> TString
      [] TByte \in {l, r} -> TInt
      [] IsBytesType(l) -> l
      [] IsBytesType(r) -> r
      [] OTHER -> TInt

Hide(f, x) == [y \in DOMAIN f \ {x} |-> f[y]]

RECURSIVE InferType(_, _)
(* A name being followed is hidden from the constants, so that a cycle has no type. *)
InferType(e, env) ==
    LET of(i) == InferType(e.c[i], env) IN
    CASE e.k \in {"int", "length"} -> TInt
      [] e.k = "bool" -> TBool
      [] e.k = "byte" -> TByte
      [] e.k = "string" -> TString
      [] e.k = "id" /\ e.n \in DOMAIN env.types -> env.types[e.n]
      [] e.k = "id" /\ e.n \notin DOMAIN env.types /\ e.n \in DOMAIN env.consts ->
            InferType(env.consts[e.n], [env EXCEPT !.consts = Hide(@, e.n)])
      [] e.k = "unary" -> IF e.n = "!" THEN TBool ELSE TInt
      [] e.k = "binary" /\ e.n \in Comparisons \cup {"||", "&&"} -> TBool
      [] e.k = "binary" /\ e.n = "+" -> SumType(of(1), of(2))
      [] e.k = "binary" /\ e.n \in {"|", "^", "&"} ->
            IF NoType \in {of(1), of(2)} THEN NoType
            ELSE IF of(1) = of(2) /\ IsBytesType(of(1)) THEN of(1) ELSE TInt
      [] e.k = "binary" /\ e.n \in {"-", "*", "/", "%"} -> TInt
      [] e.k = "ifelse" ->
            IF NoType \in {of(2), of(3)} THEN NoType
            ELSE IF of(2) = of(3) \/ (IsBytesType(of(2)) /\ IsBytesType(of(3))) THEN of(2) ELSE TBytes
      [] e.k = "array" -> IF IsByteArrayLiteral(e) THEN TByteN(Len(e.c)) ELSE TBytes
      [] e.k \in {"split", "slice", "new"} -> TBytes
      [] e.k = "append" -> of(1)
      [] e.k = "index" -> IF IsArray(of(1)) THEN ElementType(of(1)) ELSE TBytes
      [] e.k = "nullary" -> NullaryType(e.n)
      [] e.k = "introspect" -> IntrospectionType(e.n)
      [] e.k = "cast" -> e.t
      [] e.k = "call" -> BuiltinCallType(e.n)
      [] OTHER -> NoType

(* The type a comparison relies on: a call counts only when its result type is certain. *)
CertainCalls == (DOMAIN OpcodeCalls \ {"OpTxInputDaaScore"}) \cup {"bytes", "blake2b", "sha256", "OpTxInputIndex",
                 "checkSigFromStack", "checkSigFromStackECDSA"}
ComparisonType(e, env) ==
    IF e.k = "call" /\ e.n \notin CertainCalls THEN NoType ELSE InferType(e, env)

BytesCalls == {"bytes", "blake2b", "sha256", "OpSha256", "OpTxSubnetId", "OpTxPayloadSubstr", "OpOutpointTxId",
               "OpTxInputScriptSigSubstr", "OpTxInputSeq", "OpTxInputSpkSubstr", "OpTxOutputSpkSubstr",
               "OpInputCovenantId", "OpOutputCovenantId", "OpNum2Bin", "OpChainblockSeqCommit"}
RECURSIVE ExprIsBytes(_, _)
ExprIsBytes(e, types) ==
    CASE e.k \in {"byte", "string", "array", "slice", "split", "new"} -> TRUE
      [] e.k = "call" -> e.n \in BytesCalls
      [] e.k = "cast" -> e.t.b = "byte" /\ IsArray(e.t)
      [] e.k = "binary" -> e.n = "+" /\ (ExprIsBytes(e.c[1], types) \/ ExprIsBytes(e.c[2], types))
      [] e.k = "ifelse" -> ExprIsBytes(e.c[2], types) /\ ExprIsBytes(e.c[3], types)
      [] e.k = "introspect" -> e.n \in BytesIntrospections
      [] e.k = "nullary" -> NullaryType(e.n) = TBytes
      [] e.k = "index" -> /\ e.c[1].k = "id" /\ e.c[1].n \in DOMAIN types
                          /\ IsArray(types[e.c[1].n]) /\ ElementType(types[e.c[1].n]) # TInt
      [] e.k = "id" -> e.n \in DOMAIN types /\ IsBytesType(types[e.n])
      [] OTHER -> FALSE

(* Small integer literals stand for bytes where a byte is declared or compared with. *)
CoerceToByte(e, t) == IF t = TByte /\ e.k = "int" /\ e.v \in 0 .. 255 THEN ByteLit(e.v) ELSE e

(* The type literals of a fixed size have, and the array they make: the type they share, if its size is known. *)
SharedType(ts) == IF TypeSize(ts[1]) # -1 /\ Range(ts) = {ts[1]} THEN ts[1] ELSE NoType
RECURSIVE LiteralType(_)
LiteralType(e) ==
    CASE e.k = "int" -> TInt
      [] e.k = "bool" -> TBool
      [] e.k = "byte" -> TByte
      [] IsByteArrayLiteral(e) -> TByteN(Len(e.c))
      [] e.k = "array" /\ ~IsByteArrayLiteral(e) -> SharedType([i \in DOMAIN e.c |-> LiteralType(e.c[i])])
      [] OTHER -> NoType
ArrayOfFirst(types) ==
    LET known == SelectSeq(types, LAMBDA t : t # NoType) IN
    IF known = <<>> THEN NoType ELSE ArrayOf(known[1], Dynamic)
ArrayRuntimeType(es, env) ==
    ArrayOfFirst(<<SharedType([i \in DOMAIN es |-> LiteralType(es[i])]),
                   SharedType([i \in DOMAIN es |-> InferType(es[i], env)])>>)
=============================================================================
