---------------------------- MODULE SilverStack ----------------------------
(***************************************************************************)
(* The script machine the compiler emits code for, as the compiler uses    *)
(* it: items are byte strings, numbers are little-endian with a sign bit,  *)
(* the builder chooses the shortest push for a number and a plain push for *)
(* data, and a run fails on a false Verify, a missing item or a range.     *)
(* Stacks are written top first.  A hash is an injective tag of its input. *)
(***************************************************************************)
EXTENDS SilverBindings, TLC

Abs(n) == IF n < 0 THEN -n ELSE n

RECURSIVE LittleEndian(_)
LittleEndian(n) == IF n = 0 THEN <<>> ELSE <<n % 256>> \o LittleEndian(n \div 256)

(* The shortest encoding of a number: the last byte carries the sign. *)
NumBytes(n) ==
    LET b == LittleEndian(Abs(n)) IN
    IF n = 0 THEN <<>>
    ELSE IF Last(b) >= 128 THEN b \o <<IF n < 0 THEN 128 ELSE 0>>
    ELSE IF n < 0 THEN Front(b) \o <<Last(b) + 128>>
    ELSE b

RECURSIVE Unsigned(_)
Unsigned(b) == IF b = <<>> THEN 0 ELSE Head(b) + 256 * Unsigned(Tail(b))

IsNum(b) == Len(b) <= 8 /\ \A i \in DOMAIN b : b[i] <= 255

NumOf(b) ==
    IF b = <<>> THEN 0
    ELSE IF Last(b) >= 128 THEN -Unsigned(Front(b) \o <<Last(b) - 128>>)
    ELSE Unsigned(b)

Truth(b) == \E i \in DOMAIN b : b[i] # 0 /\ ~(i = Len(b) /\ b[i] = 128)
BoolBytes(p) == IF p THEN <<1>> ELSE <<>>

Zeros(n) == [i \in 1 .. n |-> 0]
(* The number in exactly size bytes; longer than size is an error of the caller. *)
Padded(n, size) ==
    LET b == NumBytes(n)
        sign == IF n < 0 THEN 128 ELSE 0
        abs == IF b = <<>> THEN b ELSE Front(b) \o <<Last(b) - sign>>
    IN  IF Len(b) = size THEN b
        ELSE abs \o Zeros(size - Len(b) - 1) \o <<sign>>

Hash(name, b) == <<IF name = "Blake2b" THEN 300 ELSE 301>> \o b
SignatureOf(key) == <<302>> \o key   \* of this transaction, by the key's owner

DataPrefixLen(len) == IF len <= 75 THEN 1 ELSE IF len <= 255 THEN 2 ELSE 3
DataPrefix(len) == IF len <= 75 THEN <<len>> ELSE <<76, len>>
OpLen(i) ==
    CASE i.op = "num" -> IF i.n \in -1 .. 16 THEN 1 ELSE 1 + Len(NumBytes(i.n))
      [] i.op = "data" -> DataPrefixLen(Len(i.data)) + Len(i.data)
      [] OTHER -> 1
FirstHalf(s) == SubSeq(s, 1, Len(s) \div 2)
SecondHalf(s) == SubSeq(s, (Len(s) \div 2) + 1, Len(s))
RECURSIVE ScriptLen(_)
ScriptLen(s) == CASE s = <<>> -> 0
                  [] Len(s) = 1 -> OpLen(s[1])
                  [] OTHER -> ScriptLen(FirstHalf(s)) + ScriptLen(SecondHalf(s))

(* The script as bytes: an opcode is a byte of its own that no data holds. *)
Opcodes == <<"True", "False", "Drop", "Nip", "Dup", "Over", "Swap", "Rot", "2Swap", "2Rot", "Pick", "Roll", "Verify",
             "Not", "Negate", "Add", "Sub", "Mul", "Div", "Mod", "NumEqual", "NumNotEqual", "LessThan",
             "LessThanOrEqual", "GreaterThan", "GreaterThanOrEqual", "BoolAnd", "BoolOr", "And", "Or", "Xor", "Equal",
             "Cat", "Size", "Substr", "Num2Bin", "Bin2Num", "Blake2b", "SHA256", "CheckSig", "ToAltStack",
             "FromAltStack", "If", "Else", "EndIf", "CheckLockTimeVerify", "CheckSequenceVerify", "TxInputIndex",
             "TxInputCount", "TxOutputCount", "TxLockTime", "TxVersion", "TxInputAmount", "TxOutputAmount",
             "TxInputSpk", "TxOutputSpk", "TxInputScriptSigLen", "TxInputScriptSigSubstr", "AuthOutputCount",
             "AuthOutputIdx", "InputCovenantId", "CovInputCount", "CovInputIdx", "CovOutputCount", "CovOutputIdx">>
OpcodeByte == [op \in Range(Opcodes) |-> 2000 + IndexOf(Opcodes, op)]
OpBytes(i) ==
    CASE i.op = "num" -> IF i.n \in -1 .. 16 THEN <<1000 + i.n>> ELSE DataPrefix(Len(NumBytes(i.n))) \o NumBytes(i.n)
      [] i.op = "data" -> DataPrefix(Len(i.data)) \o i.data
      [] OTHER -> <<OpcodeByte[i.op]>>
RECURSIVE ScriptBytes(_)
ScriptBytes(s) == CASE s = <<>> -> <<>>
                    [] Len(s) = 1 -> OpBytes(s[1])
                    [] OTHER -> ScriptBytes(FirstHalf(s)) \o ScriptBytes(SecondHalf(s))

(* One instruction on a machine m: data stack, alt stack, branch conditions, failure. *)
Start(stack) == [st |-> stack, alt |-> <<>>, cond |-> <<>>, fail |-> FALSE]
Failed(m) == [m EXCEPT !.fail = TRUE]
Active(m) == \A i \in DOMAIN m.cond : m.cond[i]
Result(m, n, items) == [m EXCEPT !.st = items \o Below(@, n)]

Shuffles == {"Drop", "Nip", "Dup", "Over", "Swap", "Rot", "2Swap", "2Rot"}
Arithmetic == {"Add", "Sub", "Mul", "Div", "Mod", "NumEqual", "NumNotEqual", "LessThan", "LessThanOrEqual",
               "GreaterThan", "GreaterThanOrEqual", "BoolAnd", "BoolOr"}
Quotient(a, b) == IF (a < 0) = (b < 0) THEN Abs(a) \div Abs(b) ELSE -(Abs(a) \div Abs(b))
Calculate(op, a, b) ==
    CASE op = "Add" -> NumBytes(a + b)
      [] op = "Sub" -> NumBytes(a - b)
      [] op = "Mul" -> NumBytes(a * b)
      [] op = "Div" -> NumBytes(Quotient(a, b))
      [] op = "Mod" -> NumBytes(a - b * Quotient(a, b))
      [] op = "NumEqual" -> BoolBytes(a = b)
      [] op = "NumNotEqual" -> BoolBytes(a # b)
      [] op = "LessThan" -> BoolBytes(a < b)
      [] op = "LessThanOrEqual" -> BoolBytes(a <= b)
      [] op = "GreaterThan" -> BoolBytes(a > b)
      [] op = "GreaterThanOrEqual" -> BoolBytes(a >= b)
      [] op = "BoolAnd" -> BoolBytes(a # 0 /\ b # 0)
      [] op = "BoolOr" -> BoolBytes(a # 0 \/ b # 0)

Needs == [Drop |-> 1, Nip |-> 2, Rot |-> 3, Dup |-> 1, Over |-> 2, Swap |-> 2, Verify |-> 1, Not |-> 1,
          Negate |-> 1, Equal |-> 2, Cat |-> 2, Size |-> 1, Substr |-> 3, Num2Bin |-> 2, Bin2Num |-> 1,
          Blake2b |-> 1, SHA256 |-> 1, CheckSig |-> 2, ToAltStack |-> 1, If |-> 1, Pick |-> 1, Roll |-> 1,
          CheckLockTimeVerify |-> 1, CheckSequenceVerify |-> 1] @@
         ("2Swap" :> 4 @@ "2Rot" :> 6) @@ [o \in Arithmetic |-> 2]

(* Transaction introspection: tx answers each opcode with a list of its arguments' answers. *)
TxArity == [TxInputIndex |-> 0, TxInputCount |-> 0, TxOutputCount |-> 0, TxLockTime |-> 0, TxVersion |-> 0,
            TxInputAmount |-> 1, TxOutputAmount |-> 1, TxInputSpk |-> 1, TxOutputSpk |-> 1,
            TxInputScriptSigLen |-> 1, TxInputScriptSigSubstr |-> 3, AuthOutputCount |-> 1, AuthOutputIdx |-> 2,
            InputCovenantId |-> 1, CovInputCount |-> 1, CovInputIdx |-> 2, CovOutputCount |-> 1, CovOutputIdx |-> 2]
(* A set of positions in order, counted from 0, and one of them as an answer. *)
Positions(is) == SetToSortSeq({i - 1 : i \in is}, LAMBDA i, j : i < j)
AtIndex(is, k) == IF k + 1 \in DOMAIN is THEN <<NumBytes(is[k + 1])>> ELSE <<>>
CovenantAnswer(tx, op, args) ==
    LET k == NumOf(args[1])
        authorized(i) == Positions({j \in DOMAIN tx.outs : tx.outs[j].auth = i})
        bound(ios, id) == Positions({j \in DOMAIN ios : ios[j].cov = id})
    IN  CASE op = "AuthOutputCount" -> <<NumBytes(Len(authorized(k)))>>
          [] op = "AuthOutputIdx" -> AtIndex(authorized(NumOf(args[2])), k)
          [] op = "InputCovenantId" -> IF k + 1 \in DOMAIN tx.ins THEN <<tx.ins[k + 1].cov>> ELSE <<>>
          [] op = "CovInputCount" -> <<NumBytes(Len(bound(tx.ins, args[1])))>>
          [] op = "CovOutputCount" -> <<NumBytes(Len(bound(tx.outs, args[1])))>>
          [] op = "CovInputIdx" -> AtIndex(bound(tx.ins, args[2]), k)
          [] op = "CovOutputIdx" -> AtIndex(bound(tx.outs, args[2]), k)
CovenantOps == {"AuthOutputCount", "AuthOutputIdx", "InputCovenantId", "CovInputCount", "CovInputIdx",
                "CovOutputCount", "CovOutputIdx"}
TxAnswer(tx, op, args) ==      \* <<>> when the index or the range is out of bounds
    LET i == IF args = <<>> THEN 0 ELSE NumOf(Last(args))
        in == i + 1 \in DOMAIN tx.ins
        out == i + 1 \in DOMAIN tx.outs
    IN  CASE op = "TxInputIndex" -> <<NumBytes(tx.active)>>
          [] op = "TxInputCount" -> <<NumBytes(Len(tx.ins))>>
          [] op = "TxOutputCount" -> <<NumBytes(Len(tx.outs))>>
          [] op = "TxLockTime" -> <<NumBytes(tx.time)>>
          [] op = "TxVersion" -> <<NumBytes(1)>>
          [] op = "TxInputAmount" /\ in -> <<NumBytes(tx.ins[i + 1].value)>>
          [] op = "TxOutputAmount" /\ out -> <<NumBytes(tx.outs[i + 1].value)>>
          [] op = "TxInputSpk" /\ in -> <<tx.ins[i + 1].spk>>
          [] op = "TxOutputSpk" /\ out -> <<tx.outs[i + 1].spk>>
          [] op = "TxInputScriptSigLen" /\ in -> <<NumBytes(Len(tx.ins[i + 1].sig))>>
          [] op = "TxInputScriptSigSubstr" /\ in ->
                LET a == NumOf(args[2])  z == NumOf(args[1])  s == tx.ins[i + 1].sig
                IN  IF 0 <= a /\ a <= z /\ z <= Len(s) THEN <<SubSeq(s, a + 1, z)>> ELSE <<>>
          [] op \in CovenantOps -> CovenantAnswer(tx, op, args)
          [] OTHER -> <<>>

Flow(m, op) ==
    CASE op = "If" -> IF ~Active(m) THEN [m EXCEPT !.cond = @ \o <<FALSE>>]
                      ELSE IF m.st = <<>> THEN Failed(m)
                      ELSE [m EXCEPT !.cond = @ \o <<Truth(m.st[1])>>, !.st = Tail(@)]
      [] op = "Else" -> IF \A i \in 1 .. Len(m.cond) - 1 : m.cond[i]
                        THEN [m EXCEPT !.cond[Len(m.cond)] = ~@] ELSE m
      [] op = "EndIf" -> [m EXCEPT !.cond = Front(@)]

Apply(m, op, tx) ==
    LET s == m.st
        a == s[1]
        b == s[2]
    IN
    CASE op = "True" -> Result(m, 0, <<<<1>>>>)
      [] op = "False" -> Result(m, 0, <<<<>>>>)
      [] op \in {"Pick", "Roll"} ->
            IF ~IsNum(a) \/ NumOf(a) < 0 \/ NumOf(a) + 2 > Len(s) THEN Failed(m)
            ELSE [m EXCEPT !.st = Shuffle(op, NumOf(a), s)]
      [] op \in Shuffles -> [m EXCEPT !.st = Shuffle(op, 0, s)]
      [] op = "ToAltStack" -> [m EXCEPT !.st = Tail(@), !.alt = <<a>> \o @]
      [] op = "FromAltStack" -> IF m.alt = <<>> THEN Failed(m)
                                ELSE [m EXCEPT !.st = <<m.alt[1]>> \o @, !.alt = Tail(@)]
      [] op = "Verify" -> IF Truth(a) THEN Result(m, 1, <<>>) ELSE Failed(m)
      [] op = "Not" -> IF IsNum(a) THEN Result(m, 1, <<BoolBytes(NumOf(a) = 0)>>) ELSE Failed(m)
      [] op = "Negate" -> IF IsNum(a) THEN Result(m, 1, <<NumBytes(-NumOf(a))>>) ELSE Failed(m)
      [] op \in Arithmetic ->
            IF ~IsNum(a) \/ ~IsNum(b) \/ (op \in {"Div", "Mod"} /\ NumOf(a) = 0) THEN Failed(m)
            ELSE Result(m, 2, <<Calculate(op, NumOf(b), NumOf(a))>>)
      [] op = "Equal" -> Result(m, 2, <<BoolBytes(a = b)>>)
      [] op = "Cat" -> Result(m, 2, <<b \o a>>)
      [] op = "Size" -> Result(m, 0, <<NumBytes(Len(a))>>)
      [] op = "Substr" ->
            LET from == NumOf(b)  to == NumOf(a) IN
            IF IsNum(a) /\ IsNum(b) /\ 0 <= from /\ from <= to /\ to <= Len(s[3])
            THEN Result(m, 3, <<SubSeq(s[3], from + 1, to)>>) ELSE Failed(m)
      [] op = "Num2Bin" ->
            IF IsNum(b) /\ IsNum(a) /\ NumOf(a) \in Len(NumBytes(NumOf(b))) .. 8
            THEN Result(m, 2, <<IF NumOf(a) = 0 THEN <<>> ELSE Padded(NumOf(b), NumOf(a))>>) ELSE Failed(m)
      [] op = "Bin2Num" -> IF IsNum(a) THEN Result(m, 1, <<NumBytes(NumOf(a))>>) ELSE Failed(m)
      [] op \in {"Blake2b", "SHA256"} -> Result(m, 1, <<Hash(op, a)>>)
      [] op = "CheckSig" -> Result(m, 2, <<BoolBytes(b = SignatureOf(a))>>)
      [] op = "CheckLockTimeVerify" -> IF NumOf(a) <= tx.time THEN Result(m, 1, <<>>) ELSE Failed(m)
      [] op = "CheckSequenceVerify" -> IF NumOf(a) <= tx.age THEN Result(m, 1, <<>>) ELSE Failed(m)
      [] op \in DOMAIN TxArity ->
            LET n == TxArity[op]
                r == TxAnswer(tx, op, SubSeq(s, 1, n))
            IN  IF r = <<>> THEN Failed(m) ELSE Result(m, n, r)

StepOp(m, i, tx) ==
    IF m.fail THEN m
    ELSE IF i.op \in {"If", "Else", "EndIf"} THEN Flow(m, i.op)
    ELSE IF ~Active(m) THEN m
    ELSE IF i.op = "num" THEN Result(m, 0, <<NumBytes(i.n)>>)
    ELSE IF i.op = "data" THEN Result(m, 0, <<i.data>>)
    ELSE IF i.op \in DOMAIN Needs /\ Len(m.st) < Needs[i.op] THEN Failed(m)
    ELSE IF i.op \in DOMAIN TxArity /\ Len(m.st) < TxArity[i.op] THEN Failed(m)
    ELSE Apply(m, i.op, tx)

RECURSIVE RunScript(_, _, _)
RunScript(m, script, tx) ==
    IF m.fail \/ script = <<>> THEN m
    ELSE IF Len(script) = 1 THEN StepOp(m, script[1], tx)
    ELSE RunScript(RunScript(m, FirstHalf(script), tx), SecondHalf(script), tx)
Execute(script, stack, tx) == RunScript(Start(stack), script, tx)

(* What the node asks of the last machine: nothing failed and one true item is left. *)
Accepts(m) == ~m.fail /\ Len(m.st) = 1 /\ Truth(m.st[1])
=============================================================================
